---------------------------- MODULE DevicesProofs ----------------------------
(***************************************************************************)
(* The configuration flow of a device context, for all settings, updaters  *)
(* and queue sizes, in every circumstance: Newest says where the           *)
(* configuration is that a device is to follow, and Believed what the loop *)
(* rightly takes for set; both give way only where the history variables   *)
(* record that the code lost track.                                        *)
(*                                                                         *)
(* The network devices and the clock, for any number of sessions, reports, *)
(* servers and calls.  Each part has an inductive invariant of its own:    *)
(* OwnInv ties what KiwiSDR threads hold to the session that is open;      *)
(* SessionInv does so for a SpyServer stream, and ReportInv, which needs   *)
(* from it that no producer runs during a handshake, ties what the         *)
(* receiver says of itself to the newest reports; NoticeInv keeps a call   *)
(* to the clock from being missed between its test and its wait.           *)
(***************************************************************************)
EXTENDS ConfigFlow, KiwiSDR, SpyServer, ClockSync, FiniteSetTheorems, TLAPS

-----------------------------------------------------------------------------
(* The configuration flow.                                                 *)

Quiet == \A u \in Updaters : update[u].at # "swapped"

\* A stopped device has no I/O thread, and a new one has nothing pending.
Places ==
  /\ state = "stopped" => io = "off"
  /\ io \in {"starting", "opening", "opened"} => pending = NoConfig

\* What waits for the hardware ends with the configuration; when nothing
\* waits, the configuration is the one the loop takes for applied.
Newest ==
  Looping /\ ~astray /\ Quiet =>
    /\ ctl # <<>> => ctl[Len(ctl)] = config
    /\ ctl = <<>> /\ pending # NoConfig => pending = config
    /\ ctl = <<>> /\ pending = NoConfig => MatchesBut(local, config, suspect)

\* What the I/O thread believes it applied is what the device is set to.
Believed ==
  /\ io = "opened" => MatchesBut(hw, local, {})
  /\ Looping => MatchesBut(hw, local, suspect)

Delivery == TypeOK /\ Places /\ Newest /\ Believed

-----------------------------------------------------------------------------
\* The settings a configuration is made of, as records.
LEMMA ConfigFields ==
  /\ \A c \in Configs : c.freq \in Freqs /\ c.auto \in BOOLEAN /\ c.gain \in Gains
  /\ \A f \in Freqs, a \in BOOLEAN, g \in Gains : [freq |-> f, auto |-> a, gain |-> g] \in Configs
BY DEF Configs

\* setup leaves a device that matches, whatever it was set to.
LEMMA SetUpMatches ==
  ASSUME NEW h \in Configs, NEW c \in Configs
  PROVE  SetUp(h, c) \in Configs /\ MatchesBut(SetUp(h, c), c, {})
BY ConfigFields DEF SetUp, Automatic, Manual, MatchesBut, TunedAs, GainedAs, Configs

\* Two settings agree with a third when the second does with the first.
LEMMA MatchesTwice ==
  ASSUME NEW a, NEW b, NEW c, NEW s, MatchesBut(a, b, s), MatchesBut(b, c, s)
  PROVE  MatchesBut(a, c, s)
BY DEF MatchesBut, TunedAs, GainedAs

\* A configuration agrees with another one but for what would be set to get there.
LEMMA UntouchedAgrees ==
  ASSUME NEW new \in Configs, NEW old \in Configs, NEW s, Touched(new, old) \subseteq s
  PROVE  MatchesBut(old, new, s)
BY ConfigFields DEF Touched, MatchesBut, TunedAs, GainedAs

LEMMA MatchesLess ==
  ASSUME NEW h, NEW c, NEW s, NEW more, s \subseteq more, MatchesBut(h, c, s)
  PROVE  MatchesBut(h, c, more)
BY DEF MatchesBut

LEMMA MatchesSelf == ASSUME NEW c, NEW s PROVE MatchesBut(c, c, s)
BY DEF MatchesBut, TunedAs, GainedAs

\* The setters called for the differences are enough: what matched the
\* configuration applied last matches the new one, and what was set does.
LEMMA AppliedMatches ==
  ASSUME NEW h \in Configs, NEW new \in Configs, NEW old \in Configs, NEW s,
         MatchesBut(h, old, s)
  PROVE  MatchesBut(Applied(h, new, old), new, s \ Touched(new, old))
<1> DEFINE t == Tuned(h, new, old)
           g == Toggled(t, new, old)
<1>1. /\ t \in Configs /\ t.auto = h.auto /\ t.gain = h.gain
      /\ "freq" \notin s \ Touched(new, old) => t.freq = new.freq
  BY ConfigFields DEF Tuned, MatchesBut, TunedAs, Touched, Configs
<1>2. /\ g \in Configs /\ g.freq = t.freq
      /\ new.auto = old.auto => g.gain = h.gain /\ g.auto = h.auto
      /\ new.auto # old.auto => g.auto = new.auto /\ (~new.auto => g.gain = new.gain)
  <2> HIDE DEF t
  <2> QED BY <1>1, ConfigFields DEF Toggled, Automatic, Manual, Configs
<1> HIDE DEF g
<1>3. Gained(g, new, old).freq = t.freq
  BY <1>2 DEF Gained, Manual
<1> HIDE DEF t
<1>4. "gain" \notin s \ Touched(new, old) => GainedAs(Gained(g, new, old), new)
  <2>1. CASE new.auto # old.auto
    BY <1>2, <2>1, ConfigFields DEF Gained, Manual, GainedAs
  <2>2. CASE new.auto = old.auto /\ ~new.auto /\ new.gain # old.gain
    BY <2>2, ConfigFields DEF Gained, Manual, GainedAs
  <2>3. CASE new.auto = old.auto /\ ~(~new.auto /\ new.gain # old.gain)
    <3>1. "gain" \notin Touched(new, old) BY <2>3 DEF Touched
    <3>2. "gain" \notin s => GainedAs(h, old) BY DEF MatchesBut
    <3>3. Gained(g, new, old) = g BY <2>3 DEF Gained
    <3> QED BY <1>2, <2>3, <3>1, <3>2, <3>3, ConfigFields DEF GainedAs
  <2> QED BY <2>1, <2>2, <2>3
<1> QED BY <1>1, <1>3, <1>4 DEF Applied, MatchesBut, TunedAs, t, g

\* Setters that were not to be called leave what they would set alone.
LEMMA PartlyMatches ==
  ASSUME NEW h \in Configs, NEW new \in Configs, NEW old \in Configs, NEW s,
         NEW p \in PartlyApplied(h, new, old), MatchesBut(h, old, s)
  PROVE  MatchesBut(p, old, s \cup Touched(new, old))
<1>1. "freq" \notin Touched(new, old) => p.freq = h.freq
  BY ConfigFields DEF Touched, PartlyApplied, Tuned, Toggled, Automatic, Manual
<1>2. "gain" \notin Touched(new, old) => p.auto = h.auto /\ p.gain = h.gain
  BY ConfigFields DEF Touched, PartlyApplied, Tuned, Toggled, Automatic, Manual
<1> QED BY <1>1, <1>2 DEF MatchesBut, TunedAs, GainedAs

-----------------------------------------------------------------------------
\* A put keeps a queue of configurations within its size and leaves it with some.
LEMMA PutFacts ==
  ASSUME NEW q \in Seq(Configs), NEW c \in Configs, NEW max \in Nat \ {0}, Len(q) <= max
  PROVE  /\ Put(q, c, max) \in Seq(Configs) /\ Len(Put(q, c, max)) <= max
         /\ Put(q, c, max) # <<>>
BY DEF Put

\* The history variables keep to their ranges.
LEMMA HistoryFacts ==
  /\ \A q : Astray(q) \in BOOLEAN
  /\ \A new, old : Touched(new, old) \subseteq {"freq", "gain"}
BY DEF Astray, Touched

\* The head and the newest element of a queue are configurations.
LEMMA TakeFacts ==
  ASSUME NEW q \in Seq(Configs), q # <<>>
  PROVE  /\ q[Len(q)] \in Configs /\ Head(q) \in Configs
         /\ Tail(q) \in Seq(Configs) /\ Len(Tail(q)) <= Len(q)
OBVIOUS

\* What an update holds: a configuration from the swap to the end.
LEMMA UpdateFacts ==
  ASSUME TypeOK, NEW u \in Updaters
  PROVE  /\ InFlight(u) <=> update[u] # Idle
         /\ InFlight(u) => update[u].new \in Configs /\ update[u].at \in {"swapped", "halfway"}
BY DEF TypeOK, InFlight, Idle

\* A swap puts one of the configurations in place and on its way.
LEMMA SwapFacts ==
  ASSUME TypeOK, NEW u \in Updaters, Swap(u)
  PROVE  /\ config' \in Configs
         /\ update' = [update EXCEPT ![u] = [at |-> "swapped", new |-> config']]
         /\ update' \in [Updaters -> {Idle} \cup [at : {"swapped", "halfway"}, new : Configs]]
<1>1. PICK new \in Edited(u) :
        config' = new /\ update' = [update EXCEPT ![u] = [at |-> "swapped", new |-> new]]
  BY DEF Swap
<1>2. new \in Configs BY <1>1 DEF Edited, TypeOK, Configs
<1>3. [at |-> "swapped", new |-> new] \in [at : {"swapped", "halfway"}, new : Configs]
  BY <1>2
<1> QED BY <1>1, <1>2, <1>3 DEF TypeOK

\* A put to the control queue, or none when the device is stopped.
LEMMA NotifyHardwareFacts ==
  ASSUME TypeOK, NEW u \in Updaters, NotifyHardware(u)
  PROVE  /\ ctl' \in Seq(Configs) /\ Len(ctl') <= CtlMax
         /\ update' \in [Updaters -> {Idle} \cup [at : {"swapped", "halfway"}, new : Configs]]
<1>1. update[u].new \in Configs BY UpdateFacts DEF NotifyHardware, InFlight
<1>2. Put(ctl, update[u].new, CtlMax) \in Seq(Configs)
      /\ Len(Put(ctl, update[u].new, CtlMax)) <= CtlMax
  BY <1>1, PutFacts, FlowAssumption DEF TypeOK
<1>3. ctl' \in Seq(Configs) /\ Len(ctl') <= CtlMax
  BY <1>2 DEF NotifyHardware, TypeOK
<1>4. [update[u] EXCEPT !.at = "halfway"] \in [at : {"swapped", "halfway"}, new : Configs]
  BY <1>1, UpdateFacts DEF TypeOK, NotifyHardware, InFlight, Idle
<1>5. update' \in [Updaters -> {Idle} \cup [at : {"swapped", "halfway"}, new : Configs]]
  BY <1>4 DEF NotifyHardware, TypeOK
<1> QED BY <1>3, <1>5

\* Every variable keeps to its range, in every circumstance.
LEMMA TypeStep == TypeOK /\ [Next]_vars => TypeOK'
<1> SUFFICES ASSUME TypeOK, [Next]_vars PROVE TypeOK'
  OBVIOUS
<1>1. CASE ControlNext
  BY <1>1, FlowAssumption DEF ControlNext, Start, StopRequest, StopDone, TypeOK, queues, hardware, processing,
              updating
<1>2. ASSUME NEW u \in Updaters, Swap(u) PROVE TypeOK'
  <2>1. /\ config' \in Configs
        /\ update' \in [Updaters -> {Idle} \cup [at : {"swapped", "halfway"}, new : Configs]]
    BY <1>2, SwapFacts
  <2> QED BY <1>2, <2>1 DEF Swap, TypeOK, queues, hardware, processing
<1>3. ASSUME NEW u \in Updaters, NotifyHardware(u) PROVE TypeOK'
  <2>1. /\ ctl' \in Seq(Configs) /\ Len(ctl') <= CtlMax
        /\ update' \in [Updaters -> {Idle} \cup [at : {"swapped", "halfway"}, new : Configs]]
    BY <1>3, NotifyHardwareFacts
  <2>2. astray' \in BOOLEAN
    BY <1>3, HistoryFacts DEF NotifyHardware, TypeOK
  <2>3. /\ state' = state /\ config' = config /\ edits' = edits /\ stg' = stg
        /\ UNCHANGED <<hardware, processing>>
    BY <1>3 DEF NotifyHardware
  <2> QED BY <2>1, <2>2, <2>3 DEF TypeOK, hardware, processing
<1>4. ASSUME NEW u \in Updaters, NotifyStages(u) PROVE TypeOK'
  <2>1. update[u].new \in Configs BY <1>4, UpdateFacts DEF NotifyStages, InFlight
  <2>2. Put(stg, update[u].new, StgMax) \in Seq(Configs)
        /\ Len(Put(stg, update[u].new, StgMax)) <= StgMax
    BY <2>1, PutFacts, FlowAssumption DEF TypeOK
  <2> QED BY <1>4, <2>2 DEF NotifyStages, TypeOK, hardware, processing
<1>5. CASE SetupNext
  <2>1. SetUp(hw, local) \in Configs BY SetUpMatches DEF TypeOK
  <2>2. Astray(ctl) \in BOOLEAN /\ Touched(config, local) \subseteq {"freq", "gain"}
    BY HistoryFacts
  <2> QED BY <1>5, <2>1, <2>2 DEF SetupNext, Snapshot, Open, OpenFails, RunBegins, IoStep, TypeOK,
                            updating, processing
<1>6. CASE Drain
  <2>1. Drained(ctl, pending) \in Configs \cup {NoConfig}
    BY TakeFacts DEF Drained, TypeOK
  <2> QED BY <1>6, <2>1, FlowAssumption DEF Drain, IoStep, TypeOK, updating, processing
<1>7. CASE Apply
  <2>1. pending \in Configs BY <1>7 DEF Apply, TypeOK
  <2>2. Applied(hw, pending, local) \in Configs
    BY <2>1, ConfigFields DEF TypeOK, Applied, Gained, Toggled, Tuned, Automatic, Manual, Configs
  <2> QED BY <1>7, <2>1, <2>2 DEF Apply, IoStep, TypeOK, updating, processing
<1>8. CASE ApplyFails
  <2>1. pending \in Configs BY <1>8 DEF ApplyFails, TypeOK
  <2>2. PartlyApplied(hw, pending, local) \subseteq Configs
    BY <2>1, ConfigFields DEF TypeOK, PartlyApplied, Toggled, Tuned, Automatic, Manual, Configs
  <2>3. Touched(pending, local) \subseteq {"freq", "gain"}
    BY HistoryFacts
  <2> QED BY <1>8, <2>2, <2>3 DEF ApplyFails, IoStep, TypeOK, updating, processing
<1>9. CASE RunEnds \/ Defer \/ Read
  BY <1>9 DEF RunEnds, Defer, Read, IoStep, TypeOK, updating, processing
<1>10. CASE StagesFollow
  <2>1. Head(stg) \in Configs /\ Tail(stg) \in Seq(Configs) /\ Len(Tail(stg)) <= StgMax
    BY <1>10, TakeFacts, FlowAssumption DEF StagesFollow, TypeOK
  <2> QED BY <1>10, <2>1 DEF StagesFollow, TypeOK, updating, hardware
<1>11. CASE PipelineEnds
  BY <1>11 DEF PipelineEnds, TypeOK, updating, queues, hardware
<1>12. CASE UNCHANGED vars
  BY <1>12 DEF vars, TypeOK, updating, queues, hardware, processing
<1> QED
  BY <1>1, <1>2, <1>3, <1>4, <1>5, <1>6, <1>7, <1>8, <1>9, <1>10, <1>11, <1>12
  DEF Next, Notify, LoopNext

-----------------------------------------------------------------------------
\* Until its put a swap leaves nothing for the hardware to be held to.
LEMMA DeliverySwap ==
  ASSUME Delivery, NEW u \in Updaters, Swap(u)
  PROVE  Places' /\ Newest' /\ Believed'
<1>1. update' = [update EXCEPT ![u] = [at |-> "swapped", new |-> config']]
  BY SwapFacts DEF Delivery
<1>2. UNCHANGED <<state, io, local, pending, hw, suspect>>
  BY DEF Swap, hardware
<1>3. update'[u].at = "swapped"
  BY <1>1 DEF Delivery, TypeOK
<1> QED BY <1>2, <1>3 DEF Delivery, Places, Newest, Quiet, Believed, Looping

\* A put that leaves another configuration the newest of the queue is recorded.
LEMMA DeliveryNotify ==
  ASSUME Delivery, NEW u \in Updaters, NotifyHardware(u)
  PROVE  Places' /\ Newest' /\ Believed'
<1>1. UNCHANGED <<state, config, io, local, pending, hw, suspect>>
  BY DEF NotifyHardware, hardware
<1>2. Newest'
  <2>1. CASE state = "stopped"
    BY <1>1, <2>1 DEF Delivery, Places, Newest, Looping
  <2>2. CASE state # "stopped"
    <3>1. update[u].new \in Configs BY UpdateFacts DEF Delivery, NotifyHardware, InFlight
    <3>2. ctl' = Put(ctl, update[u].new, CtlMax) /\ astray' = Astray(ctl')
      BY <2>2 DEF NotifyHardware
    <3>3. ctl' # <<>>
      BY <3>1, <3>2, PutFacts, FlowAssumption DEF Delivery, TypeOK
    <3> QED BY <1>1, <3>2, <3>3 DEF Newest, Astray
  <2> QED BY <2>1, <2>2
<1> QED BY <1>1, <1>2 DEF Delivery, Places, Believed, Looping

\* The steps of the control, set-up and processing threads keep the delivery.
LEMMA DeliveryElsewhere ==
  ASSUME Delivery,
         ControlNext \/ SetupNext \/ (\E u \in Updaters : NotifyStages(u))
           \/ StagesFollow \/ PipelineEnds
  PROVE  Places' /\ Newest' /\ Believed'
<1> USE DEF Delivery
<1>1. CASE ControlNext
  <2>1. UNCHANGED <<config, update, ctl, astray, local, hw, suspect>>
    BY <1>1 DEF ControlNext, Start, StopRequest, StopDone, updating, queues, hardware
  <2>2. CASE Start
    BY <2>2 DEF Start, Places, Newest, Believed, Looping
  <2>3. CASE StopRequest \/ StopDone
    <3>1. UNCHANGED <<io, pending>> BY <2>3 DEF StopRequest, StopDone, hardware
    <3> QED BY <2>1, <2>3, <3>1
            DEF StopRequest, StopDone, Places, Newest, Quiet, Believed, Looping
  <2> QED BY <1>1, <2>2, <2>3 DEF ControlNext
<1>2. CASE SetupNext
  <2>1. UNCHANGED <<config, update, ctl, state, pending>>
    BY <1>2 DEF SetupNext, Snapshot, Open, OpenFails, RunBegins, IoStep, updating
  <2>2. Places' /\ io # "off" /\ ~Looping
    BY <1>2, <2>1 DEF SetupNext, Snapshot, Open, OpenFails, RunBegins, IoStep, Looping, Places
  <2>3. CASE Snapshot \/ OpenFails
    BY <2>2, <2>3 DEF Snapshot, OpenFails, IoStep, Newest, Believed, Looping
  <2>4. CASE Open
    <3>1. MatchesBut(hw', local', {}) BY <2>4, SetUpMatches DEF Open, TypeOK
    <3> QED BY <2>2, <2>4, <3>1 DEF Open, IoStep, Newest, Believed, Looping
  <2>5. CASE RunBegins
    <3>1. /\ local' = config /\ hw' = hw /\ suspect' = Touched(config, local)
          /\ astray' = Astray(ctl) /\ pending = NoConfig /\ io = "opened" /\ io' = "top"
      BY <2>5 DEF RunBegins, IoStep, Places
    <3>2. MatchesBut(local, config, suspect')
      BY <3>1, UntouchedAgrees DEF TypeOK
    <3>3. MatchesBut(hw, local, suspect')
      BY <3>1, MatchesLess DEF Believed
    <3>4. MatchesBut(hw', local', suspect')
      BY <3>1, <3>2, <3>3, MatchesTwice
    <3>5. MatchesBut(local', config, suspect')
      BY <3>1, MatchesSelf
    <3> QED BY <2>1, <2>2, <3>1, <3>4, <3>5 DEF Newest, Believed, Looping, Astray
  <2> QED BY <1>2, <2>3, <2>4, <2>5 DEF SetupNext
<1>3. ASSUME NEW u \in Updaters, NotifyStages(u)
      PROVE  Places' /\ Newest' /\ Believed'
  <2>1. UNCHANGED <<config, ctl, astray, state, io, local, pending, hw, suspect>>
    BY <1>3 DEF NotifyStages, hardware
  <2>2. /\ update[u].at = "halfway"
        /\ \A w \in Updaters : w # u => update'[w] = update[w]
    BY <1>3 DEF NotifyStages, TypeOK
  <2>3. Quiet' => Quiet BY <2>2 DEF Quiet
  <2> QED BY <2>1, <2>3 DEF Places, Newest, Believed, Looping
<1>4. CASE StagesFollow \/ PipelineEnds
  <2>1. UNCHANGED <<config, update, ctl, astray, state, io, local, pending, hw, suspect>>
    BY <1>4 DEF StagesFollow, PipelineEnds, updating, queues, hardware
  <2> QED BY <2>1 DEF Places, Newest, Quiet, Believed, Looping
<1> QED BY <1>1, <1>2, <1>3, <1>4

\* An iteration hands the newest configuration on, from the queue to the
\* pending one and from there to the device; what it gives up is suspect.
LEMMA DeliveryLoop ==
  ASSUME Delivery, LoopNext
  PROVE  Places' /\ Newest' /\ Believed'
<1> USE DEF Delivery
<1>1. UNCHANGED <<config, update, state>> /\ Looping
  BY DEF LoopNext, Drain, RunEnds, Apply, ApplyFails, Defer, Read, IoStep, updating, Looping
<1>2. Quiet' <=> Quiet BY <1>1 DEF Quiet
<1>3. Places'
  BY DEF LoopNext, Drain, RunEnds, Apply, ApplyFails, Defer, Read, IoStep, Places
<1>4. CASE Drain
  <2>1. ctl' = <<>> /\ UNCHANGED <<astray, local, hw, suspect>> /\ io' = "drained"
    BY <1>4 DEF Drain, IoStep
  <2>2. CASE ctl = <<>>
    <3>1. pending' = pending BY <1>4, <2>2 DEF Drain, Drained
    <3> QED BY <1>1, <1>2, <1>3, <2>1, <2>2, <3>1 DEF Newest, Believed, Looping
  <2>3. CASE ctl # <<>>
    <3>1. pending' = ctl[Len(ctl)] /\ pending' \in Configs
      BY <1>4, <2>3, TakeFacts DEF Drain, Drained, TypeOK
    <3>2. pending' # NoConfig BY <3>1, FlowAssumption
    <3> QED BY <1>1, <1>2, <1>3, <2>1, <2>3, <3>1, <3>2 DEF Newest, Believed, Looping
  <2> QED BY <2>2, <2>3
<1>5. CASE RunEnds
  BY <1>3, <1>5 DEF RunEnds, IoStep, Newest, Believed, Looping
<1>6. CASE Apply
  <2>1. /\ local' = pending /\ pending' = NoConfig /\ UNCHANGED <<ctl, astray>>
        /\ pending \in Configs /\ pending # NoConfig /\ io' = "reading"
        /\ hw' = Applied(hw, pending, local) /\ suspect' = suspect \ Touched(pending, local)
    BY <1>6 DEF Apply, IoStep, TypeOK
  <2>2. MatchesBut(hw', local', suspect')
    BY <1>1, <2>1, AppliedMatches DEF TypeOK, Believed
  <2>3. MatchesBut(local', local', suspect') BY MatchesSelf
  <2> QED BY <1>1, <1>2, <1>3, <2>1, <2>2, <2>3 DEF Newest, Believed, Looping
<1>7. CASE ApplyFails
  <2>1. /\ local' = local /\ pending' = NoConfig /\ UNCHANGED <<ctl, astray>>
        /\ pending \in Configs /\ pending # NoConfig /\ io' = "reading"
        /\ hw' \in PartlyApplied(hw, pending, local)
        /\ suspect' = suspect \cup Touched(pending, local)
    BY <1>7 DEF ApplyFails, IoStep, TypeOK
  <2>2. MatchesBut(hw', local, suspect')
    BY <1>1, <2>1, PartlyMatches DEF TypeOK, Believed
  <2>3. MatchesBut(local, pending, suspect')
    BY <2>1, UntouchedAgrees DEF TypeOK
  <2> QED BY <1>1, <1>2, <1>3, <2>1, <2>2, <2>3 DEF Newest, Believed, Looping
<1>8. CASE Defer \/ Read
  <2>1. /\ UNCHANGED <<ctl, astray, local, pending, hw, suspect>> /\ io' \in {"reading", "top"}
    BY <1>8 DEF Defer, Read, IoStep
  <2> QED BY <1>1, <1>2, <1>3, <2>1 DEF Newest, Believed, Looping
<1> QED BY <1>4, <1>5, <1>6, <1>7, <1>8 DEF LoopNext

LEMMA DeliveryStep == Delivery /\ [Next]_vars => Delivery'
<1> SUFFICES ASSUME Delivery, [Next]_vars PROVE Delivery'
  OBVIOUS
<1>1. TypeOK' BY TypeStep DEF Delivery
<1>2. Places' /\ Newest' /\ Believed'
  <2>1. ASSUME NEW u \in Updaters, Swap(u) PROVE Places' /\ Newest' /\ Believed'
    BY <2>1, DeliverySwap
  <2>2. ASSUME NEW u \in Updaters, NotifyHardware(u) PROVE Places' /\ Newest' /\ Believed'
    BY <2>2, DeliveryNotify
  <2>3. CASE LoopNext BY <2>3, DeliveryLoop
  <2>4. CASE ControlNext \/ SetupNext \/ (\E u \in Updaters : NotifyStages(u))
               \/ StagesFollow \/ PipelineEnds
    BY <2>4, DeliveryElsewhere
  <2>5. CASE UNCHANGED vars
    BY <2>5 DEF vars, updating, queues, hardware, Delivery, Places, Newest, Quiet, Believed, Looping
  <2> QED BY <2>1, <2>2, <2>3, <2>4, <2>5 DEF Next, Notify
<1> QED BY <1>1, <1>2 DEF Delivery

\* At the start nothing waits and nothing is believed.
LEMMA DeliveryInit == Init => Delivery
<1> SUFFICES ASSUME Init PROVE Delivery
  OBVIOUS
<1>1. TypeOK
  <2>1. ctl \in Seq(Configs) /\ Len(ctl) <= CtlMax /\ stg \in Seq(Configs) /\ Len(stg) <= StgMax
    BY FlowAssumption DEF Init
  <2>2. update \in [Updaters -> {Idle} \cup [at : {"swapped", "halfway"}, new : Configs]]
    BY DEF Init
  <2>3. astray \in BOOLEAN /\ suspect \subseteq {"freq", "gain"} BY DEF Init
  <2> QED BY <2>1, <2>2, <2>3 DEF Init, TypeOK
<1>2. Places /\ Newest /\ Believed BY DEF Init, Places, Newest, Believed, Looping
<1> QED BY <1>1, <1>2 DEF Delivery

\* In every circumstance the variables keep to their ranges: the queues hold
\* configurations only and never more than their size (update_config, IOWorker).
THEOREM TypeCorrect == Spec => []TypeOK
<1>1. Init => TypeOK BY DeliveryInit DEF Delivery
<1> QED BY <1>1, TypeStep, PTL DEF Spec

\* An I/O thread with nothing left to take has set the device as the
\* configuration says, whatever updates crossed, overflowed or came while the
\* device was opened, but for what the history variables name (update_config,
\* IOWorker.run).
THEOREM HardwareSettles == Spec => []SettledHardware
<1>1. ASSUME Delivery PROVE SettledHardware
  <2>1. ASSUME Settled, ~astray PROVE MatchesBut(hw, config, suspect)
    <3>1. MatchesBut(local, config, suspect)
      BY <1>1, <2>1 DEF Delivery, Newest, Quiet, Settled
    <3>2. MatchesBut(hw, local, suspect)
      BY <1>1, <2>1 DEF Delivery, Believed, Settled
    <3> QED BY <3>1, <3>2, MatchesTwice
  <2> QED BY <2>1 DEF SettledHardware
<1> QED BY <1>1, DeliveryInit, DeliveryStep, PTL DEF Spec

\* Every batch is labelled with the frequency the device was tuned to when it
\* was read, but for one under suspicion (IOWorker.run, SamplesBatch).
THEOREM BatchesAreLabelled == Spec => []LabelIsTuned
<1>1. Delivery => LabelIsTuned
  BY DEF Delivery, Believed, LabelIsTuned, Looping, MatchesBut, TunedAs
<1> QED BY <1>1, DeliveryInit, DeliveryStep, PTL DEF Spec

-----------------------------------------------------------------------------
(* KiwiSDR.                                                                *)

USE KiwiAssumption

Alive(n, t) == pc[n][t] # "dead"

\* At most one producer is alive, the one jitter._thread is, and the samples that wait are its own
\* until the I/O thread has joined it. The waterfall threads that are alive are that of the present
\* session, once it has been started, and those which close did not wait for.
OwnInv ==
  /\ pc \in [Sessions -> [Threads -> Steps]]
  /\ session \in 0 .. MaxSessions /\ producing \in 0 .. MaxSessions
  /\ kio # "closed" => session > 0
  /\ kio = "running" => producing = session
  /\ kio # "end" => sndBuf \subseteq {producing} \ {0}
  /\ \A n \in Sessions : Alive(n, "producer") => producing = n
  /\ \A n \in Sessions :
       Alive(n, "waterfall") => n \in outlived \/ (n = session /\ kio \notin {"closed", "opening"})
  /\ frames \subseteq outlived \cup {session}
  /\ kio \in {"closed", "opening"} => frames \subseteq outlived

LEMMA OwnInit == KiwiInit => OwnInv
BY DEF KiwiInit, OwnInv, Alive, Sessions, Threads, Readers, Steps

\* A step of a thread that leaves the buffers alone.
LEMMA Moves ==
  ASSUME OwnInv, NEW n \in Sessions, NEW t \in Threads, Alive(n, t), NEW place \in Steps,
         pc' = pc \/ Goto(n, t, place),
         UNCHANGED <<kio, session, producing, sndBuf, frames, outlived>>
  PROVE  OwnInv'
<1>1. CASE pc' = pc
  BY <1>1 DEF OwnInv, Alive
<1>2. CASE Goto(n, t, place)
  <2>1. pc' \in [Sessions -> [Threads -> Steps]]
    BY <1>2 DEF OwnInv, Goto
  <2>2. \A m \in Sessions, u \in Threads : Alive(m, u)' => Alive(m, u)
    BY <1>2 DEF OwnInv, Goto, Alive
  <2>3. "producer" \in Threads /\ "waterfall" \in Threads
    BY DEF Threads, Readers
  <2> QED
    BY <2>1, <2>2, <2>3 DEF OwnInv
<1> QED
  BY <1>1, <1>2

\* The I/O thread.
LEMMA OwnIO == ASSUME OwnInv, KiwiIO PROVE OwnInv'
<1> USE DEF Sessions
<1>1. CASE OpenSnd
  BY <1>1 DEF OpenSnd, OwnInv, Alive, buffers, joinVars
<1>2. CASE OpenWf
  BY <1>2 DEF OpenWf, OwnInv, Alive, ioVars, buffers, joinVars
<1>3. CASE ConnectFails
  BY <1>3 DEF ConnectFails, OwnInv, Alive, buffers, joinVars
<1>4. CASE Ready
  <2>1. session \in Sessions
    BY <1>4 DEF Ready, OwnInv
  <2>2. pc' \in [Sessions -> [Threads -> Steps]]
    BY <1>4, <2>1 DEF Ready, OwnInv, Threads, Readers, Steps
  <2>3. \A m \in Sessions : /\ pc'[m]["producer"] = pc[m]["producer"]
                            /\ m # session => pc'[m]["waterfall"] = pc[m]["waterfall"]
    BY <1>4, <2>1 DEF Ready, OwnInv, Threads, Readers
  <2> QED
    BY <1>4, <2>1, <2>2, <2>3 DEF Ready, OwnInv, Alive, buffers, joinVars
<1>5. CASE StartProducer
  <2>1. session \in Sessions
    BY <1>5 DEF StartProducer, OwnInv
  <2>2. pc' \in [Sessions -> [Threads -> Steps]]
    BY <1>5, <2>1 DEF StartProducer, OwnInv, Threads, Readers, Steps
  <2>3. \A m \in Sessions : /\ pc'[m]["waterfall"] = pc[m]["waterfall"]
                            /\ m # session => pc'[m]["producer"] = pc[m]["producer"]
    BY <1>5, <2>1 DEF StartProducer, OwnInv, Threads, Readers
  <2>4. sndBuf = {} /\ \A m \in Sessions : ~Alive(m, "producer")
    BY <1>5 DEF StartProducer, OwnInv
  <2> QED
    BY <1>5, <2>1, <2>2, <2>3, <2>4 DEF StartProducer, OwnInv, Alive, buffers, joinVars
<1>6. CASE DrainFrames
  BY <1>6 DEF DrainFrames, OwnInv, Alive, ioVars, joinVars
<1>7. CASE CloseStop
  BY <1>7 DEF CloseStop, OwnInv, Alive, buffers, joinVars
<1>8. CASE CloseInterrupt
  BY <1>8 DEF CloseInterrupt, OwnInv, Alive, buffers, joinVars
<1>9. CASE JitterStop
  BY <1>9 DEF JitterStop, OwnInv, Alive, buffers, joinVars
<1>10. CASE JitterJoin
  <2>1. producing' = producing \/ (producing' = 0 /\ \A n \in Sessions : ~Alive(n, "producer"))
    BY <1>10 DEF JitterJoin, OwnInv, Alive
  <2> QED
    BY <1>10, <2>1 DEF JitterJoin, OwnInv, Alive, buffers
<1>11. CASE CloseEnds
  BY <1>11 DEF CloseEnds, OwnInv, Alive
<1> QED
  BY <1>1, <1>2, <1>3, <1>4, <1>5, <1>6, <1>7, <1>8, <1>9, <1>10, <1>11 DEF KiwiIO

\* What a reading thread receives, and what it then does with it.
LEMMA OwnReceive == ASSUME OwnInv, NEW n \in Sessions, NEW t \in Readers, Receive(n, t) PROVE OwnInv'
<1>1. t \in Threads /\ Alive(n, t)
  BY DEF Receive, Threads, Alive
<1>2. UNCHANGED <<kio, session, producing, sndBuf, frames, outlived>>
  BY DEF Receive, ioVars, joinVars, buffers
<1>3. pc' = pc \/ Goto(n, t, "data") \/ Goto(n, t, "reason") \/ Goto(n, t, "interrupt")
  BY DEF Receive, StreamMessage, FatalBegins
<1> QED
  BY <1>1, <1>2, <1>3, Moves DEF Steps

LEMMA OwnSamples == ASSUME OwnInv, NEW n \in Sessions, KeepSamples(n) PROVE OwnInv'
<1>1. Alive(n, "producer") /\ producing = n /\ n # 0
  BY DEF KeepSamples, OwnInv, Alive, Sessions
<1>2. sndBuf' \subseteq sndBuf \cup {n} /\ UNCHANGED <<kio, session, producing, outlived, frames>>
  BY DEF KeepSamples, ioVars, joinVars
<1>3. /\ pc' \in [Sessions -> [Threads -> Steps]]
      /\ \A m \in Sessions : /\ Alive(m, "producer")' => Alive(m, "producer")
                             /\ Alive(m, "waterfall")' => Alive(m, "waterfall")
  BY <1>1 DEF KeepSamples, OwnInv, Goto, Alive, Threads, Readers, Steps
<1>4. kio # "end" => sndBuf' \subseteq {producing} \ {0}
  BY <1>1, <1>2 DEF OwnInv
<1> QED
  BY <1>2, <1>3, <1>4 DEF OwnInv

LEMMA OwnRow == ASSUME OwnInv, NEW n \in Sessions, KeepRow(n) PROVE OwnInv'
<1>1. Alive(n, "waterfall")
  BY DEF KeepRow, Alive
<1>2. frames' = frames \cup {n} /\ UNCHANGED <<kio, session, producing, outlived, sndBuf>>
  BY DEF KeepRow, ioVars, joinVars
<1>3. /\ pc' \in [Sessions -> [Threads -> Steps]]
      /\ \A m \in Sessions : /\ Alive(m, "producer")' => Alive(m, "producer")
                             /\ Alive(m, "waterfall")' => Alive(m, "waterfall")
  BY <1>1 DEF KeepRow, OwnInv, Goto, Alive, Threads, Readers, Steps
<1> QED
  BY <1>1, <1>2, <1>3 DEF OwnInv

\* The other steps of the threads.
LEMMA OwnThreads ==
  ASSUME OwnInv, NEW n \in Sessions,
         ProducerRuns(n) \/ WaterfallRuns(n) \/ KeepaliveRuns(n), ~KeepSamples(n), ~KeepRow(n)
  PROVE  OwnInv'
<1>1. PICK t \in Threads, place \in Steps : Alive(n, t) /\ Goto(n, t, place)
  <2>1. CASE ProducerTop(n)
    BY <2>1 DEF ProducerTop, Alive, Threads, Readers, Steps
  <2>2. ASSUME NEW t \in Readers, ReceiveFails(n, t) PROVE Alive(n, t) /\ Goto(n, t, "dead")
    BY <2>2 DEF ReceiveFails, Alive
  <2>3. ASSUME NEW t \in Threads, ThreadSteps(n, t)
        PROVE  Alive(n, t) /\ \E place \in Steps : Goto(n, t, place)
    BY <2>3 DEF ThreadSteps, SetReason, FatalInterrupts, AfterFatal, Alive, Steps
  <2>4. CASE KeepaliveWait(n) \/ Keepalive(n, "snd") \/ Keepalive(n, "wf")
             \/ KeepaliveTakesWarning(n) \/ KeepaliveAcks(n)
    <3>1. "keepalive" \in Threads /\ Alive(n, "keepalive")
      BY <2>4 DEF KeepaliveWait, Keepalive, KeepaliveTakesWarning, KeepaliveAcks, Alive, Threads
    <3>2. \E place \in Steps : Goto(n, "keepalive", place)
      BY <2>4 DEF KeepaliveWait, Keepalive, KeepaliveTakesWarning, KeepaliveAcks, FatalBegins,
                  After, Steps
    <3> QED
      BY <3>1, <3>2
  <2>5. "producer" \in Readers /\ "waterfall" \in Readers /\ "keepalive" \in Threads
        /\ Readers \subseteq Threads /\ "dead" \in Steps
    BY DEF Threads, Readers, Steps
  <2> QED
    BY <2>1, <2>2, <2>3, <2>4, <2>5 DEF ProducerRuns, WaterfallRuns, KeepaliveRuns
<1>2. UNCHANGED <<kio, session, producing, sndBuf, frames, outlived>>
  BY DEF ProducerRuns, WaterfallRuns, KeepaliveRuns, ProducerTop, ReceiveFails, ThreadSteps,
         SetReason, FatalInterrupts, KeepaliveWait, Keepalive, KeepaliveTakesWarning,
         KeepaliveAcks, ioVars, joinVars, buffers
<1> QED
  BY <1>1, <1>2, Moves

LEMMA OwnStep == ASSUME OwnInv, [KiwiNext]_kiwiVars PROVE OwnInv'
<1>1. CASE Interrupt
  BY <1>1 DEF Interrupt, OwnInv, Alive, joinVars, buffers
<1>2. CASE \E s \in Sockets : Drop(s)
  BY <1>2 DEF Drop, OwnInv, Alive, ioVars, joinVars, buffers
<1>3. CASE UNCHANGED kiwiVars
  BY <1>3 DEF kiwiVars, OwnInv, Alive
<1> QED
  BY <1>1, <1>2, <1>3, OwnIO, OwnReceive, OwnSamples, OwnRow, OwnThreads DEF KiwiNext

\* For any number of sessions and of threads that outlive the joins of close, the samples of a
\* running session are its own, and a row of another session was appended by a waterfall thread
\* that close did not wait for.
THEOREM SessionsAreOwn == KiwiSpec => []OwnSessionOnly
<1>1. OwnInv /\ [KiwiNext]_kiwiVars => OwnInv'
  BY OwnStep
<1>2. OwnInv => OwnSessionOnly
  BY DEF OwnInv, OwnSessionOnly
<1> QED
  BY <1>1, <1>2, OwnInit, PTL DEF KiwiSpec

\* The types of what OwnInv does not bound.
Plain ==
  /\ kio \in {"closed", "opening", "start", "running", "interrupt", "quit", "join", "end"}
  /\ messages \in 0 .. MaxMessages /\ late \in 0 .. MaxLate
  /\ link \in [Sockets -> {"none", "up", "lost", "reset", "shut"}]
  /\ stop \in BOOLEAN /\ quit \in BOOLEAN /\ warned \in BOOLEAN
  /\ asked \in BOOLEAN /\ owed \in BOOLEAN
  /\ reason \in Reasons \cup {"none"} /\ error \in Reasons \cup {"none", "lost"}
  /\ sndBuf \subseteq Sessions /\ frames \subseteq Sessions /\ outlived \subseteq Sessions
  /\ grip \in [Sessions -> [Sockets -> 0 .. MaxSessions]]

LEMMA ShutTyped ==
  ASSUME Plain, link' = Shut(link)
  PROVE  link' \in [Sockets -> {"none", "up", "lost", "reset", "shut"}]
BY DEF Plain, Shut

LEMMA LateTyped ==
  ASSUME Plain, NEW threads, IsFiniteSet(threads), TimesOut(threads)
  PROVE  late' \in 0 .. MaxLate
<1>1. Cardinality(threads) \in Nat
  BY FS_CardinalityType
<1> QED
  BY <1>1 DEF Plain, TimesOut

LEMMA FewThreads == IsFiniteSet(Threads) /\ \A n : IsFiniteSet({n})
<1>1. \A n : IsFiniteSet({n})
  BY FS_Singleton
<1>2. IsFiniteSet({"producer"} \cup {"waterfall"})
  BY <1>1, FS_AddElement
<1>3. Threads = ({"producer"} \cup {"waterfall"}) \cup {"keepalive"}
  BY DEF Threads, Readers
<1> QED
  BY <1>1, <1>2, <1>3, FS_AddElement

LEMMA PlainIO == ASSUME OwnInv, Plain, KiwiIO PROVE Plain'
<1>1. CASE OpenSnd
  BY <1>1 DEF OpenSnd, Plain, buffers, joinVars
<1>2. CASE OpenWf
  BY <1>2 DEF OpenWf, Plain, ioVars, joinVars, notices, buffers
<1>3. CASE ConnectFails
  BY <1>3 DEF ConnectFails, Plain, joinVars, notices, buffers
<1>4. CASE Ready
  BY <1>4 DEF Ready, Plain, joinVars, notices, buffers
<1>5. CASE StartProducer
  BY <1>5 DEF StartProducer, Plain, joinVars, notices, buffers
<1>6. CASE DrainFrames
  BY <1>6 DEF DrainFrames, Plain, ioVars, joinVars, notices
<1>7. CASE CloseStop
  BY <1>7 DEF CloseStop, Plain, joinVars, notices, buffers
<1>8. CASE CloseInterrupt
  BY <1>8, ShutTyped DEF CloseInterrupt, Plain, joinVars, notices, buffers
<1>9. CASE JitterStop
  BY <1>9 DEF JitterStop, Plain, joinVars, notices, buffers
<1>10. CASE JitterJoin
  <2> DEFINE overdue == {n \in {producing} \ {0} : pc[n]["producer"] # "dead"}
  <2>1. overdue \subseteq {producing}
    OBVIOUS
  <2>2. IsFiniteSet(overdue)
    BY <2>1, FewThreads, FS_Subset
  <2>3. late' \in 0 .. MaxLate
    BY <1>10, <2>2, LateTyped DEF JitterJoin
  <2> QED
    BY <1>10, <2>3 DEF JitterJoin, Plain, notices, buffers
<1>11. CASE CloseEnds
  <2> DEFINE overdue == {t \in Threads \ {"producer"} : pc[session][t] # "dead"}
  <2>1. overdue \subseteq Threads
    OBVIOUS
  <2>2. IsFiniteSet(overdue)
    BY <2>1, FewThreads, FS_Subset
  <2>3. late' \in 0 .. MaxLate
    BY <1>11, <2>2, LateTyped DEF CloseEnds
  <2>4. session \in Sessions
    BY <1>11 DEF CloseEnds, OwnInv, Sessions
  <2> QED
    BY <1>11, <2>3, <2>4 DEF CloseEnds, Plain, notices
<1> QED
  BY <1>1, <1>2, <1>3, <1>4, <1>5, <1>6, <1>7, <1>8, <1>9, <1>10, <1>11 DEF KiwiIO

LEMMA PlainReaders ==
  ASSUME Plain, NEW n \in Sessions, NEW t \in Readers, Receive(n, t) \/ ReceiveFails(n, t)
  PROVE  Plain'
<1>1. CASE Receive(n, t) /\ UNCHANGED notices
  BY <1>1 DEF Receive, Plain, ioVars, joinVars, notices, buffers
<1>2. CASE Receive(n, t) /\ StreamMessage(n, t)
  <2>1. messages' \in 0 .. MaxMessages
    BY <1>2 DEF StreamMessage, Plain
  <2>2. warned' \in BOOLEAN /\ owed' \in BOOLEAN
    BY <1>2 DEF StreamMessage, Plain
  <2> QED
    BY <1>2, <2>1, <2>2 DEF Receive, Plain, ioVars, joinVars, buffers
<1>3. CASE ReceiveFails(n, t)
  BY <1>3 DEF ReceiveFails, Plain, ioVars, joinVars, notices, buffers
<1> QED
  BY <1>1, <1>2, <1>3 DEF Receive

LEMMA GripTyped ==
  ASSUME Plain, NEW n \in Sessions, NEW sockets, LetGo(n, sockets)
  PROVE  grip' \in [Sessions -> [Sockets -> 0 .. MaxSessions]]
BY DEF Plain, LetGo

LEMMA PlainThreads ==
  ASSUME OwnInv, Plain, NEW n \in Sessions,
         ProducerRuns(n) \/ WaterfallRuns(n) \/ KeepaliveRuns(n)
  PROVE  Plain'
<1>1. CASE ProducerTop(n)
  BY <1>1 DEF ProducerTop, Plain, ioVars, joinVars, notices, buffers
<1>2. CASE KeepSamples(n)
  BY <1>2 DEF KeepSamples, Plain, ioVars, joinVars, notices
<1>3. CASE KeepRow(n)
  BY <1>3 DEF KeepRow, Plain, ioVars, joinVars, notices
<1>4. CASE KeepaliveWait(n)
  BY <1>4 DEF KeepaliveWait, OwnInv, Plain, ioVars, joinVars, notices, buffers
<1>5. ASSUME NEW s \in Sockets, Keepalive(n, s) PROVE Plain'
  <2>1. grip' \in [Sessions -> [Sockets -> 0 .. MaxSessions]]
    BY <1>5, GripTyped DEF Keepalive, Plain
  <2>2. link' \in [Sockets -> {"none", "up", "lost", "reset", "shut"}]
    BY <1>5 DEF Keepalive, Plain
  <2> QED
    BY <1>5, <2>1, <2>2 DEF Keepalive, Plain, ioVars, joinVars, notices, buffers
<1>6. CASE KeepaliveTakesWarning(n)
  <2>1. warned' \in BOOLEAN
    BY <1>6 DEF KeepaliveTakesWarning, Plain
  <2>2. UNCHANGED <<ioVars, link, reason, buffers, error, grip, messages, owed>>
    BY <1>6 DEF KeepaliveTakesWarning
  <2> QED
    BY <2>1, <2>2 DEF Plain, ioVars, joinVars, buffers
<1>7. CASE KeepaliveAcks(n)
  BY <1>7 DEF KeepaliveAcks, Plain, ioVars, joinVars, buffers
<1>8. ASSUME NEW t \in Threads, SetReason(n, t) PROVE Plain'
  BY <1>8 DEF SetReason, ReasonOf, Reasons, Plain, ioVars, joinVars, notices, buffers
<1>9. ASSUME NEW t \in Threads, FatalInterrupts(n, t) PROVE Plain'
  BY <1>9, ShutTyped DEF FatalInterrupts, Plain, ioVars, joinVars, notices, buffers
<1>10. "producer" \in Readers /\ "waterfall" \in Readers /\ "keepalive" \in Threads
       /\ Readers \subseteq Threads /\ "snd" \in Sockets /\ "wf" \in Sockets
  BY DEF Threads, Readers, Sockets
<1> QED
  BY <1>1, <1>2, <1>3, <1>4, <1>5, <1>6, <1>7, <1>8, <1>9, <1>10, PlainReaders
     DEF ProducerRuns, WaterfallRuns, KeepaliveRuns, ThreadSteps

LEMMA PlainStep == ASSUME OwnInv, Plain, [KiwiNext]_kiwiVars PROVE Plain'
<1>1. CASE Interrupt
  BY <1>1, ShutTyped DEF Interrupt, Plain, joinVars, notices, buffers
<1>2. CASE \E s \in Sockets : Drop(s)
  BY <1>2 DEF Drop, Plain, ioVars, joinVars, notices, buffers
<1>3. CASE UNCHANGED kiwiVars
  BY <1>3 DEF kiwiVars, Plain
<1> QED
  BY <1>1, <1>2, <1>3, PlainIO, PlainReaders, PlainThreads DEF KiwiNext

\* Every variable of a KiwiSDR keeps its type; threads are at places of the code, and buffers hold
\* data of sessions that were begun.
THEOREM KiwiTypes == KiwiSpec => []KiwiTypeOK
<1>1. KiwiInit => Plain
  <2> SUFFICES ASSUME KiwiInit PROVE Plain
    OBVIOUS
  <2>1. link \in [Sockets -> {"none", "up", "lost", "reset", "shut"}]
    BY DEF KiwiInit
  <2>2. grip \in [Sessions -> [Sockets -> 0 .. MaxSessions]]
    BY DEF KiwiInit
  <2>3. 0 \in 0 .. MaxMessages /\ 0 \in 0 .. MaxLate
    OBVIOUS
  <2>4. stop \in BOOLEAN /\ quit \in BOOLEAN /\ warned \in BOOLEAN /\ asked \in BOOLEAN
        /\ owed \in BOOLEAN
    BY DEF KiwiInit
  <2> QED
    BY <2>1, <2>2, <2>3, <2>4 DEF KiwiInit, Plain
<1>2. OwnInv /\ Plain /\ [KiwiNext]_kiwiVars => OwnInv' /\ Plain'
  BY OwnStep, PlainStep
<1>3. OwnInv /\ Plain => KiwiTypeOK
  BY DEF OwnInv, Plain, KiwiTypeOK
<1> QED
  BY <1>1, <1>2, <1>3, OwnInit, PTL DEF KiwiSpec

-----------------------------------------------------------------------------
(* SpyServer.                                                              *)

USE SpyAssumption

Before == Awaiting \cup {"closed", "start"}

\* Until the producer starts there is no stream and there are no samples. A producer about to set
\* the flag has had the stream enabled in this session.
SessionInv ==
  /\ sio \in Before => ppc = "dead" /\ streaming = FALSE /\ iqBuf = {}
  /\ streaming => enabled
  /\ ppc = "mark" => enabled
  /\ iqBuf \subseteq {spySession}

LEMMA SessionInit == SpyInit => SessionInv
BY DEF SpyInit, SessionInv

\* The I/O thread.
LEMMA SessionIO == ASSUME SessionInv, SpyIO PROVE SessionInv'
<1> USE DEF SessionInv, Before, Awaiting
<1>1. CASE Connect
  BY <1>1 DEF Connect
<1>2. CASE HandshakeInfo
  BY <1>2 DEF HandshakeInfo
<1>3. CASE HandshakeSync
  BY <1>3 DEF HandshakeSync
<1>4. CASE HandshakeFails
  BY <1>4 DEF HandshakeFails
<1>5. CASE StartJitter
  BY <1>5 DEF StartJitter
<1>6. CASE ChooseRate
  BY <1>6 DEF ChooseRate
<1>7. CASE SetDecimation
  BY <1>7 DEF SetDecimation
<1>8. CASE CloseBegins
  BY <1>8 DEF CloseBegins
<1>9. CASE CloseForgets
  BY <1>9 DEF CloseForgets, Forget
<1> QED
  BY <1>1, <1>2, <1>3, <1>4, <1>5, <1>6, <1>7, <1>8, <1>9 DEF SpyIO

\* The producer, which no state before its start lets move.
LEMMA SessionProducer == ASSUME SessionInv, SpyProducer PROVE SessionInv'
<1> USE DEF SessionInv, lifecycle
<1>1. CASE NextChunk
  BY <1>1 DEF NextChunk
<1>2. CASE CheckStreaming
  BY <1>2 DEF CheckStreaming
<1>3. CASE EnableStream
  BY <1>3 DEF EnableStream
<1>4. CASE MarkStreaming
  BY <1>4 DEF MarkStreaming
<1>5. CASE ReceiveEnds
  BY <1>5 DEF ReceiveEnds
<1>6. CASE ReceiveSamples
  BY <1>6 DEF ReceiveSamples, Receiving
<1>7. CASE ReceiveSync
  BY <1>7 DEF ReceiveSync, Receiving
<1>8. CASE ReceiveInfo
  BY <1>8 DEF ReceiveInfo, Receiving
<1>9. CASE ApplyInfo
  BY <1>9 DEF ApplyInfo
<1> QED
  BY <1>1, <1>2, <1>3, <1>4, <1>5, <1>6, <1>7, <1>8, <1>9 DEF SpyProducer

LEMMA SessionStep == SessionInv /\ [SpyNext]_spyVars => SessionInv'
<1> SUFFICES ASSUME SessionInv, [SpyNext]_spyVars PROVE SessionInv'
  OBVIOUS
<1>1. CASE SpyInterrupt
  BY <1>1 DEF SpyInterrupt, SessionInv
<1>2. CASE UNCHANGED spyVars
  BY <1>2 DEF spyVars, lifecycle, SessionInv
<1> QED
  BY <1>1, <1>2, SessionIO, SessionProducer DEF SpyNext

LEMMA SessionAlways == SpySpec => []SessionInv
BY SessionInit, SessionStep, PTL DEF SpySpec

\* For any number of sessions and however they end, none begins with the stream flag or the
\* samples of another.
THEOREM SessionsAreFresh == SpySpec => []FreshSession
<1>1. SessionInv => FreshSession
  BY DEF SessionInv, FreshSession
<1> QED
  BY <1>1, SessionAlways, PTL

------------------------------------------------------------------------------
\* What the receiver says of itself, given what it says and the report of control it goes by.
Tells(sync) == capabilities = Capabilities(rates, sync, window, sync.control)

\* The rates follow a report of the device in a step of their own. The report of control that is
\* kept is the newest one of the session, or, until that arrives, one of a session that failed.
ReportInv ==
  /\ ppc # "apply" => rates = RatesOf(newInfo)
  /\ window = newWindow
  /\ lastSync.given /\ lastSync.window # 0 => window = lastSync.window
  /\ lastSync.given => canControl = lastSync.control
  /\ lastSync.given /\ ppc # "apply" => Tells(lastSync)
  /\ sio # "closed" /\ newSync.given => newSync = lastSync
  /\ newSync.given /\ ppc # "apply" => Tells(newSync)

LEMMA ReportInit == SpyInit => ReportInv
<1> SUFFICES ASSUME SpyInit PROVE ReportInv
  OBVIOUS
<1>1. RatesOf(newInfo) = {}
  BY DEF SpyInit, RatesOf
<1> QED
  BY <1>1 DEF SpyInit, ReportInv, NoSync

\* A report of who has control, applied or skipped.
LEMMA SyncKeeps ==
  ASSUME ReportInv, ppc # "apply", ppc' # "apply", NEW s, s.given = TRUE, ApplyClientSync(s),
         UNCHANGED <<rates, newInfo>>
  PROVE  ReportInv'
<1>1. newSync' = s /\ lastSync' = s /\ rates' = RatesOf(newInfo') /\ rates' = rates
  BY DEF ApplyClientSync, ReportInv
<1>2. CASE s = lastSync
  <2>1. /\ window' = window /\ canControl' = canControl /\ capabilities' = capabilities
        /\ newWindow' = IF s.window # 0 THEN s.window ELSE newWindow
    BY <1>2 DEF ApplyClientSync
  <2>2. window = newWindow /\ (s.window # 0 => window = s.window) /\ canControl = s.control
    BY <1>2 DEF ReportInv
  <2>3. Tells(s)
    BY <1>2 DEF ReportInv
  <2>4. capabilities' = Capabilities(rates', s, window', s.control)
    BY <1>1, <2>1, <2>3 DEF Tells
  <2>5. newWindow' = window'
    BY <2>1, <2>2
  <2> QED
    BY <1>1, <2>1, <2>2, <2>4, <2>5 DEF ReportInv, Tells
<1>3. CASE s # lastSync
  <2>1. /\ canControl' = s.control
        /\ window' = IF s.window # 0 THEN s.window ELSE window
        /\ newWindow' = IF s.window # 0 THEN s.window ELSE newWindow
        /\ capabilities' = Capabilities(rates, s, window', s.control)
    BY <1>3 DEF ApplyClientSync
  <2>2. newWindow' = window' /\ (s.window # 0 => window' = s.window)
    BY <2>1 DEF ReportInv
  <2>3. capabilities' = Capabilities(rates', s, window', s.control)
    BY <1>1, <2>1
  <2> QED
    BY <1>1, <2>1, <2>2, <2>3 DEF ReportInv, Tells
<1> QED
  BY <1>2, <1>3

\* The rates of a report of the device, and the capabilities that follow from them.
LEMMA InfoKeeps ==
  ASSUME ReportInv, sio # "closed", ppc' # "apply", rates' = RatesOf(newInfo'),
         capabilities' = Capabilities(rates', lastSync, window, canControl),
         UNCHANGED <<lastSync, canControl, window, newSync, newWindow>>
  PROVE  ReportInv'
<1>1. lastSync.given => Tells(lastSync)'
  BY DEF ReportInv, Tells
<1>2. newSync.given => newSync = lastSync
  BY DEF ReportInv
<1>3. newSync.given => Tells(newSync)'
  BY <1>1, <1>2
<1> QED
  BY <1>1, <1>2, <1>3 DEF ReportInv

\* A step that leaves the reports alone, and does not begin a session.
LEMMA ReportUnchanged ==
  ASSUME ReportInv, UNCHANGED report, ppc' = "apply" <=> ppc = "apply",
         sio' # "closed" => sio # "closed"
  PROVE  ReportInv'
BY DEF ReportInv, Tells, report

LEMMA ReportIO == ASSUME SessionInv, ReportInv, SpyIO PROVE ReportInv'
<1>1. CASE Connect
  <2>1. newSync'.given = FALSE
    BY <1>1 DEF Connect, NoSync
  <2> QED
    BY <1>1, <2>1 DEF Connect, ReportInv, Tells
<1>2. sio \in Awaiting => ppc = "dead" /\ sio # "closed"
  BY DEF SessionInv, Before, Awaiting
<1>3. CASE HandshakeInfo
  <2>1. PICK i \in Infos : /\ newInfo' = i /\ rates' = RatesOf(i)
                           /\ capabilities' = Capabilities(RatesOf(i), lastSync, window, canControl)
    BY <1>3 DEF HandshakeInfo, InfoFields
  <2>2. /\ ppc' # "apply" /\ sio # "closed"
        /\ UNCHANGED <<lastSync, canControl, window, newSync, newWindow>>
    BY <1>2, <1>3 DEF HandshakeInfo
  <2>3. /\ rates' = RatesOf(newInfo')
        /\ capabilities' = Capabilities(rates', lastSync, window, canControl)
    BY <2>1
  <2> QED
    BY <2>2, <2>3, InfoKeeps
<1>4. CASE HandshakeSync
  <2>1. ppc # "apply" /\ ppc' # "apply" /\ sio # "closed" /\ UNCHANGED <<rates, newInfo>>
    BY <1>2, <1>4 DEF HandshakeSync
  <2>2. CASE \E s \in Syncs : ApplyClientSync(Given(s))
    <3>1. PICK s \in Syncs : ApplyClientSync(Given(s))
      BY <2>2
    <3>2. Given(s).given = TRUE
      BY DEF Given
    <3> QED
      BY <2>1, <3>1, <3>2, SyncKeeps
  <2>3. CASE UNCHANGED <<lastSync, canControl, window, capabilities, newSync, newWindow>>
    BY <2>1, <2>3 DEF ReportInv, Tells
  <2> QED
    BY <1>4, <2>2, <2>3 DEF HandshakeSync
<1>5. CASE HandshakeFails
  BY <1>5, ReportUnchanged DEF HandshakeFails
<1>6. CASE StartJitter
  <2>1. ppc = "dead"
    BY <1>6 DEF StartJitter, SessionInv, Before
  <2> QED
    BY <1>6, <2>1, ReportUnchanged DEF StartJitter
<1>7. CASE ChooseRate
  BY <1>7, ReportUnchanged DEF ChooseRate
<1>8. CASE SetDecimation
  BY <1>8, ReportUnchanged DEF SetDecimation
<1>9. CASE CloseBegins
  BY <1>9, ReportUnchanged DEF CloseBegins
<1>10. CASE CloseForgets
  <2>1. lastSync'.given = FALSE
    BY <1>10 DEF CloseForgets, Forget, NoSync
  <2> QED
    BY <1>10, <2>1 DEF CloseForgets, Forget, ReportInv, Tells, NoSync
<1> QED
  BY <1>1, <1>3, <1>4, <1>5, <1>6, <1>7, <1>8, <1>9, <1>10 DEF SpyIO

LEMMA ReportProducer == ASSUME SessionInv, ReportInv, SpyProducer PROVE ReportInv'
<1>1. CASE NextChunk
  BY <1>1, ReportUnchanged DEF NextChunk, lifecycle
<1>2. CASE CheckStreaming
  BY <1>2, ReportUnchanged DEF CheckStreaming, lifecycle
<1>3. CASE EnableStream
  BY <1>3, ReportUnchanged DEF EnableStream, lifecycle
<1>4. CASE MarkStreaming
  BY <1>4, ReportUnchanged DEF MarkStreaming, lifecycle
<1>5. CASE ReceiveEnds
  BY <1>5, ReportUnchanged DEF ReceiveEnds, lifecycle
<1>6. CASE ReceiveSamples
  BY <1>6, ReportUnchanged DEF ReceiveSamples, Receiving, lifecycle
<1>7. CASE ReceiveSync
  <2>1. PICK s \in Syncs : ApplyClientSync(Given(s))
    BY <1>7 DEF ReceiveSync
  <2>2. Given(s).given = TRUE
    BY DEF Given
  <2>3. ppc # "apply" /\ ppc' # "apply" /\ UNCHANGED <<rates, newInfo>>
    BY <1>7 DEF ReceiveSync, Receiving
  <2> QED
    BY <2>1, <2>2, <2>3, SyncKeeps
<1>8. CASE ReceiveInfo
  BY <1>8 DEF ReceiveInfo, Receiving, ReportInv, lifecycle
<1>9. CASE ApplyInfo
  <2>1. ppc' # "apply" /\ sio # "closed"
    BY <1>9 DEF ApplyInfo, SessionInv, Before
  <2>2. /\ rates' = RatesOf(newInfo')
        /\ UNCHANGED <<lastSync, canControl, window, newSync, newWindow>>
        /\ capabilities' = Capabilities(rates', lastSync, window, canControl)
    BY <1>9 DEF ApplyInfo, InfoRates
  <2> QED
    BY <2>1, <2>2, InfoKeeps
<1> QED
  BY <1>1, <1>2, <1>3, <1>4, <1>5, <1>6, <1>7, <1>8, <1>9 DEF SpyProducer

\* For any reports of any servers, applied in any order and over any number of sessions, the
\* receiver's capabilities are those of the newest reports.
THEOREM CapabilitiesAreTrue == SpySpec => []CapabilitiesAreNewest
<1>1. SessionInv /\ ReportInv /\ [SpyNext]_spyVars => ReportInv'
  <2>1. SpyInterrupt /\ ReportInv => ReportInv'
    BY ReportUnchanged DEF SpyInterrupt
  <2>2. UNCHANGED spyVars /\ ReportInv => ReportInv'
    BY ReportUnchanged DEF spyVars, lifecycle
  <2> QED
    BY <2>1, <2>2, ReportIO, ReportProducer DEF SpyNext
<1>2. ReportInv => CapabilitiesAreNewest
  <2> SUFFICES ASSUME ReportInv, newSync.given, ppc # "apply"
               PROVE  capabilities = Capabilities(RatesOf(newInfo), newSync, newWindow,
                                                  newSync.control)
    BY DEF CapabilitiesAreNewest
  <2> QED
    BY DEF ReportInv, Tells
<1> QED
  BY <1>1, <1>2, ReportInit, SessionAlways, PTL DEF SpySpec

-----------------------------------------------------------------------------
(* The clock monitor.                                                      *)

USE ClockAssumption

\* Types.
THEOREM ClockTypes == ClockSpec => []ClockTypeOK
<1>1. ClockInit => ClockTypeOK
  BY DEF ClockInit, ClockTypeOK, Nothing
<1>2. ClockTypeOK /\ [ClockNext]_clockVars => ClockTypeOK'
  <2> SUFFICES ASSUME ClockTypeOK, [ClockNext]_clockVars PROVE ClockTypeOK'
    OBVIOUS
  <2> USE DEF ClockTypeOK
  <2>1. CASE \E h \in Hosts \cup {Off} : SetServer(h)
    BY <2>1 DEF SetServer, pollerVars
  <2>2. CASE ClearLast \/ SetWake \/ Shutdown
    BY <2>2 DEF ClearLast, SetWake, Shutdown, Nothing, pollerVars
  <2>3. CASE Top
    BY <2>3 DEF Top
  <2>4. CASE \E ok \in BOOLEAN : Probe(ok)
    BY <2>4 DEF Probe
  <2>5. CASE Wait \/ Interval \/ ClearWake
    BY <2>5 DEF Wait, Interval, ClearWake
  <2>6. CASE UNCHANGED clockVars
    BY <2>6 DEF clockVars, pollerVars
  <2> QED
    BY <2>1, <2>2, <2>3, <2>4, <2>5, <2>6 DEF ClockNext
<1> QED
  BY <1>1, <1>2, PTL DEF ClockSpec

------------------------------------------------------------------------------
\* A call is under way from its first step until the thread is woken.
Underway == main \in {"clear", "wake", "stopping"}

\* The thread may be in its probe as well: the result of a call that came since it read the server
\* must then wake it as soon as it waits. At the clear and at the top nothing is needed, since the
\* server is read afterwards.
NoticeInv ==
  poller \in {"probe", "wait"} /\ (~noticed \/ stopped) => wake \/ Underway

\* Whatever the order of calls and polls, the thread never sits out its interval over a server it
\* has not read, nor over a shutdown.
THEOREM CallsNoticed == ClockSpec => []CallIsNoticed
<1>1. ClockInit => NoticeInv
  BY DEF ClockInit, NoticeInv
<1>2. NoticeInv /\ [ClockNext]_clockVars => NoticeInv'
  <2> SUFFICES ASSUME NoticeInv, [ClockNext]_clockVars PROVE NoticeInv'
    OBVIOUS
  <2> USE DEF NoticeInv, Underway
  <2>1. CASE \E h \in Hosts \cup {Off} : SetServer(h)
    BY <2>1 DEF SetServer, pollerVars
  <2>2. CASE ClearLast \/ SetWake \/ Shutdown
    BY <2>2 DEF ClearLast, SetWake, Shutdown, pollerVars
  <2>3. CASE Top
    BY <2>3 DEF Top
  <2>4. CASE \E ok \in BOOLEAN : Probe(ok)
    BY <2>4 DEF Probe
  <2>5. CASE Wait \/ Interval \/ ClearWake
    BY <2>5 DEF Wait, Interval, ClearWake
  <2>6. CASE UNCHANGED clockVars
    BY <2>6 DEF clockVars, pollerVars
  <2> QED
    BY <2>1, <2>2, <2>3, <2>4, <2>5, <2>6 DEF ClockNext
<1>3. NoticeInv => CallIsNoticed
  BY DEF NoticeInv, CallIsNoticed, Underway
<1> QED
  BY <1>1, <1>2, <1>3, PTL DEF ClockSpec
=============================================================================
