----------------------------- MODULE TetraDecoder -----------------------------
(* The TETRA decoder from its bursts on (radio/decoders/tetra): slot lock, the *)
(* timeslot count, messages reassembled from fragments, the list of calls and  *)
(* the choice of the slot to play. A step is one burst, or the end of a call   *)
(* of demodulate. Symbols, channel codes and the fields of messages are left   *)
(* out, except whether a message keeps a call alive or ends it.                *)
EXTENDS Integers

CONSTANTS
  Timeslots,         \* slots of a frame (4)
  Sources,           \* logical channels a burst may carry: "SB2", "SCH/F", "BKN1", "BKN2"
  MaxMisses,         \* SyncDetector._max_misses (10)
  MaxFailures,       \* _MAX_SB1_FAILURES (30)
  Interval,          \* _SNAPSHOT_INTERVAL_SEC (1.0), in units of time
  FragTimeout,       \* _FRAG_TIMEOUT_SEC (2.0)
  CallTtl,           \* ACTIVE_CALL_TTL_SECONDS (10.0)
  ActiveWindow,      \* _SLOT_ACTIVE_WINDOW_SEC (2.0)
  SwitchHold,        \* _SLOT_SWITCH_HOLD_SEC (0.5)
  Events             \* what a message may do to the call, of "refresh", "end" and "other"

ASSUME TetraAssumption ==
  /\ {Timeslots, MaxMisses, MaxFailures, Interval, FragTimeout, CallTtl, ActiveWindow,
      SwitchHold} \subseteq Nat \ {0}
  /\ Sources \subseteq {"SB2", "SCH/F", "BKN1", "BKN2"}
  /\ Events \subseteq {"refresh", "end", "other"}

VARIABLES
  air, carries,          \* the carrier: the slot of its next burst, and what it carries
  sending,               \* per channel, the message under way
  talk,                  \* the slots with speech
  sync, misses, fails,   \* SyncDetector.state and _miss_count, consecutive_sb1_failures
  tn,                    \* current_tn, 0 for None: it has a value as soon as `network' has one
  pending,               \* _frag_cache and _frag_chains: a key is never in both
  active,                \* active_calls: the age of one call's last event, or Absent
  lastShown,             \* time since _last_snapshot_ts
  speech, pcm,           \* per slot, the ages of _last_speech_ts and of the oldest of _pcm_per_tn
  selected, candidate,   \* _selected_tn and _candidate_tn, 0 for None
  held,                  \* time since _candidate_since
  mixed                  \* history: a message was made of others' pieces

carrier == <<air, carries, sending, talk>>
lock == <<sync, misses, fails, tn>>
mac == <<pending, active, mixed>>
voice == <<speech, pcm, selected, candidate, held>>
tetraVars == <<carrier, lock, mac, lastShown, voice>>

Tns == 1 .. Timeslots
Channels == Tns \X Sources
Absent == -1
Nothing == [of |-> <<0, "none">>, event |-> "other", age |-> 0]
Several == <<0, "several">>     \* in place of a channel: not of one message still being sent
Later(age, limit) == IF age = Absent \/ age > limit THEN age ELSE age + 1

Silence == [open |-> FALSE, renews |-> FALSE, heard |-> FALSE]

NoVoice ==
  /\ speech = [s \in Tns |-> ActiveWindow + 1] /\ pcm = [s \in Tns |-> Absent]
  /\ selected = 0 /\ candidate = 0 /\ held = 0

TetraInit ==
  /\ air \in Tns /\ carries \in {"signalling", "speech"} /\ talk = {}
  /\ sending = [c \in Channels |-> Silence]
  /\ sync = "unlocked" /\ misses = 0 /\ fails = 0 /\ tn = 0
  /\ pending = [k \in Channels |-> Nothing] /\ active = Absent /\ lastShown = 0
  /\ NoVoice /\ mixed = FALSE

-------------------------------------------------------------------------------
(* Messages and calls. A burst carries one block: the two halves of a normal_2 *)
(* burst are of channels of their own.                                         *)

\* record_cmce
CallAfter(old, event) ==
  CASE event = "refresh" -> 0 [] event = "end" -> Absent [] OTHER -> old

\* What is pending of a channel is of no message any more once another one has begun there.
Outdated(channel) ==
  [k \in Channels |-> [pending[k] EXCEPT !.of = IF @ = channel THEN Several ELSE @]]

\* (mutant) A resource does not take the place of what is pending.
ResourceKeeps(key, channel, event) ==
  /\ pending' = [Outdated(channel) EXCEPT
       ![key] = IF @ # Nothing THEN @ ELSE [of |-> channel, event |-> event, age |-> 0]]
  /\ active' = CallAfter(active, event)
  /\ UNCHANGED mixed

\* _process_mac_pdu: a resource acts at once, takes the place of what is pending on its channel
\* and waits for fragments in case it has some.
Resource(key, channel, event) ==
  /\ pending' = [Outdated(channel) EXCEPT ![key] = [of |-> channel, event |-> event, age |-> 0]]
  /\ active' = CallAfter(active, event)
  /\ UNCHANGED mixed

\* _fragment_continue, _seed_chain: a fragment joins what is pending, or is an orphan.
Fragment(key, channel) ==
  /\ pending' = IF pending[key] = Nothing THEN pending
                ELSE [pending EXCEPT ![key].of = IF @ = channel THEN @ ELSE Several,
                                     ![key].age = 0]
  /\ UNCHANGED <<active, mixed>>

\* _fragment_end, _finalize_fragment_chain: the whole message acts, its resource once more.
End(key, channel) ==
  /\ pending' = [pending EXCEPT ![key] = Nothing]
  /\ active' = CallAfter(active, pending[key].event)
  /\ mixed' = (mixed \/ (sending[channel].heard /\ pending[key].of \notin {channel, Nothing.of}))

\* What may be sent next on a channel: a message begins at any time, goes on and ends.
Pdus(channel) ==
  [kind : {"resource"}, event : Events]
    \cup [kind : IF sending[channel].open THEN {"fragment", "end"} ELSE {}, event : {"other"}]

Sent(channel, pdu, heard) ==
  CASE pdu.kind = "resource" -> [open |-> TRUE, renews |-> pdu.event = "refresh", heard |-> heard]
    [] pdu.kind = "end" -> Silence
    [] OTHER -> sending[channel]

\* A block is sent. It passes its checksum, in the slot that is counted, or is not heard.
Heard(channel, key, pdu) ==
  /\ sending' = [sending EXCEPT ![channel] = Sent(channel, pdu, key[1] = air)]
  /\ \/ pdu.kind = "resource" /\ Resource(key, channel, pdu.event)
     \/ pdu.kind = "fragment" /\ Fragment(key, channel)
     \/ pdu.kind = "end" /\ End(key, channel)

Unheard(channel, pdu) ==
  /\ sending' = [sending EXCEPT ![channel] = Sent(channel, pdu, FALSE)]
  /\ pending' = IF pdu.kind = "resource" THEN Outdated(channel) ELSE pending
  /\ UNCHANGED <<active, mixed>>

\* A burst brings a block of one of these channels, or nothing of interest. Blocks are heard when
\* the slot is counted.
Signal(sources, at) ==
  \/ UNCHANGED <<sending, mac>>
  \/ /\ carries = "signalling"
     /\ \E s \in sources \cap Sources : \E pdu \in Pdus(<<air, s>>) :
          \/ Unheard(<<air, s>>, pdu)
          \/ at # 0 /\ Heard(<<air, s>>, <<at, s>>, pdu)

\* As Signal, of a burst that cannot be read.
Unreadable ==
  \/ UNCHANGED <<sending, mac>>
  \/ /\ carries = "signalling"
     /\ \E s \in Sources : \E pdu \in Pdus(<<air, s>>) : Unheard(<<air, s>>, pdu)

-------------------------------------------------------------------------------
(* Bursts                                                                     *)

Following(s) == IF s = 0 THEN 0 ELSE (s % Timeslots) + 1

\* No message of before a loss of the lock counts as heard: the slots may be counted wrongly after.
Forgotten == [c \in Channels |-> [sending[c] EXCEPT !.heard = FALSE]]

\* The burst is over: advance_tdma, after what was done with it in the slot `at'.
Over(at) == air' = Following(air) /\ tn' = Following(at) /\ UNCHANGED <<carries, talk, lastShown>>

\* Without the lock bursts pass, until the training sequence of a sync burst is found.
Pass ==
  /\ sync = "unlocked"
  /\ air' = Following(air)
  /\ Unreadable
  /\ UNCHANGED <<carries, talk, lock, lastShown, voice>>

Acquire ==
  /\ sync = "unlocked" /\ sync' = "locked" /\ misses' = 0
  /\ UNCHANGED <<carrier, fails, tn, mac, lastShown, voice>>

\* A burst that correlates with nothing; too many in a row end the lock, but not the anchor.
Uncorrelated ==
  /\ sync # "unlocked"
  /\ misses' = IF sync = "locked" THEN (misses + 1) % MaxMisses ELSE misses
  /\ sync' = IF sync = "locked" /\ misses + 1 = MaxMisses THEN "unlocked" ELSE sync
  /\ IF sync' = "unlocked" THEN sending' = Forgotten /\ UNCHANGED mac ELSE Unreadable
  /\ Over(tn)
  /\ UNCHANGED <<fails, voice>>

\* A burst taken for a sync burst whose SB1 fails; too many in a row reset the decoder, while the
\* bursts already taken out of the samples are still to come.
SyncFails ==
  /\ sync # "unlocked" /\ misses' = 0
  /\ IF fails + 1 < MaxFailures
     THEN /\ fails' = fails + 1 /\ Unreadable
          /\ UNCHANGED <<sync, voice>> /\ Over(tn)
     ELSE /\ fails' = 0 /\ sync' = "draining"
          /\ sending' = Forgotten
          /\ pending' = [k \in Channels |-> Nothing] /\ active' = Absent /\ UNCHANGED mixed
          /\ speech' = [s \in Tns |-> ActiveWindow + 1] /\ pcm' = [s \in Tns |-> Absent]
          /\ selected' = 0 /\ candidate' = 0 /\ held' = 0
          /\ air' = Following(air) /\ tn' = 0 /\ lastShown' = Interval
          /\ UNCHANGED <<carries, talk>>

\* A sync burst: record_sb1 and anchor_tdma, then its second block.
SyncFound ==
  /\ sync # "unlocked" /\ misses' = 0
  /\ fails' = 0
  /\ Signal({"SB2"}, air)
  /\ Over(air)
  /\ UNCHANGED <<sync, voice>>

\* A normal burst is ignored until a network is known.
Normal ==
  /\ sync # "unlocked" /\ misses' = 0
  /\ Signal(Sources \ {"SB2"}, tn)
  /\ Over(tn)
  /\ UNCHANGED <<sync, fails, voice>>

\* _process_traffic_burst: two frames of speech go to the slot counted.
Traffic ==
  /\ sync # "unlocked" /\ misses' = 0
  /\ carries = "speech" /\ air \in talk
  /\ IF tn # 0
     THEN /\ speech' = [speech EXCEPT ![tn] = 0]
          /\ pcm' = [pcm EXCEPT ![tn] = IF @ = Absent THEN 0 ELSE @]
     ELSE UNCHANGED <<speech, pcm>>
  /\ Over(tn)
  /\ UNCHANGED <<sending, sync, fails, mac, selected, candidate, held>>

-------------------------------------------------------------------------------
(* The end of demodulate, and time                                            *)

Fresh == {s \in Tns : speech[s] <= ActiveWindow}

\* max by the time of the last speech, the first slot of those that are equal
Newest ==
  CHOOSE s \in Fresh : \A t \in Fresh : speech[s] < speech[t] \/ (speech[s] = speech[t] /\ s <= t)

\* _select_active_tn: the newest speech wins, a slot that still has some after a while only.
Select ==
  \/ /\ Fresh = {} /\ selected' = 0 /\ candidate' = 0
  \/ /\ Fresh # {} /\ (selected \notin Fresh \/ Newest = selected)
     /\ selected' = Newest /\ candidate' = 0
  \/ /\ Fresh # {} /\ selected \in Fresh /\ Newest # selected
     /\ IF candidate = Newest /\ held >= SwitchHold
        THEN selected' = Newest /\ candidate' = 0
        ELSE selected' = selected /\ candidate' = Newest

\* _flush_selected_audio: what the selected slot has is played, and what slots without speech
\* kept is dropped.
Backlog ==
  [s \in Tns |-> IF s = selected' \/ s \notin Fresh THEN Absent ELSE pcm[s]]

\* (mutant) A call goes on until its end is received.
CallKept == active
\* expire_stale_calls
CallShown == IF active > CallTtl THEN Absent ELSE active
\* _expire_fragments
Unexpired == [k \in Channels |-> IF pending[k].age > FragTimeout THEN Nothing ELSE pending[k]]

\* demodulate ends with the audio and, when it is due or something has changed, a snapshot. Some
\* of the time of the samples may have passed when it is called again.
EndOfBatch(dt) ==
  /\ Select
  /\ held' = IF candidate' = 0 THEN 0
             ELSE IF dt = 0 THEN (IF candidate' = candidate THEN held ELSE 0)
             ELSE IF candidate' = candidate THEN Later(held, SwitchHold - 1) ELSE 1
  /\ sync' = IF sync = "draining" THEN "unlocked" ELSE sync
  /\ sending' = IF sync = "draining" THEN Forgotten ELSE sending
  /\ \E shown \in BOOLEAN :
       LET due == lastShown >= Interval
           c == IF shown THEN CallShown ELSE active
           p == IF shown THEN Unexpired ELSE pending
       IN /\ due => shown
          /\ lastShown' = IF dt = 0 THEN (IF shown THEN 0 ELSE lastShown)
                          ELSE (IF shown THEN 1 ELSE lastShown + 1)
          /\ active' = IF dt = 0 THEN c ELSE Later(c, CallTtl)
          /\ pending' = [k \in Channels |->
               IF dt = 0 \/ p[k] = Nothing THEN p[k]
               ELSE [p[k] EXCEPT !.age = Later(@, FragTimeout)]]
  /\ speech' = [s \in Tns |-> IF dt = 0 THEN speech[s] ELSE Later(speech[s], ActiveWindow)]
  /\ pcm' = [s \in Tns |-> IF dt = 0 THEN Backlog[s] ELSE Later(Backlog[s], ActiveWindow)]
  /\ UNCHANGED <<air, carries, talk, misses, fails, tn, mixed>>

\* Somebody begins to talk in a slot, or stops.
Talk ==
  /\ carries = "speech" /\ talk' \in SUBSET Tns
  /\ UNCHANGED <<air, carries, sending, lock, mac, lastShown, voice>>

AnyBurst == Pass \/ Uncorrelated \/ SyncFails \/ SyncFound \/ Normal \/ Traffic

TetraNext == AnyBurst \/ Acquire \/ EndOfBatch(0) \/ EndOfBatch(1) \/ Talk

\* demodulate is called again and again, and time passes.
TetraSpec == TetraInit /\ [][TetraNext]_tetraVars /\ WF_tetraVars(EndOfBatch(1))

-------------------------------------------------------------------------------
(* Properties                                                                 *)

TetraTypeOK ==
  /\ air \in Tns /\ carries \in {"signalling", "speech"} /\ talk \subseteq Tns
  /\ sending \in [Channels -> [open : BOOLEAN, renews : BOOLEAN, heard : BOOLEAN]]
  /\ sync \in {"unlocked", "locked", "draining"}
  /\ misses \in 0 .. MaxMisses - 1 /\ fails \in 0 .. MaxFailures - 1
  /\ tn \in 0 .. Timeslots
  /\ pending \in [Channels -> [of : Channels \cup {Several, Nothing.of}, event : Events \cup {"other"},
                               age : 0 .. FragTimeout + 1]]
  /\ active \in -1 .. CallTtl + 1 /\ lastShown \in 0 .. Interval
  /\ {speech[s] : s \in Tns} \subseteq 0 .. ActiveWindow + 1
  /\ {pcm[s] : s \in Tns} \subseteq -1 .. ActiveWindow + 1
  /\ {selected, candidate} \subseteq 0 .. Timeslots /\ held \in 0 .. SwitchHold
  /\ mixed \in BOOLEAN

\* A message whose resource was received since the lock was found is put together from pieces of
\* its own only: whatever else was lost, what an unfinished message before it, another slot or a
\* reset left behind does not get into it.
MessageIsItsOwn == ~mixed

\* What nobody renews fades. A call of which nothing more is sent, whose end was lost or came before
\* an orphaned fragment repeated its setup, is off the list in the end; and the audio kept for a
\* slot is played or dropped once the other slots are silent.
LeftoversFade ==
  /\ <>[](\A c \in Channels : ~sending[c].renews) => <>[](active = Absent)
  /\ \A s \in Tns :
       <>[](talk \subseteq {s} /\ sync = "locked") => \A t \in Tns : []<>(pcm[t] = Absent)

===============================================================================
