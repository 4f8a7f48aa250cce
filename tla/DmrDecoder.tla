------------------------------ MODULE DmrDecoder ------------------------------
(* The DMR decoder from its bursts on (radio/decoders/dmr/decoder.py): frame  *)
(* lock, voice continuation and the calls of the two timeslots. A step is one *)
(* burst of the base station, which alternates between the slots. Symbols,    *)
(* codes, the vocoder and the choice of the slot to play are left out.        *)
EXTENDS Integers

CONSTANTS
  MaxContinuation,       \* _MAX_CONTINUATION_BURSTS (5)
  Confidence,            \* _VOICE_CONFIDENCE_BURSTS (3)
  VoiceTimeout           \* _VOICE_TIMEOUT_SEC, in bursts (16)

\* A call's next burst comes two bursts after the last one.
ASSUME DmrAssumption ==
  /\ {MaxContinuation, Confidence, VoiceTimeout} \subseteq Nat \ {0} /\ VoiceTimeout > 2

VARIABLES
  turn, phase,           \* the transmitter: the slot of the next burst, and what each slot sends
  locked, lastSlot,      \* _state (a burst is collected within its step) and _last_slot
  continuation,          \* _continuation_count
  call,                  \* _ts_state: per slot
  clean                  \* history: the last burst was received well

dmrVars == <<turn, phase, locked, lastSlot, continuation, call, clean>>

Slots == {0, 1}
Frames == {"A", "B", "C", "D", "E", "F"}     \* a superframe; A carries the sync pattern
NoCall == [on |-> FALSE, confirmed |-> FALSE, bursts |-> 0, quiet |-> VoiceTimeout]

DmrInit ==
  /\ turn \in Slots /\ phase = [s \in Slots |-> "idle"]
  /\ locked = FALSE /\ lastSlot = -1 /\ continuation = 0
  /\ call = [s \in Slots |-> NoCall] /\ clean = TRUE

\* What a slot may send after p.
After(p) ==
  CASE p = "idle" -> {"idle", "header"} [] p = "header" -> {"A"} [] p = "end" -> {"idle"}
    [] p = "A" -> {"B"} [] p = "B" -> {"C"} [] p = "C" -> {"D"} [] p = "D" -> {"E"}
    [] p = "E" -> {"F"} [] p = "F" -> {"A", "end"}

------------------------------------------------------------------------------
(* The calls                                                                 *)

\* Bursts since the last voice of each slot, by the time of the samples.
Aged == [s \in Slots |-> [call[s] EXCEPT !.quiet = IF @ < VoiceTimeout THEN @ + 1 ELSE @]]

\* _process_voice_burst
VoiceBurst(s) ==
  LET n == IF call[s].on /\ call[s].bursts < Confidence THEN call[s].bursts + 1
           ELSE IF call[s].on THEN Confidence ELSE 1
  IN call' = [Aged EXCEPT ![s] = [on |-> TRUE, bursts |-> n, quiet |-> 0,
                                  confirmed |-> call[s].confirmed \/ n >= Confidence]]

\* _process_data_burst: a header confirms the call, a terminator ends it.
DataBurst(s, kind) ==
  call' = [Aged EXCEPT ![s] =
             CASE kind = "header" -> [on |-> TRUE, confirmed |-> TRUE, bursts |-> 0, quiet |-> 0]
               [] kind = "end" /\ @.on -> [@ EXCEPT !.on = FALSE, !.confirmed = FALSE]
               [] OTHER -> @]

\* _drop_lock, which keeps the count of continuation bursts
DropLock ==
  /\ locked' = FALSE
  /\ call' = [s \in Slots |-> [Aged[s] EXCEPT !.on = FALSE, !.confirmed = FALSE, !.bursts = 0]]

\* _process_burst: a burst whose CACH or slot type cannot be decoded ends the lock.
Process(q, isVoice, kind) ==
  LET s == IF q = "turned" THEN 1 - turn ELSE turn IN
  IF q = "cach" THEN DropLock /\ UNCHANGED lastSlot
  ELSE /\ lastSlot' = s
       /\ CASE isVoice -> VoiceBurst(s) /\ locked' = TRUE
            [] ~isVoice /\ q = "slot" -> DropLock
            [] OTHER -> DataBurst(s, kind) /\ locked' = TRUE

------------------------------------------------------------------------------
(* The lock                                                                  *)

Known(s) == call[s].on /\ call[s].quiet < VoiceTimeout

\* _voice_continuation_expected
ContinuationExpected ==
  /\ lastSlot # -1 /\ continuation < MaxContinuation
  /\ Known(1 - lastSlot)

\* What may befall a burst: nothing, no sync pattern found, no CACH, the CACH of the other slot, no
\* slot type.
Qualities == {"good", "sync", "cach", "turned", "slot"}
HasSync(q) == phase[turn] \notin Frames \ {"A"} /\ q # "sync"
NotVoiceKind == IF phase[turn] \in Frames THEN "none" ELSE phase[turn]

\* _do_sync_search
Search(q) ==
  /\ ~locked /\ UNCHANGED continuation
  /\ IF HasSync(q) THEN Process(q, phase[turn] = "A", NotVoiceKind)
     ELSE call' = Aged /\ UNCHANGED <<locked, lastSlot>>

\* (mutant) The count of continuation bursts is not reset by a sync pattern.
LockedNoReset(q) ==
  /\ locked
  /\ CASE HasSync(q) -> Process(q, phase[turn] = "A", NotVoiceKind) /\ UNCHANGED continuation
       [] ~HasSync(q) /\ ContinuationExpected ->
            continuation' = continuation + 1 /\ Process(q, TRUE, "none")
       [] OTHER -> DropLock /\ UNCHANGED <<continuation, lastSlot>>

\* _do_locked: without a sync pattern a burst of a known call is taken for voice, up to a count.
Locked(q) ==
  /\ locked
  /\ CASE HasSync(q) -> continuation' = 0 /\ Process(q, phase[turn] = "A", NotVoiceKind)
       [] ~HasSync(q) /\ ContinuationExpected ->
            continuation' = continuation + 1 /\ Process(q, TRUE, "none")
       [] OTHER -> DropLock /\ UNCHANGED <<continuation, lastSlot>>

Burst ==
  \E q \in Qualities :
    /\ Search(q) \/ Locked(q)
    /\ clean' = (q = "good") /\ turn' = 1 - turn
    /\ \E p \in After(phase[turn]) : phase' = [phase EXCEPT ![turn] = p]

DmrNext == Burst

------------------------------------------------------------------------------
(* Properties                                                                *)

DmrTypeOK ==
  /\ turn \in Slots /\ phase \in [Slots -> Frames \cup {"idle", "header", "end"}]
  /\ locked \in BOOLEAN /\ lastSlot \in -1 .. 1 /\ continuation \in 0 .. MaxContinuation
  /\ call \in [Slots -> [on : BOOLEAN, confirmed : BOOLEAN, bursts : 0 .. Confidence,
                         quiet : 0 .. VoiceTimeout]]

Talking(s) == phase[s] \in Frames

\* A call that goes on while bursts come through and the other slot is silent is heard in the end
\* and from then on, in whatever state earlier calls, lost bursts and missed terminators left the
\* lock, its count and the two slots, and though its header was missed.
CallIsHeard ==
  \A s \in Slots :
    <>[](clean /\ Talking(s) /\ ~Talking(1 - s)) => <>[](locked /\ call[s].confirmed)

==============================================================================
