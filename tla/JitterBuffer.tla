---------------------------- MODULE JitterBuffer -----------------------------
(***************************************************************************)
(* The jitter buffer between a network SDR's socket and the I/O worker     *)
(* (devices/_jitter_buffer.py).  A producer thread per session fills the   *)
(* ring; one reader takes bytes out; another thread starts, stops and      *)
(* resizes.  Everything under self._cond is one step, and a cond.wait() is *)
(* a sleep that the next notify_all ends.  The wall-clock pacing of read,  *)
(* before it takes the lock, only delays a read and is left out.           *)
(*                                                                         *)
(* A byte is 2s + v for the session s whose producer delivered it and a    *)
(* value v: two values are enough to see bytes reordered, the session to   *)
(* see them outlive it.  Prefill is counted in half seconds so that the integer     *)
(* capacities, of twice the prefill, may be odd as in the code.            *)
(***************************************************************************)
EXTENDS ByteRing, FiniteSets

CONSTANTS
  Rates,            \* sample rates in bytes a second, 0 included where it may be unknown
  Prefills,         \* prefill times in half seconds
  Counts,           \* byte counts asked of read
  Values,           \* the values bytes take, {0, 1} or a subset
  MaxChunk,         \* bound: the longest chunk a producer returns
  MaxSessions,      \* bound: how often the buffer is started
  JoinMayTimeOut    \* whether stop may give up on a producer that is stuck

ASSUME ParametersAssumption ==
  /\ Rates \subseteq Nat /\ Rates # {}
  /\ Prefills \subseteq Nat \ {0} /\ Prefills # {}
  /\ Counts \subseteq Nat \ {0}
  /\ Values \subseteq {0, 1} /\ Values # {}
  /\ MaxChunk \in Nat /\ MaxSessions \in Nat
  /\ JoinMayTimeOut \in BOOLEAN

Sessions == 1 .. MaxSessions
BytesOf(s) == {2 * s + v : v \in Values}
Bytes == {0} \cup UNION {BytesOf(s) : s \in Sessions}
ChunksOf(s) == UNION {[1 .. n -> BytesOf(s)] : n \in 1 .. MaxChunk}

VARIABLES
  ring,        \* self._ring
  prime,       \* self._prime_target
  underflow,   \* self._underflow_target
  config,      \* [rate, prefill]: self._sample_rate, self._prefill_seconds
  filling,     \* self._filling
  error,       \* self._error: "none", "io" or "eof"
  stop,        \* self._stop
  thread,      \* self._thread: the session it produces for, 0 when None
  session,     \* the last session started
  producer,    \* per session, where its thread is
  chunk,       \* per session, the bytes its producer returned and did not store yet
  reader,      \* where the reading thread is
  count,       \* the byte count it asked for
  result,      \* how its last read ended
  control      \* where the thread that starts and stops the buffer is

buffer == <<ring, prime, underflow, config, filling, error, stop>>
producers == <<thread, session, producer, chunk>>
reading == <<reader, count, result>>
vars == <<buffer, producers, reading, control>>

Capacity(h, rate) == h * rate
PrimeOf(h, rate) ==
  IF Capacity(h, rate) = 0 THEN 0
  ELSE IF (h * rate) \div 2 = 0 THEN 1 ELSE (h * rate) \div 2
UnderflowOf(h, rate) ==
  LET p == PrimeOf(h, rate)
  IN IF p = 0 THEN 0 ELSE IF p \div 2 = 0 THEN 1 ELSE p \div 2

Init ==
  /\ config \in [rate : Rates, prefill : Prefills]
  /\ ring = NewRing(Capacity(config.prefill, config.rate))
  /\ prime = PrimeOf(config.prefill, config.rate)
  /\ underflow = UnderflowOf(config.prefill, config.rate)
  /\ filling = TRUE /\ error = "none" /\ stop = FALSE
  /\ thread = 0 /\ session = 0
  /\ producer = [s \in Sessions |-> "none"]
  /\ chunk = [s \in Sessions |-> <<>>]
  /\ reader = "idle" /\ count = 0 /\ result = [kind |-> "none", data |-> <<>>]
  /\ control = "idle"

-----------------------------------------------------------------------------
(* self._cond.notify_all(): every sleeper looks again.                     *)

WakeReader == reader' = IF reader = "asleep" THEN "woken" ELSE reader
Woken(phases) == [s \in Sessions |-> IF phases[s] = "asleep" THEN "top" ELSE phases[s]]

-----------------------------------------------------------------------------
(* start, stop and the setters.                                            *)

\* start(): refused while a thread is kept; else a clean buffer and a new producer.
Start ==
  /\ control = "idle" /\ session < MaxSessions
  /\ thread = 0
  /\ stop' = FALSE /\ error' = "none" /\ filling' = TRUE
  /\ ring' = ResetRing(ring)
  /\ session' = session + 1 /\ thread' = session + 1
  /\ producer' = [producer EXCEPT ![session + 1] = "top"]
  /\ UNCHANGED <<prime, underflow, config, chunk, reading, control>>

\* Mutant: stop sets the flag and wakes nobody.
StopRequestSilent ==
  /\ control = "idle"
  /\ stop' = TRUE
  /\ control' = IF thread = 0 THEN "idle" ELSE "joining"
  /\ UNCHANGED <<ring, prime, underflow, config, filling, error, producers, reading>>

\* stop(): the flag and the wake-up; without a thread there is nothing to join.
StopRequest ==
  /\ control = "idle"
  /\ stop' = TRUE
  /\ producer' = Woken(producer) /\ WakeReader
  /\ control' = IF thread = 0 THEN "idle" ELSE "joining"
  /\ UNCHANGED <<ring, prime, underflow, config, filling, error, thread, session, chunk,
                 count, result>>

\* stop(): the join saw the producer end, or gave up and keeps the zombie.
StopJoin ==
  /\ control = "joining"
  /\ \/ producer[thread] = "dead" /\ thread' = 0
     \/ producer[thread] # "dead" /\ JoinMayTimeOut /\ UNCHANGED thread
  /\ control' = "idle"
  /\ UNCHANGED <<buffer, session, producer, chunk, reading>>

\* The ring after a resize: reallocated with its newest bytes if the capacity changed.
Resized(r, capacity) ==
  LET keep == IF r.size <= capacity THEN r.size ELSE capacity
  IN IF capacity = r.cap THEN r ELSE WriteRing(NewRing(capacity), PeekTail(r, keep))

\* set_prefill_seconds and set_sample_rate, from whichever thread: _reconfigure_locked.
Reconfigure(h, rate) ==
  /\ h = config.prefill \/ rate = config.rate
  /\ config' = [rate |-> rate, prefill |-> h]
  /\ prime' = PrimeOf(h, rate) /\ underflow' = UnderflowOf(h, rate)
  /\ ring' = Resized(ring, Capacity(h, rate))
  /\ filling' = (filling \/ ring'.size < underflow')
  /\ producer' = Woken(producer) /\ WakeReader
  /\ UNCHANGED <<error, stop, thread, session, chunk, count, result, control>>

-----------------------------------------------------------------------------
(* The producer thread.                                                    *)

\* The top of the loop: idle without capacity, leave when stopped, else produce.
ProducerTop(s) ==
  /\ producer[s] = "top"
  /\ producer' = [producer EXCEPT ![s] =
                    IF stop THEN "dead" ELSE IF ring.cap = 0 THEN "asleep" ELSE "calling"]
  /\ UNCHANGED <<buffer, thread, session, chunk, reading, control>>

\* The producer call ends, with the lock free: bytes, no bytes, or an exception.
ProducerReturns(s) ==
  /\ producer[s] = "calling"
  /\ \/ /\ \E bytes \in ChunksOf(s) : chunk' = [chunk EXCEPT ![s] = bytes]
        /\ producer' = [producer EXCEPT ![s] = "got"]
     \/ /\ \E outcome \in {"eof", "io"} : producer' = [producer EXCEPT ![s] = outcome]
        /\ UNCHANGED chunk
  /\ UNCHANGED <<buffer, thread, session, reading, control>>

\* Mutant: the error is recorded without waking the reader.
ProducerFailsSilent(s) ==
  /\ producer[s] \in {"eof", "io"}
  /\ error' = producer[s]
  /\ producer' = [producer EXCEPT ![s] = "dead"]
  /\ UNCHANGED <<ring, prime, underflow, config, filling, stop, thread, session, chunk,
                 reading, control>>

\* It failed or returned nothing: the error is left for the reader.
ProducerFails(s) ==
  /\ producer[s] \in {"eof", "io"}
  /\ error' = producer[s]
  /\ producer' = Woken([producer EXCEPT ![s] = "dead"]) /\ WakeReader
  /\ UNCHANGED <<ring, prime, underflow, config, filling, stop, thread, session, chunk,
                 count, result, control>>

\* The bytes go into the ring, unless a stop came meanwhile.
StoreChunk(s) ==
  /\ producer[s] = "got"
  /\ IF stop
     THEN /\ producer' = [producer EXCEPT ![s] = "dead"]
          /\ UNCHANGED <<ring, reader>>
     ELSE /\ ring' = WriteRing(ring, chunk[s])
          /\ producer' = Woken([producer EXCEPT ![s] = "top"]) /\ WakeReader
  /\ chunk' = [chunk EXCEPT ![s] = <<>>]
  /\ UNCHANGED <<prime, underflow, config, filling, error, stop, thread, session,
                 count, result, control>>

-----------------------------------------------------------------------------
(* read.                                                                   *)

\* A read of n bytes is called and waits for its turn and the lock.
ReadCall(n) ==
  /\ reader = "idle"
  /\ reader' = "entering" /\ count' = n
  /\ UNCHANGED <<buffer, producers, result, control>>

Return(kind, data) == reader' = "idle" /\ result' = [kind |-> kind, data |-> data]

\* The capacity is looked at once, before the first wait.
TooLarge == reader = "entering" /\ count > ring.cap
Refused == TooLarge \/ error # "none" \/ stop

ReadRaises ==
  /\ reader \in {"entering", "woken"} /\ Refused
  /\ Return(IF TooLarge THEN "too large" ELSE IF error # "none" THEN error ELSE "closed", <<>>)
  /\ UNCHANGED <<buffer, producers, count, control>>

\* Still filling after the ring reached the watermark?
StillFilling == filling /\ ring.size < prime

ReadWaits ==
  /\ reader \in {"entering", "woken"} /\ ~Refused
  /\ StillFilling \/ ring.size < count
  /\ filling' = StillFilling
  /\ reader' = "asleep"
  /\ UNCHANGED <<ring, prime, underflow, config, error, stop, producers, count, result, control>>

ReadServes ==
  /\ reader \in {"entering", "woken"} /\ ~Refused
  /\ ~StillFilling /\ ring.size >= count
  /\ ring' = PopRing(ring, count)
  /\ filling' = (ring'.size < underflow)
  /\ Return("data", Popped(ring, count))
  /\ UNCHANGED <<prime, underflow, config, error, stop, producers, count, control>>

-----------------------------------------------------------------------------
ProducerNext(s) ==
  ProducerTop(s) \/ ProducerReturns(s) \/ ProducerFails(s) \/ StoreChunk(s)
ReaderNext == (\E n \in Counts : ReadCall(n)) \/ ReadRaises \/ ReadWaits \/ ReadServes
ControlNext == Start \/ StopRequest \/ StopJoin
ReconfigureNext == \E h \in Prefills, rate \in Rates : Reconfigure(h, rate)

Next == (\E s \in Sessions : ProducerNext(s)) \/ ReaderNext \/ ControlNext \/ ReconfigureNext

Spec == Init /\ [][Next]_vars

\* Threads run when they can, and a producer call ends: with bytes, or by an error once
\* the socket is shut down.  Nothing obliges anybody to call start, stop, read or a setter.
Fairness ==
  /\ \A s \in Sessions : WF_vars(ProducerNext(s))
  /\ WF_vars(ReadRaises \/ ReadWaits \/ ReadServes)
  /\ WF_vars(StopJoin)

FairSpec == Spec /\ Fairness

-----------------------------------------------------------------------------
Phases == {"none", "top", "asleep", "calling", "got", "eof", "io", "dead"}

\* Every variable has its type: the ring is well formed and the targets belong to the
\* configured rate and prefill (JitterBuffer.__init__, _reconfigure_locked).
TypeOK ==
  /\ config \in [rate : Rates, prefill : Prefills]
  /\ RingOK(ring, Bytes) /\ ring.cap = Capacity(config.prefill, config.rate)
  /\ prime = PrimeOf(config.prefill, config.rate)
  /\ underflow = UnderflowOf(config.prefill, config.rate)
  /\ filling \in BOOLEAN /\ stop \in BOOLEAN /\ error \in {"none", "io", "eof"}
  /\ session \in 0 .. MaxSessions /\ thread \in 0 .. session
  /\ producer \in [Sessions -> Phases]
  /\ \A s \in Sessions : chunk[s] \in {<<>>} \cup ChunksOf(s)
  /\ reader \in {"idle", "entering", "asleep", "woken"} /\ count \in {0} \cup Counts
  /\ result.kind \in {"none", "data", "too large", "closed", "io", "eof"}
  /\ control \in {"idle", "joining"}

\* A sleeping reader has nothing to do: no error, no stop, and not the bytes it waits
\* for.  No notify_all is missing, in whatever order threads take the lock.
NoLostWakeup ==
  /\ reader = "asleep" => /\ error = "none" /\ ~stop
                          /\ StillFilling \/ ring.size < count
  /\ \A s \in Sessions : producer[s] = "asleep" => ~stop /\ ring.cap = 0

\* A read that waits on a started buffer ends, with bytes or an error, once resizes cease
\* and as long as none of them made the ring smaller than the read.
ReadReturns ==
  <>[][config' = config]_vars
    => (reader = "asleep" /\ thread # 0) ~> (reader = "idle" \/ count > ring.cap)

\* The bytes the running session's producer holds.
Incoming == IF session = 0 THEN <<>> ELSE chunk[session]

\* The lossy FIFO of this buffer.
Fifo == INSTANCE LossyFifo WITH
          incoming <- Incoming, queue <- Contents(ring), bound <- ring.cap, got <- result.data,
          Bytes <- Bytes, MaxChunk <- MaxChunk

\* The ring implements the lossy FIFO (_ByteRing's docstring: writes drop the oldest).
ImplementsFifo == Fifo!FifoSpec
=============================================================================
