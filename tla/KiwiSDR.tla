------------------------------- MODULE KiwiSDR --------------------------------
(* A KiwiSDR receiver (devices/kiwisdr.py): two web sockets, SND for samples *)
(* and W/F for the waterfall, opened and closed by the I/O thread, and three *)
(* threads of a session: the producer of the jitter buffer reads SND, the    *)
(* waterfall thread reads W/F, the keep-alive thread writes to both. Another *)
(* thread may interrupt at any time (DeviceContext.stop). The joins of close *)
(* time out, so that threads of a session may run on into the next one.      *)
EXTENDS Integers, FiniteSets

CONSTANTS
  MaxSessions,   \* bound: calls of open
  MaxMessages,   \* bound: warnings and kicks of the server
  MaxLate        \* bound: threads that outlive the joins of close

ASSUME KiwiAssumption == MaxSessions \in Nat /\ MaxMessages \in Nat /\ MaxLate \in Nat

VARIABLES
  kio,           \* the I/O thread: closed, opening, running, or a step of close
  session,       \* history: sessions begun, and the number of the present one
  link,          \* per socket of this session: none, up, lost (dropped by the server), reset
                 \* (and written to since), shut (half-closed)
  stop, reason,  \* _stop, _fatal_reason
  warned,        \* _inactivity_ack_pending
  sndBuf, frames,\* _snd_buf and _spectrum_frames, as the sessions their contents are of
  producing,     \* the session of the thread jitter._thread is, 0: None
  quit, error,   \* jitter._stop, and jitter._error, which read() raises
  pc,            \* per session and thread: its place
  grip,          \* per session and socket, the session whose socket its keep-alive thread writes
                 \* to; 0: None
  messages, late,\* counters of the bounds
  asked,         \* history: close was called or interrupt by another thread, in this session
  owed,          \* history: a warning arrived and no acknowledgement was sent since
  outlived       \* history: sessions whose waterfall thread outlived the join of close

kiwiVars == <<kio, session, link, stop, reason, warned, sndBuf, frames, producing, quit, error,
              pc, grip, messages, late, asked, owed, outlived>>
joinVars == <<late, outlived>>
ioVars == <<kio, session, stop, asked, producing, quit, joinVars>>
notices == <<warned, messages, owed>>
buffers == <<sndBuf, frames>>

Sessions == 1 .. MaxSessions
Sockets == {"snd", "wf"}
Readers == {"producer", "waterfall"}
Threads == Readers \cup {"keepalive"}
SocketOf == [producer |-> "snd", waterfall |-> "wf"]
Reasons == {"server", "keepalive"}   \* kicked or over the time limit; no keep-alive
ReasonOf(t) == IF t = "keepalive" THEN "keepalive" ELSE "server"

KiwiInit ==
  /\ kio = "closed" /\ session = 0
  /\ link = [s \in Sockets |-> "none"]
  /\ stop = FALSE /\ reason = "none" /\ warned = FALSE
  /\ sndBuf = {} /\ frames = {}
  /\ producing = 0 /\ quit = FALSE /\ error = "none"
  /\ pc = [n \in Sessions |-> [t \in Threads |-> "dead"]]
  /\ grip = [n \in Sessions |-> [s \in Sockets |-> 0]]
  /\ messages = 0 /\ late = 0 /\ asked = FALSE /\ owed = FALSE /\ outlived = {}

Shut(l) == [s \in Sockets |-> IF l[s] = "none" THEN "none" ELSE "shut"]

------------------------------------------------------------------------------
(* The I/O thread                                                            *)

\* open up to the first socket; a failure of the connection or of the handshake is ConnectFails.
OpenSnd ==
  /\ kio = "closed" /\ session < MaxSessions
  /\ kio' = "opening" /\ session' = session + 1
  /\ link' = [link EXCEPT !["snd"] = "up"]
  /\ asked' = FALSE /\ owed' = FALSE
  /\ UNCHANGED <<stop, reason, warned, messages, buffers, producing, quit, error, pc, grip,
                 joinVars>>

OpenWf ==
  /\ kio = "opening" /\ link["snd"] # "none" /\ link["wf"] = "none"
  /\ link' = [link EXCEPT !["wf"] = "up"]
  /\ UNCHANGED <<ioVars, reason, notices, buffers, error, pc, grip>>

\* Any failure before the threads are started: the sockets are torn down, the rest is kept.
ConnectFails ==
  /\ kio = "opening"
  /\ kio' = "closed" /\ link' = [s \in Sockets |-> "none"]
  /\ UNCHANGED <<session, stop, asked, producing, quit, joinVars, reason, notices, buffers, error,
                 pc, grip>>

\* Both handshakes are done; one that was interrupted after its last message is not noticed. The
\* waterfall thread takes its socket as it starts.
Ready ==
  /\ kio = "opening" /\ \A s \in Sockets : link[s] # "none"
  /\ stop' = FALSE /\ reason' = "none"
  /\ pc' = [pc EXCEPT ![session]["keepalive"] = "wait", ![session]["waterfall"] = "recv"]
  /\ kio' = "start"
  /\ UNCHANGED <<session, asked, producing, quit, joinVars, link, notices, buffers, error, grip>>

\* (mutant) A producer that outlived its join is forgotten.
StartAnyway ==
  /\ kio = "start" /\ kio' = "running"
  /\ producing' = session /\ quit' = FALSE /\ error' = "none"
  /\ pc' = [pc EXCEPT ![session]["producer"] = "top"]
  /\ UNCHANGED <<session, stop, asked, joinVars, link, reason, notices, buffers, grip>>

\* jitter.start
StartProducer ==
  /\ kio = "start" /\ producing = 0 /\ kio' = "running"
  /\ producing' = session /\ quit' = FALSE /\ error' = "none"
  /\ pc' = [pc EXCEPT ![session]["producer"] = "top"]
  /\ UNCHANGED <<session, stop, asked, joinVars, link, reason, notices, buffers, grip>>

\* drain_spectrum_frames
DrainFrames ==
  /\ kio = "running" /\ frames # {}
  /\ frames' = {}
  /\ UNCHANGED <<ioVars, link, reason, notices, sndBuf, error, pc, grip>>

\* close, as the thread stops or as read raises the producer's error; and in open, when
\* jitter.start raises because a producer outlived its join.
CloseStop ==
  /\ kio = "running" \/ (kio = "start" /\ producing # 0)
  /\ kio' = "interrupt" /\ stop' = TRUE /\ asked' = TRUE
  /\ UNCHANGED <<session, producing, quit, joinVars, link, reason, notices, buffers, error, pc,
                 grip>>

CloseInterrupt ==
  /\ kio = "interrupt" /\ kio' = "quit" /\ link' = Shut(link)
  /\ UNCHANGED <<session, stop, asked, producing, quit, joinVars, reason, notices, buffers, error,
                 pc, grip>>

\* A join that gives up on these threads.
TimesOut(threads) ==
  late + Cardinality(threads) <= MaxLate /\ late' = late + Cardinality(threads)

\* jitter.stop sets the flag, ...
JitterStop ==
  /\ kio = "quit" /\ kio' = "join" /\ quit' = TRUE
  /\ UNCHANGED <<session, stop, asked, producing, joinVars, link, reason, notices, buffers, error,
                 pc, grip>>

\* ... and joins, for so long: a producer that is still alive then keeps its place in _thread.
JitterJoin ==
  /\ kio = "join" /\ kio' = "end"
  /\ LET overdue == {n \in {producing} \ {0} : pc[n]["producer"] # "dead"}
     IN /\ producing' = IF overdue = {} THEN 0 ELSE producing
        /\ TimesOut(overdue)
  /\ UNCHANGED <<session, stop, asked, quit, outlived, link, reason, notices, buffers, error, pc,
                 grip>>

\* The joins of the other two threads, for so long, then the sockets and what the session left.
CloseEnds ==
  /\ kio = "end" /\ kio' = "closed"
  /\ link' = [s \in Sockets |-> "none"]
  /\ sndBuf' = {} /\ frames' = {}
  /\ TimesOut({t \in Threads \ {"producer"} : pc[session][t] # "dead"})
  /\ outlived' = outlived \cup {n \in {session} : pc[n]["waterfall"] # "dead"}
  /\ UNCHANGED <<session, stop, asked, producing, quit, reason, notices, error, pc, grip>>

\* interrupt by DeviceContext.stop
Interrupt ==
  /\ \E s \in Sockets : link[s] \in {"up", "lost"}
  /\ link' = Shut(link) /\ asked' = TRUE
  /\ UNCHANGED <<kio, session, stop, producing, quit, joinVars, reason, notices, buffers, error,
                 pc, grip>>

\* The server drops a connection.
Drop(s) ==
  /\ link[s] = "up" /\ link' = [link EXCEPT ![s] = "lost"]
  /\ UNCHANGED <<ioVars, reason, notices, buffers, error, pc, grip>>

------------------------------------------------------------------------------
(* The reading threads of session n                                          *)

Goto(n, t, place) == pc' = [pc EXCEPT ![n][t] = place]

\* The socket of this kind of session m: those of earlier sessions are closed.
State(m, s) == IF m = session THEN link[s] ELSE "none"

\* JitterBuffer._loop tests its flag between two calls of _read_snd_raw, each of which begins with
\* the socket the device has then: that of the session, whose close sets the flag before it tears
\* the socket down.
ProducerTop(n) ==
  /\ pc[n]["producer"] = "top" /\ Goto(n, "producer", IF quit THEN "dead" ELSE "recv")
  /\ UNCHANGED <<ioVars, link, reason, notices, buffers, error, grip>>

\* _fatal: the test of the first reason; set and interrupt are steps of their own.
FatalBegins(n, t) == Goto(n, t, IF reason = "none" THEN "reason" ELSE "interrupt")

\* _check_stream_msg
StreamMessage(n, t) ==
  /\ messages < MaxMessages /\ messages' = messages + 1
  /\ \/ warned' = TRUE /\ owed' = TRUE /\ UNCHANGED pc
     \/ FatalBegins(n, t) /\ UNCHANGED <<warned, owed>>

\* A frame of samples or a row of the waterfall, which the thread holds then, or a message.
\* _wf_loop tests the stop flag before each recv.
Receive(n, t) ==
  /\ pc[n][t] = "recv" /\ State(n, SocketOf[t]) = "up" /\ ~(t = "waterfall" /\ stop)
  /\ (Goto(n, t, "data") /\ UNCHANGED notices) \/ StreamMessage(n, t)
  /\ UNCHANGED <<ioVars, link, reason, buffers, error, grip>>

\* The end of an iteration of _read_snd_raw: a frame that completes a chunk empties the buffer up
\* to what is left of the frame.
KeepSamples(n) ==
  /\ pc[n]["producer"] = "data"
  /\ \/ sndBuf' = sndBuf \cup {n} /\ Goto(n, "producer", "recv")
     \/ sndBuf' \in {{}, {n}} /\ Goto(n, "producer", "top")
  /\ UNCHANGED <<ioVars, link, reason, notices, frames, error, grip>>

\* _handle_wf_frame, after the row is decoded
KeepRow(n) ==
  /\ pc[n]["waterfall"] = "data" /\ Goto(n, "waterfall", "recv")
  /\ frames' = frames \cup {n}
  /\ UNCHANGED <<ioVars, link, reason, notices, sndBuf, error, grip>>

\* recv fails or returns nothing. The producer's error is the fatal reason, if there is one; the
\* waterfall thread ends without a word.
ReceiveFails(n, t) ==
  /\ pc[n][t] = "recv" /\ Goto(n, t, "dead")
  /\ State(n, SocketOf[t]) # "up" \/ (t = "waterfall" /\ stop)
  /\ error' = IF t # "producer" THEN error ELSE IF reason # "none" THEN reason ELSE "lost"
  /\ UNCHANGED <<ioVars, link, reason, notices, buffers, grip>>

AfterFatal(t) == IF t = "keepalive" THEN "dead" ELSE "recv"

\* Two threads may both have found no reason: the later one stays.
SetReason(n, t) ==
  /\ pc[n][t] = "reason" /\ reason' = ReasonOf(t) /\ Goto(n, t, "interrupt")
  /\ UNCHANGED <<ioVars, link, notices, buffers, error, grip>>

\* interrupt half-closes the sockets the device has now, whichever session the thread is of.
FatalInterrupts(n, t) ==
  /\ pc[n][t] = "interrupt" /\ link' = Shut(link) /\ Goto(n, t, AfterFatal(t))
  /\ UNCHANGED <<ioVars, reason, notices, buffers, error, grip>>

------------------------------------------------------------------------------
(* The keep-alive thread of session n                                        *)

\* The two sockets of an iteration are looked up when it begins. A flag that was cleared again
\* before the thread looks is not seen.
KeepaliveWait(n) ==
  /\ pc[n]["keepalive"] = "wait"
  /\ \/ stop /\ Goto(n, "keepalive", "dead") /\ UNCHANGED grip
     \/ /\ ~stop /\ Goto(n, "keepalive", "snd")
        /\ grip' = [grip EXCEPT ![n] =
                     [s \in Sockets |-> IF link[s] = "none" THEN 0 ELSE session]]
  /\ UNCHANGED <<ioVars, link, reason, notices, buffers, error>>

After(s) == IF s = "snd" THEN "wf" ELSE "ack"
LetGo(n, sockets) ==
  grip' = [grip EXCEPT ![n] = [s \in Sockets |-> IF s \in sockets THEN 0 ELSE @[s]]]

\* (mutant) A failed keep-alive ends the thread only.
KeepaliveGivesUp(n, s) ==
  /\ pc[n]["keepalive"] = s
  /\ \/ /\ State(grip[n][s], s) = "up" /\ Goto(n, "keepalive", After(s)) /\ LetGo(n, {s})
     \/ /\ State(grip[n][s], s) # "up" /\ Goto(n, "keepalive", "dead") /\ LetGo(n, Sockets)
  /\ UNCHANGED <<ioVars, link, reason, notices, buffers, error>>

\* SET keepalive on one socket, if there was one. A write to a connection the server has dropped
\* fails, the first one perhaps not yet.
Keepalive(n, s) ==
  /\ pc[n]["keepalive"] = s
  /\ \/ /\ grip[n][s] = 0 /\ Goto(n, "keepalive", After(s)) /\ UNCHANGED <<link, grip>>
     \/ /\ State(grip[n][s], s) \in {"up", "lost"}
        /\ Goto(n, "keepalive", After(s)) /\ LetGo(n, {s})
        /\ link' = IF link[s] = "lost" THEN [link EXCEPT ![s] = "reset"] ELSE link
     \/ /\ grip[n][s] # 0 /\ State(grip[n][s], s) # "up" /\ LetGo(n, Sockets)
        /\ IF stop THEN Goto(n, "keepalive", "dead") ELSE FatalBegins(n, "keepalive")
        /\ UNCHANGED link
  /\ UNCHANGED <<ioVars, reason, notices, buffers, error>>

\* (mutant) The flag is cleared after the acknowledgement is sent.
KeepaliveClearsLast(n) ==
  /\ \/ /\ pc[n]["keepalive"] = "ack" /\ owed' = (owed /\ ~warned)
        /\ Goto(n, "keepalive", IF warned THEN "clear" ELSE "wait") /\ UNCHANGED warned
     \/ /\ pc[n]["keepalive"] = "clear" /\ Goto(n, "keepalive", "wait")
        /\ warned' = FALSE /\ UNCHANGED owed
  /\ UNCHANGED <<ioVars, link, reason, buffers, error, grip, messages>>

\* The flag, and that there is a socket, are tested before the flag is cleared.
KeepaliveTakesWarning(n) ==
  /\ pc[n]["keepalive"] = "ack"
  /\ \/ /\ warned /\ link["snd"] # "none"
        /\ warned' = FALSE /\ Goto(n, "keepalive", "send")
     \/ /\ ~warned \/ link["snd"] = "none"
        /\ Goto(n, "keepalive", "wait") /\ UNCHANGED warned
  /\ UNCHANGED <<ioVars, link, reason, buffers, error, grip, messages, owed>>

\* SET inactivity_ack on the socket the device has then; a failure to send is ignored, but not
\* that the socket is gone, which ends the thread.
KeepaliveAcks(n) ==
  /\ pc[n]["keepalive"] = "send"
  /\ Goto(n, "keepalive", IF link["snd"] = "none" THEN "dead" ELSE "wait")
  /\ owed' = (owed /\ link["snd"] # "up")
  /\ UNCHANGED <<ioVars, link, reason, warned, messages, buffers, error, grip>>

------------------------------------------------------------------------------
KiwiIO == \/ OpenSnd \/ OpenWf \/ ConnectFails \/ Ready \/ StartProducer \/ DrainFrames
          \/ CloseStop \/ CloseInterrupt \/ JitterStop \/ JitterJoin \/ CloseEnds
ThreadSteps(n, t) == SetReason(n, t) \/ FatalInterrupts(n, t)

\* What the threads of session n do when they get to run, but for receiving what is sent.
ProducerRuns(n) ==
  \/ ProducerTop(n) \/ KeepSamples(n) \/ ReceiveFails(n, "producer")
  \/ ThreadSteps(n, "producer")
WaterfallRuns(n) == KeepRow(n) \/ ReceiveFails(n, "waterfall") \/ ThreadSteps(n, "waterfall")
KeepaliveRuns(n) ==
  \/ KeepaliveWait(n) \/ Keepalive(n, "snd") \/ Keepalive(n, "wf")
  \/ KeepaliveTakesWarning(n) \/ KeepaliveAcks(n) \/ ThreadSteps(n, "keepalive")

KiwiNext ==
  \/ KiwiIO \/ Interrupt
  \/ \E s \in Sockets : Drop(s)
  \/ \E n \in Sessions :
       \/ ProducerRuns(n) \/ WaterfallRuns(n) \/ KeepaliveRuns(n)
       \/ \E t \in Readers : Receive(n, t)

KiwiSpec == KiwiInit /\ [][KiwiNext]_kiwiVars

\* Threads get to run; what the server sends, and when, is open.
KiwiFairness ==
  \A n \in Sessions : /\ WF_kiwiVars(ProducerRuns(n)) /\ WF_kiwiVars(WaterfallRuns(n))
                      /\ WF_kiwiVars(KeepaliveRuns(n))

------------------------------------------------------------------------------
(* Properties                                                                *)

Steps == {"dead", "top", "recv", "data", "reason", "interrupt", "wait", "snd", "wf",
          "ack", "send", "clear"}

KiwiTypeOK ==
  /\ kio \in {"closed", "opening", "start", "running", "interrupt", "quit", "join", "end"}
  /\ session \in 0 .. MaxSessions /\ producing \in 0 .. MaxSessions
  /\ messages \in 0 .. MaxMessages /\ late \in 0 .. MaxLate
  /\ link \in [Sockets -> {"none", "up", "lost", "reset", "shut"}]
  /\ stop \in BOOLEAN /\ quit \in BOOLEAN /\ warned \in BOOLEAN
  /\ asked \in BOOLEAN /\ owed \in BOOLEAN
  /\ reason \in Reasons \cup {"none"} /\ error \in Reasons \cup {"none", "lost"}
  /\ sndBuf \subseteq Sessions /\ frames \subseteq Sessions /\ outlived \subseteq Sessions
  /\ pc \in [Sessions -> [Threads -> Steps]]
  /\ grip \in [Sessions -> [Sockets -> 0 .. MaxSessions]]

\* What a session left does not reach the next, though the joins of close time out
\* (kiwisdr.py:544-553): the samples of a running session are its own, because a producer that
\* outlived its join keeps jitter.start from succeeding; a row of the waterfall is, unless the
\* thread that appended it was still alive when close cleared the rows.
OwnSessionOnly ==
  /\ kio = "running" => sndBuf \subseteq {session}
  /\ frames \ {session} \subseteq outlived

\* A connection the server drops is noticed, the waterfall's too, whose thread ends without a
\* word: the keep-alive that cannot be sent interrupts the session, and the reader gets an error,
\* with threads of an earlier session about or without.
LossIsNoticed ==
  (kio = "running" /\ \E s \in Sockets : link[s] \in {"lost", "reset"})
    ~> (error # "none" \/ asked)

\* Every warning of inactivity is followed by an acknowledgement while the session lasts, one
\* that arrives while another is being acknowledged too, whichever thread sends it.
WarningIsAcked == (kio = "running" /\ owed) ~> (~owed \/ error # "none" \/ asked)
==============================================================================
