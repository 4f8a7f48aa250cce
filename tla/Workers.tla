------------------------------- MODULE Workers -------------------------------
(***************************************************************************)
(* The worker framework of core/workers.py: a runner that starts threads   *)
(* under a worker id, asks them to stop, joins them for a bounded time and *)
(* forgets them, and the wrapper every worker thread executes (setup, run, *)
(* teardown, self-deregistration).                                         *)
(*                                                                         *)
(* A thread is one element of Threads and is started at most once, so two  *)
(* incarnations of the same worker id are two threads.  The runner's lock  *)
(* makes one atomic step of each critical section; everything between two  *)
(* critical sections may be interleaved with the other callers and with    *)
(* the worker threads.                                                     *)
(***************************************************************************)

CONSTANTS
  Ids,        \* worker ids, the keys of the registry
  Threads,    \* the threads that can ever be created (bounds the model)
  Callers,    \* threads that call start_worker / stop_worker / stop_all_workers
  MayTimeout, \* TRUE when a join may give up on a thread that is still alive
  None        \* "no handle"

ASSUME WorkersAssumption ==
  /\ None \notin Threads \cup Ids
  /\ MayTimeout \in BOOLEAN

VARIABLES
  workers,       \* the runner's registry _workers: id -> thread (handle) or None
  tid,           \* the worker_id a thread's context carries, None before start
  phase,         \* where the thread is inside _worker_wrapper
  running,       \* WorkerLifecycle._running
  stopRequested, \* WorkerLifecycle._stop_requested
  pc,            \* where a caller is inside stop_worker
  target,        \* the id the caller's current or last call is about
  handle,        \* the handle a stop_worker call looked up (a local of it)
  todo,          \* the ids stop_all_workers still has to stop
  ret            \* result of the caller's last finished call

threadVars == <<tid, phase, running, stopRequested>>
callerVars == <<pc, target, handle, todo, ret>>
vars == <<workers, threadVars, callerVars>>

Phases == {"new", "setup", "loop", "body", "teardown", "deregister", "exiting", "dead"}

Init ==
  /\ workers = [i \in Ids |-> None]
  /\ tid = [t \in Threads |-> None]
  /\ phase = [t \in Threads |-> "new"]
  /\ running = [t \in Threads |-> FALSE]
  /\ stopRequested = [t \in Threads |-> FALSE]
  /\ pc = [c \in Callers |-> "idle"]
  /\ target = [c \in Callers |-> None]
  /\ handle = [c \in Callers |-> None]
  /\ todo = [c \in Callers |-> {}]
  /\ ret = [c \in Callers |-> "none"]

-----------------------------------------------------------------------------
(* WorkerLifecycle                                                         *)

\* Mutant: the loop condition forgets that a stop was requested during setup.
IsRunningIgnoresStop(t) == running[t]

IsRunning(t) == running[t] /\ ~stopRequested[t]

MarkRunning(t) == running' = [running EXCEPT ![t] = TRUE]

RequestStop(t) ==
  /\ stopRequested' = [stopRequested EXCEPT ![t] = TRUE]
  /\ running' = [running EXCEPT ![t] = FALSE]

MarkStopped(t) == running' = [running EXCEPT ![t] = FALSE]

IsAlive(t) == phase[t] \notin {"new", "dead"}

\* The wrapper is between setup and teardown of its worker.
Executing(t) == phase[t] \in {"setup", "loop", "body", "teardown"}

-----------------------------------------------------------------------------
(* WorkerRunner: the calls                                                 *)

\* start_worker under the lock: a fresh handle is registered and its thread
\* started, both before the lock is released.
StartWorker(c, i) ==
  /\ pc[c] = "idle" /\ todo[c] = {}
  /\ workers[i] = None
  /\ \E t \in Threads :
       /\ phase[t] = "new"
       /\ workers' = [workers EXCEPT ![i] = t]
       /\ tid' = [tid EXCEPT ![t] = i]
       /\ phase' = [phase EXCEPT ![t] = "setup"]
  /\ target' = [target EXCEPT ![c] = i]
  /\ handle' = [handle EXCEPT ![c] = None]
  /\ ret' = [ret EXCEPT ![c] = "started"]
  /\ UNCHANGED <<running, stopRequested, pc, todo>>

\* start_worker on an id that is still registered raises ValueError.
StartDuplicate(c, i) ==
  /\ pc[c] = "idle" /\ todo[c] = {}
  /\ workers[i] # None
  /\ target' = [target EXCEPT ![c] = i]
  /\ handle' = [handle EXCEPT ![c] = None]
  /\ ret' = [ret EXCEPT ![c] = "exists"]
  /\ UNCHANGED <<workers, threadVars, pc, todo>>

\* Which id the caller may stop next: any, or one left over of stop_all_workers.
MayStop(c, i) == pc[c] = "idle" /\ (todo[c] = {} \/ i \in todo[c])

\* stop_worker finds no handle and returns True at once.
StopAbsent(c, i) ==
  /\ MayStop(c, i)
  /\ workers[i] = None
  /\ target' = [target EXCEPT ![c] = i]
  /\ handle' = [handle EXCEPT ![c] = None]
  /\ ret' = [ret EXCEPT ![c] = "stopped"]
  /\ todo' = [todo EXCEPT ![c] = @ \ {i}]
  /\ UNCHANGED <<workers, threadVars, pc>>

\* stop_worker finds a handle; the lock is released here.
StopLookup(c, i) ==
  /\ MayStop(c, i)
  /\ workers[i] # None
  /\ pc' = [pc EXCEPT ![c] = "request"]
  /\ target' = [target EXCEPT ![c] = i]
  /\ handle' = [handle EXCEPT ![c] = workers[i]]
  /\ ret' = [ret EXCEPT ![c] = "none"]
  /\ todo' = [todo EXCEPT ![c] = @ \ {i}]
  /\ UNCHANGED <<workers, threadVars>>

\* Mutant: the entry is popped with the request, before the thread has ended.
StopRequestPops(c) ==
  /\ pc[c] = "request"
  /\ RequestStop(handle[c])
  /\ workers' = [workers EXCEPT ![target[c]] = None]
  /\ pc' = [pc EXCEPT ![c] = "join"]
  /\ UNCHANGED <<tid, phase, target, handle, todo, ret>>

StopRequest(c) ==
  /\ pc[c] = "request"
  /\ RequestStop(handle[c])
  /\ pc' = [pc EXCEPT ![c] = "join"]
  /\ UNCHANGED <<workers, tid, phase, target, handle, todo, ret>>

\* join returns because the thread has ended, or because it timed out.
StopJoin(c) ==
  /\ pc[c] = "join"
  /\ ~IsAlive(handle[c]) \/ MayTimeout
  /\ pc' = [pc EXCEPT ![c] = "pop"]
  /\ UNCHANGED <<workers, threadVars, target, handle, todo, ret>>

\* The registry entry is removed by id, whatever handle it holds by now.
StopPop(c) ==
  /\ pc[c] = "pop"
  /\ workers' = [workers EXCEPT ![target[c]] = None]
  /\ pc' = [pc EXCEPT ![c] = "check"]
  /\ UNCHANGED <<threadVars, target, handle, todo, ret>>

\* is_alive is read after the lock was released again.
StopReturn(c) ==
  /\ pc[c] = "check"
  /\ pc' = [pc EXCEPT ![c] = "idle"]
  /\ ret' = [ret EXCEPT ![c] = IF IsAlive(handle[c]) THEN "abandoned" ELSE "stopped"]
  /\ UNCHANGED <<workers, threadVars, target, handle, todo>>

\* stop_all_workers copies the keys under the lock, then stops one by one.
StopAll(c) ==
  /\ pc[c] = "idle" /\ todo[c] = {}
  /\ todo' = [todo EXCEPT ![c] = {i \in Ids : workers[i] # None}]
  /\ ret' = [ret EXCEPT ![c] = "none"]
  /\ UNCHANGED <<workers, threadVars, pc, target, handle>>

-----------------------------------------------------------------------------
(* WorkerRunner._worker_wrapper: the worker's thread                       *)

\* setup returns; mark_running does not look at a stop requested meanwhile.
SetupDone(t) ==
  /\ phase[t] = "setup"
  /\ MarkRunning(t)
  /\ phase' = [phase EXCEPT ![t] = "loop"]
  /\ UNCHANGED <<workers, tid, stopRequested, callerVars>>

SetupFailed(t) ==
  /\ phase[t] = "setup"
  /\ phase' = [phase EXCEPT ![t] = "teardown"]
  /\ UNCHANGED <<workers, tid, running, stopRequested, callerVars>>

\* run: the worker's loop condition, should_continue().
EnterBody(t) ==
  /\ phase[t] = "loop"
  /\ IsRunning(t)
  /\ phase' = [phase EXCEPT ![t] = "body"]
  /\ UNCHANGED <<workers, tid, running, stopRequested, callerVars>>

LeaveLoop(t) ==
  /\ phase[t] = "loop"
  /\ ~IsRunning(t)
  /\ phase' = [phase EXCEPT ![t] = "teardown"]
  /\ UNCHANGED <<workers, tid, running, stopRequested, callerVars>>

BodyDone(t) ==
  /\ phase[t] = "body"
  /\ phase' = [phase EXCEPT ![t] = "loop"]
  /\ UNCHANGED <<workers, tid, running, stopRequested, callerVars>>

\* run raises (logged) or returns of its own accord.
BodyEnds(t) ==
  /\ phase[t] = "body"
  /\ phase' = [phase EXCEPT ![t] = "teardown"]
  /\ UNCHANGED <<workers, tid, running, stopRequested, callerVars>>

\* teardown returns or raises (logged), then mark_stopped.
Teardown(t) ==
  /\ phase[t] = "teardown"
  /\ MarkStopped(t)
  /\ phase' = [phase EXCEPT ![t] = "deregister"]
  /\ UNCHANGED <<workers, tid, stopRequested, callerVars>>

\* Mutant: only stop_worker ever frees a slot.
DeregisterNothing(t) ==
  /\ phase[t] = "deregister"
  /\ phase' = [phase EXCEPT ![t] = "exiting"]
  /\ UNCHANGED <<workers, tid, running, stopRequested, callerVars>>

\* The thread removes the entry of its id, whatever handle it holds by now.
Deregister(t) ==
  /\ phase[t] = "deregister"
  /\ workers' = [workers EXCEPT ![tid[t]] = None]
  /\ phase' = [phase EXCEPT ![t] = "exiting"]
  /\ UNCHANGED <<tid, running, stopRequested, callerVars>>

ThreadExit(t) ==
  /\ phase[t] = "exiting"
  /\ phase' = [phase EXCEPT ![t] = "dead"]
  /\ UNCHANGED <<workers, tid, running, stopRequested, callerVars>>

-----------------------------------------------------------------------------
StopStep(c) == StopRequest(c) \/ StopJoin(c) \/ StopPop(c) \/ StopReturn(c)

CallerNext(c) ==
  \/ \E i \in Ids : StartWorker(c, i) \/ StartDuplicate(c, i)
                      \/ StopAbsent(c, i) \/ StopLookup(c, i)
  \/ StopStep(c)
  \/ StopAll(c)

ThreadNext(t) ==
  \/ SetupDone(t) \/ SetupFailed(t)
  \/ EnterBody(t) \/ LeaveLoop(t) \/ BodyDone(t) \/ BodyEnds(t)
  \/ Teardown(t) \/ Deregister(t) \/ ThreadExit(t)

Next == (\E c \in Callers : CallerNext(c)) \/ (\E t \in Threads : ThreadNext(t))

Spec == Init /\ [][Next]_vars

\* A call that was begun goes on; nothing obliges a caller to begin one.
FairCallers == \A c \in Callers : WF_vars(StopStep(c))
\* No worker hangs: each of its calls (setup, loop body, teardown) returns.
FairThreads == \A t \in Threads : WF_vars(ThreadNext(t))

-----------------------------------------------------------------------------
TypeOK ==
  /\ workers \in [Ids -> Threads \cup {None}]
  /\ tid \in [Threads -> Ids \cup {None}]
  /\ phase \in [Threads -> Phases]
  /\ running \in [Threads -> BOOLEAN]
  /\ stopRequested \in [Threads -> BOOLEAN]
  /\ pc \in [Callers -> {"idle", "request", "join", "pop", "check"}]
  /\ target \in [Callers -> Ids \cup {None}]
  /\ handle \in [Callers -> Threads \cup {None}]
  /\ todo \in [Callers -> SUBSET Ids]
  /\ ret \in [Callers -> {"none", "started", "exists", "stopped", "abandoned"}]

\* Past its self-deregistration a thread is in no slot, so a slot is never kept
\* by a worker that ended on its own ("so a future start_worker can reuse the
\* slot even when nobody calls stop_worker"), however calls interleave.
SlotNeverHeldByEndedThread ==
  \A i \in Ids : workers[i] # None =>
    /\ tid[workers[i]] = i
    /\ phase[workers[i]] \notin {"new", "exiting", "dead"}

\* A stop_worker that looked a handle up and returned True has seen that very
\* thread end, also when the slot was reused or removed by others meanwhile.
StoppedMeansHandleDead ==
  \A c \in Callers :
    pc[c] = "idle" /\ handle[c] # None /\ ret[c] = "stopped" => phase[handle[c]] = "dead"

\* Once a stop was requested the worker begins no further iteration of its loop,
\* even when the request came while setup was still running (mark_running after
\* request_stop must not revive it).
NoIterationAfterStop ==
  [][\A t \in Threads :
       stopRequested[t] /\ phase[t] # "body" => phase'[t] # "body"]_vars

\* A worker that is between setup and teardown is the one registered under its
\* id: the runner can always reach every live worker.  Holds only for a single
\* caller whose joins never give up.
LiveIsRegistered ==
  \A t \in Threads : Executing(t) \/ phase[t] = "deregister" => workers[tid[t]] = t

\* At most one thread of an id executes a worker (setup, run or teardown).
OneThreadPerId ==
  \A t, u \in Threads :
    (t # u /\ Executing(t) /\ Executing(u)) => tid[t] # tid[u]

\* True from stop_worker means that no worker of that id executes any more.
\* Returning calls are the two steps that set ret to "stopped".
StopTrueMeansExited ==
  [][\A c \in Callers, i \in Ids :
       \/ StopAbsent(c, i)
       \/ StopReturn(c) /\ target[c] = i /\ ret'[c] = "stopped"
       => \A t \in Threads : tid[t] = i => phase[t] \in {"exiting", "dead"}]_vars

\* A worker asked to stop ends, is torn down on the way, and leaves its slot,
\* provided its own calls return.
StopEventuallyExits ==
  \A t \in Threads : stopRequested[t] ~> phase[t] = "dead" /\ ~running[t]

=============================================================================
