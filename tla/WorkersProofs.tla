---------------------------- MODULE WorkersProofs ----------------------------
(***************************************************************************)
(* Proofs about the worker framework, for any number of ids, threads and   *)
(* callers.  First what holds however calls interleave and joins time out  *)
(* (Inv), then what needs one caller and joins that wait for the thread    *)
(* (ReachInv): that every live worker is the registered one.               *)
(***************************************************************************)
EXTENDS MCWorkers, TLAPS

USE WorkersAssumption

\* Every step of a caller or a thread keeps the declared types.
LEMMA TypeStep == TypeOK /\ [Next]_vars => TypeOK'
<1> SUFFICES ASSUME TypeOK, [Next]_vars PROVE TypeOK'
  OBVIOUS
<1> USE DEF TypeOK, Phases, threadVars, callerVars
<1>1. ASSUME NEW c \in Callers, NEW i \in Ids, StartWorker(c, i) PROVE TypeOK'
  BY <1>1 DEF StartWorker
<1>2. ASSUME NEW c \in Callers, NEW i \in Ids, StartDuplicate(c, i) PROVE TypeOK'
  BY <1>2 DEF StartDuplicate
<1>3. ASSUME NEW c \in Callers, NEW i \in Ids, StopAbsent(c, i) PROVE TypeOK'
  BY <1>3 DEF StopAbsent
<1>4. ASSUME NEW c \in Callers, NEW i \in Ids, StopLookup(c, i) PROVE TypeOK'
  BY <1>4 DEF StopLookup
<1>5. ASSUME NEW c \in Callers, StopStep(c) PROVE TypeOK'
  BY <1>5 DEF StopStep, StopRequest, RequestStop, StopJoin, StopPop, StopReturn
<1>6. ASSUME NEW c \in Callers, StopAll(c) PROVE TypeOK'
  BY <1>6 DEF StopAll
<1>7. ASSUME NEW t \in Threads, ThreadNext(t) PROVE TypeOK'
  BY <1>7 DEF ThreadNext, SetupDone, MarkRunning, SetupFailed, EnterBody, LeaveLoop,
              BodyDone, BodyEnds, Teardown, MarkStopped, Deregister, ThreadExit
<1>8. CASE UNCHANGED vars
  BY <1>8 DEF vars
<1> QED
  BY <1>1, <1>2, <1>3, <1>4, <1>5, <1>6, <1>7, <1>8 DEF Next, CallerNext

\* Every state has the declared types: nothing but handles in the registry,
\* nothing but known phases and results.
THEOREM TypeCorrect == Spec => []TypeOK
<1>1. Init => TypeOK
  BY DEF Init, TypeOK, Phases
<1> QED
  BY <1>1, TypeStep, PTL DEF Spec

-----------------------------------------------------------------------------
\* What holds of handles in any interleaving: a thread in a slot or held by a
\* caller was started, and a caller inside stop_worker holds a handle.
HandlesInv ==
  /\ \A c \in Callers : handle[c] # None => phase[handle[c]] # "new"
  /\ \A c \in Callers : pc[c] # "idle" => handle[c] # None

Inv == TypeOK /\ HandlesInv /\ SlotNeverHeldByEndedThread /\ StoppedMeansHandleDead

\* No step, of a call or of a thread, breaks what holds of handles and slots.
LEMMA InvInductive == Inv /\ [Next]_vars => Inv'
<1> SUFFICES ASSUME Inv, [Next]_vars, TypeOK' PROVE Inv'
  BY TypeStep DEF Inv
<1> USE DEF Inv, TypeOK, Phases, HandlesInv, SlotNeverHeldByEndedThread,
            StoppedMeansHandleDead, threadVars, callerVars
<1>1. ASSUME NEW c \in Callers, NEW i \in Ids, StartWorker(c, i) PROVE Inv'
  <2> PICK t \in Threads :
        /\ phase[t] = "new"
        /\ workers' = [workers EXCEPT ![i] = t]
        /\ tid' = [tid EXCEPT ![t] = i]
        /\ phase' = [phase EXCEPT ![t] = "setup"]
    BY <1>1 DEF StartWorker
  <2>1. HandlesInv'
    BY <1>1 DEF StartWorker
  <2>2. SlotNeverHeldByEndedThread'
    BY <1>1 DEF StartWorker
  <2>3. StoppedMeansHandleDead'
    BY <1>1 DEF StartWorker
  <2> QED
    BY <2>1, <2>2, <2>3
<1>2. ASSUME NEW c \in Callers, NEW i \in Ids, StartDuplicate(c, i) PROVE Inv'
  BY <1>2 DEF StartDuplicate
<1>3. ASSUME NEW c \in Callers, NEW i \in Ids, StopAbsent(c, i) PROVE Inv'
  BY <1>3 DEF StopAbsent, MayStop
<1>4. ASSUME NEW c \in Callers, NEW i \in Ids, StopLookup(c, i) PROVE Inv'
  BY <1>4 DEF StopLookup, MayStop
<1>5. ASSUME NEW c \in Callers, StopRequest(c) PROVE Inv'
  BY <1>5 DEF StopRequest, RequestStop
<1>6. ASSUME NEW c \in Callers, StopJoin(c) PROVE Inv'
  BY <1>6 DEF StopJoin
<1>7. ASSUME NEW c \in Callers, StopPop(c) PROVE Inv'
  BY <1>7 DEF StopPop
<1>8. ASSUME NEW c \in Callers, StopReturn(c) PROVE Inv'
  BY <1>8 DEF StopReturn, IsAlive
<1>9. ASSUME NEW c \in Callers, StopAll(c) PROVE Inv'
  BY <1>9 DEF StopAll
<1>10. ASSUME NEW t \in Threads, ThreadNext(t) PROVE Inv'
  <2>1. CASE Deregister(t)
    BY <2>1 DEF Deregister
  <2>2. CASE ThreadExit(t)
    BY <2>2 DEF ThreadExit
  <2>3. CASE SetupDone(t) \/ SetupFailed(t) \/ Teardown(t)
    BY <2>3 DEF SetupDone, MarkRunning, SetupFailed, Teardown, MarkStopped
  <2>4. CASE EnterBody(t) \/ LeaveLoop(t) \/ BodyDone(t) \/ BodyEnds(t)
    BY <2>4 DEF EnterBody, LeaveLoop, BodyDone, BodyEnds
  <2> QED
    BY <1>10, <2>1, <2>2, <2>3, <2>4 DEF ThreadNext
<1>11. CASE UNCHANGED vars
  BY <1>11 DEF vars
<1> QED
  BY <1>1, <1>2, <1>3, <1>4, <1>5, <1>6, <1>7, <1>8, <1>9, <1>10, <1>11
  DEF Next, CallerNext, StopStep

\* What holds of handles and slots holds in every reachable state.
LEMMA InvCorrect == Spec => []Inv
<1>1. Init => Inv
  BY DEF Init, Inv, TypeOK, Phases, HandlesInv, SlotNeverHeldByEndedThread,
         StoppedMeansHandleDead
<1> QED
  BY <1>1, InvInductive, PTL DEF Spec

\* However callers and workers interleave, and whichever joins time out, no slot
\* of the registry is held by a thread past its self-deregistration.
THEOREM SlotsAreFreed == Spec => []SlotNeverHeldByEndedThread
BY InvCorrect, PTL DEF Inv

\* stop_worker never reports a thread it looked up as stopped while it lives.
THEOREM StoppedIsDead == Spec => []StoppedMeansHandleDead
BY InvCorrect, PTL DEF Inv

\* A stop requested at any moment, before mark_running too, is never lost.
THEOREM StopIsHonoured == Spec => NoIterationAfterStop
<1>1. Inv /\ [Next]_vars =>
        [\A t \in Threads : stopRequested[t] /\ phase[t] # "body" => phase'[t] # "body"]_vars
  <2> SUFFICES ASSUME Inv, Next, NEW t \in Threads, stopRequested[t], phase[t] # "body"
               PROVE phase'[t] # "body"
    OBVIOUS
  <2> USE DEF Inv, TypeOK, threadVars, callerVars
  <2>1. ASSUME NEW c \in Callers, CallerNext(c) PROVE phase'[t] # "body"
    BY <2>1 DEF CallerNext, StartWorker, StartDuplicate, StopAbsent, StopLookup, StopStep,
                StopRequest, StopJoin, StopPop, StopReturn, StopAll
  <2>2. ASSUME NEW u \in Threads, ThreadNext(u) PROVE phase'[t] # "body"
    BY <2>2 DEF ThreadNext, SetupDone, SetupFailed, EnterBody, IsRunning, LeaveLoop,
                BodyDone, BodyEnds, Teardown, Deregister, ThreadExit
  <2> QED
    BY <2>1, <2>2 DEF Next
<1> QED
  BY <1>1, InvCorrect, PTL DEF Spec, NoIterationAfterStop

-----------------------------------------------------------------------------
\* With one caller and joins that wait for the thread: every live worker is the
\* registered one, and while the caller is inside stop_worker only the thread it
\* looked up can be executing under the id it is about to remove.
StopTargetInv ==
  \A c \in Callers, t \in Threads :
    pc[c] # "idle" /\ tid[t] = target[c] /\ (Executing(t) \/ phase[t] = "deregister") =>
      t = handle[c] /\ pc[c] \in {"request", "join"}

FreshInv == \A t \in Threads : phase[t] = "new" <=> tid[t] = None

ReachInv == Inv /\ FreshInv /\ StopTargetInv /\ LiveIsRegistered

\* In this step no caller but s does anything, and no join gives up.
LoneStep(s) ==
  /\ \A c \in Callers \ {s} : pc[c] = "idle" /\ pc'[c] = "idle" /\ ret'[c] = "none"
  /\ \A c \in Callers : pc[c] = "join" /\ pc'[c] # "join" => phase[handle[c]] \in {"new", "dead"}

\* With one caller whose joins wait, no step breaks the reachability of live workers.
LEMMA ReachInvInductive ==
  ASSUME ReachInv, [Next]_vars, NEW s, LoneStep(s)
  PROVE  ReachInv'
<1> SUFFICES ASSUME Inv' PROVE ReachInv'
  BY InvInductive DEF ReachInv
<1> USE DEF ReachInv, Inv, TypeOK, Phases, FreshInv, StopTargetInv, LiveIsRegistered,
            Executing, LoneStep, threadVars, callerVars
<1>1. ASSUME NEW c \in Callers, NEW i \in Ids, StartWorker(c, i) PROVE ReachInv'
  <2> PICK t \in Threads :
        /\ phase[t] = "new"
        /\ workers' = [workers EXCEPT ![i] = t]
        /\ tid' = [tid EXCEPT ![t] = i]
        /\ phase' = [phase EXCEPT ![t] = "setup"]
    BY <1>1 DEF StartWorker
  <2>1. FreshInv'
    BY <1>1 DEF StartWorker
  <2>2. StopTargetInv'
    BY <1>1 DEF StartWorker
  <2>3. LiveIsRegistered'
    BY <1>1 DEF StartWorker
  <2> QED
    BY <2>1, <2>2, <2>3
<1>2. ASSUME NEW c \in Callers, NEW i \in Ids, StartDuplicate(c, i) PROVE ReachInv'
  BY <1>2 DEF StartDuplicate
<1>3. ASSUME NEW c \in Callers, NEW i \in Ids, StopAbsent(c, i) PROVE ReachInv'
  BY <1>3 DEF StopAbsent, MayStop
<1>4. ASSUME NEW c \in Callers, NEW i \in Ids, StopLookup(c, i) PROVE ReachInv'
  BY <1>4 DEF StopLookup, MayStop
<1>5. ASSUME NEW c \in Callers, StopRequest(c) PROVE ReachInv'
  BY <1>5 DEF StopRequest, RequestStop
<1>6. ASSUME NEW c \in Callers, StopJoin(c) PROVE ReachInv'
  <2>1. phase[handle[c]] \in {"new", "dead"}
    BY <1>6 DEF StopJoin
  <2>2. \A t \in Threads : tid[t] = target[c] => ~(Executing(t) \/ phase[t] = "deregister")
    BY <1>6, <2>1 DEF StopJoin
  <2> QED
    BY <1>6, <2>2 DEF StopJoin
<1>7. ASSUME NEW c \in Callers, StopPop(c) PROVE ReachInv'
  BY <1>7 DEF StopPop
<1>8. ASSUME NEW c \in Callers, StopReturn(c) PROVE ReachInv'
  BY <1>8 DEF StopReturn
<1>9. ASSUME NEW c \in Callers, StopAll(c) PROVE ReachInv'
  BY <1>9 DEF StopAll
<1>10. ASSUME NEW t \in Threads, ThreadNext(t) PROVE ReachInv'
  <2>1. CASE Deregister(t)
    BY <2>1 DEF Deregister
  <2>2. CASE ThreadExit(t)
    BY <2>2 DEF ThreadExit
  <2>3. CASE SetupDone(t) \/ SetupFailed(t) \/ Teardown(t)
    BY <2>3 DEF SetupDone, MarkRunning, SetupFailed, Teardown, MarkStopped
  <2>4. CASE EnterBody(t) \/ LeaveLoop(t) \/ BodyDone(t) \/ BodyEnds(t)
    BY <2>4 DEF EnterBody, LeaveLoop, BodyDone, BodyEnds
  <2> QED
    BY <1>10, <2>1, <2>2, <2>3, <2>4 DEF ThreadNext
<1>11. CASE UNCHANGED vars
  BY <1>11 DEF vars
<1> QED
  BY <1>1, <1>2, <1>3, <1>4, <1>5, <1>6, <1>7, <1>8, <1>9, <1>10, <1>11
  DEF Next, CallerNext, StopStep

LEMMA ReachInvInit == Init => ReachInv
BY DEF Init, ReachInv, Inv, TypeOK, Phases, HandlesInv, SlotNeverHeldByEndedThread,
       StoppedMeansHandleDead, FreshInv, StopTargetInv, LiveIsRegistered, Executing

OneCaller == \A c, d \in Callers : c = d

\* With one caller whose joins wait, live workers stay reachable.
LEMMA ReachInvCorrect ==
  ASSUME MayTimeout = FALSE, OneCaller
  PROVE  Spec => []ReachInv
<1>1. ASSUME ReachInv, [Next]_vars PROVE ReachInv'
  <2>1. ASSUME NEW c \in Callers, pc[c] = "join", pc'[c] # "join"
        PROVE  phase[handle[c]] \in {"new", "dead"}
    <3>1. pc \in [Callers -> {"idle", "request", "join", "pop", "check"}]
      BY <1>1 DEF ReachInv, Inv, TypeOK
    <3>2. CASE UNCHANGED vars
      BY <2>1, <3>2 DEF vars, callerVars
    <3>3. CASE \E d \in Callers : StopStep(d)
      <4>1. StopStep(c)
        BY <3>3 DEF OneCaller
      <4> QED
        BY <2>1, <4>1 DEF StopStep, StopRequest, StopJoin, StopPop, StopReturn, IsAlive
    <3>4. CASE \E d \in Callers : StopAll(d) \/ \E i \in Ids :
                 StartWorker(d, i) \/ StartDuplicate(d, i) \/ StopAbsent(d, i)
      BY <2>1, <3>4 DEF StopAll, StartWorker, StartDuplicate, StopAbsent
    <3>5. CASE \E d \in Callers, i \in Ids : StopLookup(d, i)
      BY <2>1, <3>1, <3>5 DEF StopLookup, MayStop, OneCaller
    <3>6. CASE \E t \in Threads : ThreadNext(t)
      BY <2>1, <3>6 DEF ThreadNext, SetupDone, SetupFailed, EnterBody, LeaveLoop, BodyDone,
                        BodyEnds, Teardown, Deregister, ThreadExit, callerVars
    <3> QED
      BY <1>1, <3>2, <3>3, <3>4, <3>5, <3>6 DEF Next, CallerNext
  <2>2. \E s : \A c \in Callers : c = s
    BY DEF OneCaller
  <2>3. \E s : LoneStep(s)
    BY <2>1, <2>2 DEF LoneStep
  <2> QED
    BY <1>1, <2>3, ReachInvInductive
<1> QED
  BY <1>1, ReachInvInit, PTL DEF Spec

\* Any number of callers may exist: where only one of them calls and its joins wait, the
\* registry reaches every live worker, although the runner itself allows both to happen.
THEOREM AloneReachable == MCSafetySpec => []AloneLiveIsRegistered
<1> DEFINE Lone == \A c \in Callers \ {Sole} : pc[c] = "idle" /\ ret[c] = "none"
           AloneInv == Inv /\ (alone => Lone /\ ReachInv)
<1>1. MCInit => AloneInv
  BY ReachInvInit DEF MCInit, Init, ReachInv
<1>2. AloneInv /\ [MCNext]_<<vars, alone>> => AloneInv'
  <2> SUFFICES ASSUME AloneInv, [MCNext]_<<vars, alone>> PROVE AloneInv'
    OBVIOUS
  <2>1. [Next]_vars /\ alone' = alone
    BY DEF MCNext
  <2>2. Inv'
    BY <2>1, InvInductive
  <2>3. ASSUME alone PROVE Lone' /\ ReachInv'
    <3>1. CASE UNCHANGED vars
      BY <2>3, <3>1, InvInductive DEF vars, callerVars, threadVars, ReachInv, FreshInv,
         StopTargetInv, LiveIsRegistered, Executing
    <3>2. CASE Next /\ AloneStep
      <4>1. Lone'
        BY <3>2 DEF AloneStep
      <4>2. ASSUME NEW c \in Callers, pc[c] = "join", pc'[c] # "join"
            PROVE  phase[handle[c]] \in {"new", "dead"}
        BY <2>3, <3>2, <4>2 DEF AloneStep
      <4>3. LoneStep(Sole)
        BY <2>3, <4>1, <4>2 DEF LoneStep
      <4> QED
        BY <2>1, <2>3, <4>1, <4>3, ReachInvInductive
    <3> QED
      BY <2>3, <3>1, <3>2 DEF MCNext
  <2> QED
    BY <2>1, <2>2, <2>3
<1>3. AloneInv => AloneLiveIsRegistered
  BY DEF AloneLiveIsRegistered, ReachInv
<1> HIDE DEF AloneInv
<1> QED
  BY <1>1, <1>2, <1>3, PTL DEF MCSafetySpec

\* One caller whose joins wait: the registry reaches every live worker.
THEOREM LiveWorkersReachable ==
  ASSUME MayTimeout = FALSE, OneCaller
  PROVE  Spec => []LiveIsRegistered
BY ReachInvCorrect, PTL DEF ReachInv

\* One caller whose joins wait: an id never has two workers executing.
THEOREM OneWorkerPerId ==
  ASSUME MayTimeout = FALSE, OneCaller
  PROVE  Spec => []OneThreadPerId
<1>1. ReachInv => OneThreadPerId
  BY DEF ReachInv, LiveIsRegistered, OneThreadPerId
<1>2. Spec => []ReachInv
  BY ReachInvCorrect
<1> QED
  BY <1>1, <1>2, PTL

\* One caller whose joins wait: True from stop_worker, with a handle or without,
\* means that no worker of that id executes.
THEOREM TrueMeansExited ==
  ASSUME MayTimeout = FALSE, OneCaller
  PROVE  Spec => StopTrueMeansExited
<1>1. ReachInv /\ [Next]_vars =>
        [\A c \in Callers, i \in Ids :
           \/ StopAbsent(c, i)
           \/ StopReturn(c) /\ target[c] = i /\ ret'[c] = "stopped"
           => \A t \in Threads : tid[t] = i => phase[t] \in {"exiting", "dead"}]_vars
  <2> SUFFICES ASSUME ReachInv, NEW c \in Callers, NEW i \in Ids,
                      \/ StopAbsent(c, i)
                      \/ StopReturn(c) /\ target[c] = i,
                      NEW t \in Threads, tid[t] = i
               PROVE phase[t] \in {"exiting", "dead"}
    OBVIOUS
  <2>1. ~(Executing(t) \/ phase[t] = "deregister")
    <3>1. CASE StopAbsent(c, i)
      BY <3>1, WorkersAssumption DEF StopAbsent, ReachInv, LiveIsRegistered
    <3>2. CASE StopReturn(c) /\ target[c] = i
      BY <3>2 DEF StopReturn, ReachInv, StopTargetInv
    <3> QED
      BY <3>1, <3>2
  <2>2. phase[t] # "new"
    BY WorkersAssumption DEF ReachInv, FreshInv
  <2> QED
    BY <2>1, <2>2 DEF ReachInv, Inv, TypeOK, Phases, Executing
<1>2. Spec => []ReachInv
  BY ReachInvCorrect
<1> QED
  BY <1>1, <1>2, PTL DEF Spec, StopTrueMeansExited
=============================================================================
