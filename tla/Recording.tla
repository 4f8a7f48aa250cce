------------------------------ MODULE Recording ------------------------------
(***************************************************************************)
(* The "recording" pipeline of a running device: the entry in the device's *)
(* pipeline configuration, the RecordStage that stands for it, the stage's *)
(* file, and the two threads that touch them.  The user-interface thread   *)
(* edits the configuration (record start, record stop, or any other edit,  *)
(* which rewrites the whole mapping it has read).  The pipeline thread     *)
(* feeds batches to the stage and, when a limited recording is complete,   *)
(* closes it, announces it, and so removes the entry itself.               *)
(*                                                                         *)
(* A file is the number of samples in it.  Two hazards of the code are kept *)
(* apart so that each can be studied: edits of both threads overlap only   *)
(* when `Overlap' says so, and a recording is `torn' when the user         *)
(* interface closes its stage while the pipeline thread is inside it.      *)
(***************************************************************************)
EXTENDS Integers, FiniteSets

CONSTANTS
  Limits,          \* values of record_max_samples, NoLimit for None
  BatchSizes,      \* samples a batch yields after resampling
  Overlap,         \* an edit may begin while the other thread is inside one
  MaxRecordings,   \* bound: recordings started
  MaxStages,       \* bound: stages created
  MaxEdits,        \* bound: edits of the user interface
  MaxWritten,      \* bound: samples of a recording without a limit
  NoLimit

Recordings == 1 .. MaxRecordings
Stages == 1 .. MaxStages
None == 0          \* no recording, no stage
NoFile == -1       \* no such file

ASSUME RecordingAssumption ==
  /\ Limits \subseteq Nat \cup {NoLimit} /\ NoLimit \notin Int
  /\ BatchSizes \subseteq Nat
  /\ Overlap \in BOOLEAN
  /\ {MaxRecordings, MaxStages, MaxEdits, MaxWritten} \subseteq Nat

VARIABLES
  cfg,        \* config.pipelines["recording"], by its path, or None
  limit,      \* record_max_samples of each recording
  started,    \* recordings started so far
  installed,  \* the stage of context.pipelines["recording"], or None
  stage,      \* every stage created so far
  created,    \* how many those are
  partial,    \* per recording, the file while it is written
  final,      \* per recording, the file once it is closed
  job,        \* where each thread is
  finished,   \* recordings announced by RecordingFinishedEvent
  torn,       \* history: recordings closed while process was inside the stage
  edits       \* edits of the user interface

configuration == <<cfg, limit, started>>
pipelines == <<installed, created>>
files == <<partial, final>>
outcome == <<finished, torn, edits>>
recordingVars == <<configuration, pipelines, stage, files, job, outcome>>

RecordThreads == {"ui", "pipeline"}
Editing(t) == job[t].at \in {"swap", "sync", "apply", "forget"}
Closing(t) == job[t].at \in {"close", "flush", "shut", "rename"}
\* A close is a part of an edit, except the one of a recording that is complete.
InEdit(t) == Editing(t) \/ (Closing(t) /\ job[t].after = "forget")
InStage(s) == job["pipeline"].stage = s /\ job["pipeline"].at \in {"open", "write", "finish"}

Resting == [at |-> "idle", after |-> "idle", rec |-> None, stage |-> None, n |-> 0]
NewStage(r) ==
  [path |-> r, written |-> 0, closed |-> FALSE, published |-> FALSE,
   file |-> "none", writer |-> FALSE]

RecordingInit ==
  /\ cfg = None /\ started = 0 /\ limit \in [Recordings -> Limits]
  /\ installed = None /\ created = 0
  /\ stage = [s \in Stages |-> NewStage(None)]
  /\ partial = [r \in Recordings |-> NoFile]
  /\ final = [r \in Recordings |-> NoFile]
  /\ job = [t \in RecordThreads |-> Resting]
  /\ finished = {} /\ torn = {} /\ edits = 0

Goto(t, place) == job' = [job EXCEPT ![t].at = place]
Rest(t) == job' = [job EXCEPT ![t] = Resting]

(***************************************************************************)
(* Edits: read the mapping, swap the configuration, materialize            *)
(***************************************************************************)
MayEdit(t) == Overlap \/ \A u \in RecordThreads \ {t} : ~InEdit(u)

BeginEdit(t, r) == job' = [job EXCEPT ![t] = [Resting EXCEPT !.at = "swap", !.rec = r]]

UserEdits ==
  /\ job["ui"].at = "idle" /\ MayEdit("ui") /\ edits < MaxEdits
  /\ edits' = edits + 1
  /\ UNCHANGED <<cfg, limit, pipelines, stage, files, finished, torn>>

StartRecording ==
  /\ UserEdits /\ cfg = None /\ started < MaxRecordings
  /\ started' = started + 1
  /\ BeginEdit("ui", started + 1)

StopRecording ==
  /\ UserEdits /\ cfg # None
  /\ BeginEdit("ui", None)
  /\ UNCHANGED started

\* update_squelch, or another pipeline added or removed.
EditAnother ==
  /\ UserEdits
  /\ BeginEdit("ui", cfg)
  /\ UNCHANGED started

SwapConfig(t) ==
  /\ job[t].at = "swap"
  /\ cfg' = job[t].rec
  /\ Goto(t, "sync")
  /\ UNCHANGED <<limit, started, pipelines, stage, files, outcome>>

\* _materialize_pipelines reads the configuration again.
ReadConfig(t) ==
  /\ job[t].at = "sync"
  /\ job' = [job EXCEPT ![t].at = "apply", ![t].rec = cfg]
  /\ UNCHANGED <<configuration, pipelines, stage, files, outcome>>

\* A stage at the same position and of the same type is reused as it is.
ApplyConfig(t) ==
  /\ job[t].at = "apply"
  /\ \/ /\ (job[t].rec = None) = (installed = None)
        /\ Rest(t)
        /\ UNCHANGED <<pipelines, stage>>
     \/ /\ job[t].rec # None /\ installed = None /\ created < MaxStages
        /\ created' = created + 1 /\ installed' = created + 1
        /\ stage' = [stage EXCEPT ![created + 1] = NewStage(job[t].rec)]
        /\ Rest(t)
     \/ /\ job[t].rec = None /\ installed # None
        /\ job' = [job EXCEPT ![t].at = "close", ![t].after = "forget", ![t].stage = installed]
        /\ UNCHANGED <<pipelines, stage>>
  /\ UNCHANGED <<configuration, files, outcome>>

\* Mutant of ForgetPipeline: the entry stays.
ForgetPipelineKeeps(t) ==
  /\ job[t].at = "forget"
  /\ Rest(t)
  /\ UNCHANGED <<configuration, pipelines, stage, files, outcome>>

\* del self.pipelines[name]
ForgetPipeline(t) ==
  /\ job[t].at = "forget"
  /\ installed' = None
  /\ Rest(t)
  /\ UNCHANGED <<configuration, created, stage, files, outcome>>

(***************************************************************************)
(* RecordStage.close, on either thread                                     *)
(***************************************************************************)
BeginClose(t) ==
  LET s == job[t].stage IN
  /\ job[t].at = "close"
  /\ IF stage[s].closed
     THEN Goto(t, job[t].after) /\ UNCHANGED stage
     ELSE Goto(t, "flush") /\ stage' = [stage EXCEPT ![s].closed = TRUE]
  /\ torn' = IF t = "ui" /\ InStage(s) THEN torn \cup {stage[s].path} ELSE torn
  /\ UNCHANGED <<configuration, pipelines, files, finished, edits>>

CloseWriter(t) ==
  /\ job[t].at = "flush"
  /\ stage' = [stage EXCEPT ![job[t].stage].writer = FALSE]
  /\ Goto(t, "shut")
  /\ UNCHANGED <<configuration, pipelines, files, outcome>>

CloseFile(t) ==
  /\ job[t].at = "shut"
  /\ stage' = [stage EXCEPT ![job[t].stage].file = "none"]
  /\ Goto(t, "rename")
  /\ UNCHANGED <<configuration, pipelines, files, outcome>>

\* An open file keeps its handle when it is renamed.
RenamePartial(t) ==
  LET r == stage[job[t].stage].path IN
  /\ job[t].at = "rename"
  /\ IF partial[r] = NoFile
     THEN UNCHANGED <<stage, files>>
     ELSE /\ final' = [final EXCEPT ![r] = partial[r]]
          /\ partial' = [partial EXCEPT ![r] = NoFile]
          /\ stage' = [s \in Stages |->
                         IF stage[s].path = r /\ stage[s].file = "partial"
                         THEN [stage[s] EXCEPT !.file = "final"] ELSE stage[s]]
  /\ Goto(t, job[t].after)
  /\ UNCHANGED <<configuration, pipelines, outcome>>

(***************************************************************************)
(* RecordStage.process, on the pipeline thread                             *)
(***************************************************************************)
Here == job["pipeline"].stage
HereIs(place) == job["pipeline"].at = place
Limited(s) == limit[stage[s].path] # NoLimit
Room(s) == limit[stage[s].path] - stage[s].written

\* Unlimited recordings are followed up to MaxWritten samples.
TakeBatch(n) ==
  /\ HereIs("idle") /\ installed # None
  /\ Limited(installed) \/ stage[installed].written + n <= MaxWritten
  /\ job' = [job EXCEPT !["pipeline"] = [Resting EXCEPT !.at = "check", !.stage = installed, !.n = n]]
  /\ UNCHANGED <<configuration, pipelines, stage, files, outcome>>

\* Mutant of CheckClosed: process does not look at _closed.
CheckClosedNever ==
  /\ HereIs("check")
  /\ Goto("pipeline", "open")
  /\ UNCHANGED <<configuration, pipelines, stage, files, outcome>>

CheckClosed ==
  /\ HereIs("check")
  /\ IF stage[Here].closed THEN Rest("pipeline") ELSE Goto("pipeline", "open")
  /\ UNCHANGED <<configuration, pipelines, stage, files, outcome>>

\* Mode "wb" truncates what is there.
EnsureOpen ==
  /\ HereIs("open")
  /\ IF stage[Here].file # "none"
     THEN UNCHANGED <<stage, partial>>
     ELSE /\ stage' = [stage EXCEPT ![Here] = [@ EXCEPT !.file = "partial", !.writer = TRUE]]
          /\ partial' = [partial EXCEPT ![stage[Here].path] = 0]
  /\ Goto("pipeline", "write")
  /\ UNCHANGED <<configuration, pipelines, final, outcome>>

\* The samples of this batch that still fit.
Fitting == IF Limited(Here) /\ job["pipeline"].n > Room(Here) THEN Room(Here) ELSE job["pipeline"].n

Write(k) ==
  LET r == stage[Here].path IN
  /\ stage' = [stage EXCEPT ![Here].written = @ + k]
  /\ partial' = IF stage[Here].file = "partial" THEN [partial EXCEPT ![r] = @ + k] ELSE partial
  /\ final' = IF stage[Here].file = "final" THEN [final EXCEPT ![r] = @ + k] ELSE final
  /\ IF Limited(Here) /\ k >= Room(Here) THEN Goto("pipeline", "finish") ELSE Rest("pipeline")

WriteSamples ==
  /\ HereIs("write")
  /\ \/ /\ Limited(Here) /\ Room(Here) <= 0
        /\ Goto("pipeline", "finish")
        /\ UNCHANGED <<stage, files>>
     \/ /\ Limited(Here) => Room(Here) > 0
        /\ Fitting > 0 => stage[Here].writer
        /\ Write(Fitting)
     \/ \* the stage fails: its writer is gone
        /\ Limited(Here) => Room(Here) > 0
        /\ Fitting > 0 /\ ~stage[Here].writer
        /\ Rest("pipeline")
        /\ UNCHANGED <<stage, files>>
  /\ UNCHANGED <<configuration, pipelines, outcome>>

Finalize ==
  /\ HereIs("finish")
  /\ IF stage[Here].published
     THEN Rest("pipeline") /\ UNCHANGED stage
     ELSE /\ stage' = [stage EXCEPT ![Here].published = TRUE]
          /\ job' = [job EXCEPT !["pipeline"] = [@ EXCEPT !.at = "close", !.after = "announce"]]
  /\ UNCHANGED <<configuration, pipelines, files, outcome>>

\* Mutant of Announce: the engine does not listen.
AnnounceInVain ==
  /\ HereIs("announce") /\ MayEdit("pipeline")
  /\ finished' = finished \cup {stage[Here].path}
  /\ Rest("pipeline")
  /\ UNCHANGED <<configuration, pipelines, stage, files, torn, edits>>

\* The event is delivered on this thread: the engine removes the pipeline.
Announce ==
  /\ HereIs("announce") /\ MayEdit("pipeline")
  /\ finished' = finished \cup {stage[Here].path}
  /\ IF cfg = None THEN Rest("pipeline") ELSE BeginEdit("pipeline", None)
  /\ UNCHANGED <<configuration, pipelines, stage, files, torn, edits>>

StepOf(t) ==
  \/ SwapConfig(t) \/ ReadConfig(t) \/ ApplyConfig(t) \/ ForgetPipeline(t)
  \/ BeginClose(t) \/ CloseWriter(t) \/ CloseFile(t) \/ RenamePartial(t)

StepOfProcess == CheckClosed \/ EnsureOpen \/ WriteSamples \/ Finalize \/ Announce

RecordingNext ==
  \/ StartRecording \/ StopRecording \/ EditAnother
  \/ \E t \in RecordThreads : StepOf(t)
  \/ \E n \in BatchSizes : TakeBatch(n)
  \/ StepOfProcess

\* RecordThreads run, and the device delivers a batch that is not empty again and
\* again.
RecordingFairness ==
  /\ \A t \in RecordThreads : WF_recordingVars(StepOf(t))
  /\ WF_recordingVars(StepOfProcess)
  /\ SF_recordingVars(\E n \in BatchSizes \ {0} : TakeBatch(n))

RecordingSpec == RecordingInit /\ [][RecordingNext]_recordingVars /\ RecordingFairness
------------------------------------------------------------------------------
(***************************************************************************)
(* Properties                                                              *)
(***************************************************************************)
RecordingTypeOK ==
  /\ cfg \in Recordings \cup {None} /\ started \in 0 .. MaxRecordings
  /\ limit \in [Recordings -> Limits]
  /\ installed \in Stages \cup {None} /\ created \in 0 .. MaxStages
  /\ stage \in [Stages -> [path : Recordings \cup {None}, written : Nat,
                          closed : BOOLEAN, published : BOOLEAN,
                          file : {"none", "partial", "final"}, writer : BOOLEAN]]
  /\ {partial, final} \subseteq [Recordings -> Nat \cup {NoFile}]
  /\ {finished, torn} \subseteq SUBSET Recordings /\ edits \in 0 .. MaxEdits

\* "Maintains the invariant that self.pipelines always reflects
\* self.config.pipelines" (device_context.py:54): whenever no edit is on its
\* way, a stage is live exactly when a recording is configured, and it is the
\* stage of that recording.
PipelinesReflectConfig ==
  (\A t \in RecordThreads : ~InEdit(t)) =>
    IF cfg = None THEN installed = None ELSE installed # None /\ stage[installed].path = cfg

\* A recording that is closed between two batches is kept whole: its file has
\* the samples the stage took, nothing is left under the partial name and no
\* handle stays open.  (RecordStage.close on one thread, process on the other.)
ClosedRecordingIsKept ==
  \A s \in Stages :
    LET r == stage[s].path IN
    stage[s].closed /\ r \notin torn /\ (\A t \in RecordThreads : ~(Closing(t) /\ job[t].stage = s)) =>
      /\ stage[s].file = "none" /\ partial[r] = NoFile
      /\ final[r] = stage[s].written \/ (stage[s].written = 0 /\ final[r] = NoFile)

\* A recording with a limit ends by itself: its entry leaves the configuration
\* and its stage the pipelines (RecordingFinishedEvent, whose handler removes the
\* pipeline on the pipeline thread).
LimitedRecordingEnds ==
  \A r \in Recordings :
    cfg = r /\ limit[r] # NoLimit ~> cfg # r /\ (installed = None \/ stage[installed].path # r)
==============================================================================
