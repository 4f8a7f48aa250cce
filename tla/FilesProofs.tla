----------------------------- MODULE FilesProofs ------------------------------
(* What the program keeps in files: Recording (entries and stages reflect each other, closed        *)
(* recordings are whole) and Persistence (why a file is torn, what is on its way to the disk,       *)
(* what an exit has saved). The two share no state.                                                 *)
EXTENDS Recording, Persistence, SequenceTheorems, TLAPS

-------------------------------------------------------------------------------
(* Recording: the invariant.                                                 *)

Made == 1 .. created
At(t, places) == job[t].at \in places
ClosingPlaces == {"close", "flush", "shut", "rename"}
EditPlaces == {"swap", "sync", "apply", "forget"}
ProcessPlaces == {"check", "open", "write", "finish", "announce"}

\* Where a thread can be, and with what.
Jobs == [at : {"idle"} \cup EditPlaces \cup ClosingPlaces \cup ProcessPlaces,
         after : {"idle", "forget", "announce"},
         rec : Recordings \cup {None}, stage : Stages \cup {None}, n : Nat]

PlacesOK ==
  /\ job \in [RecordThreads -> Jobs]
  /\ \A t \in RecordThreads :
       /\ Closing(t) => job[t].stage \in Made /\ job[t].after \in {"forget", "announce"}
       /\ At(t, ProcessPlaces) => job[t].stage \in Made
  /\ ~At("ui", ProcessPlaces) /\ (Closing("ui") => job["ui"].after = "forget")

\* Every stage records something of its own.
StagesOK ==
  /\ \A s \in Made : stage[s].path \in 1 .. started
  /\ \A s \in Stages \ Made : stage[s] = NewStage(None)
  /\ \A s \in Made, q \in Made : stage[s].path = stage[q].path => s = q
  /\ installed \in 0 .. created /\ cfg \in 0 .. started

\* A handle is of a file that exists.
HandlesOK ==
  \A s \in Made : /\ stage[s].file = "partial" => partial[stage[s].path] \in Nat
                  /\ stage[s].file = "final" => final[stage[s].path] \in Nat

Reflect == IF cfg = None THEN installed = None ELSE installed # None /\ stage[installed].path = cfg
Unused(r) == r \in 1 .. started /\ \A s \in Made : stage[s].path # r

\* What holds in the middle of an edit: the configuration is ahead of the stages.
EditOK(t) ==
  /\ At(t, {"swap"}) =>
       Reflect /\ (job[t].rec \in {None, cfg} \/ (cfg = None /\ Unused(job[t].rec)))
  /\ At(t, {"sync", "apply"}) => Reflect \/ cfg = None \/ (installed = None /\ Unused(cfg))
  /\ At(t, {"apply"}) => job[t].rec = cfg
  /\ (Closing(t) /\ job[t].after = "forget") \/ At(t, {"forget"}) =>
       cfg = None /\ installed # None /\ (Closing(t) => job[t].stage = installed)

EditsOK ==
  /\ ~(InEdit("ui") /\ InEdit("pipeline"))
  /\ ~InEdit("ui") /\ ~InEdit("pipeline") => Reflect
  /\ \A t \in RecordThreads : EditOK(t)

ConfigInv == RecordingTypeOK /\ PlacesOK /\ StagesOK /\ HandlesOK /\ EditsOK

LEMMA ConfigInit == RecordingInit => ConfigInv
<1> USE RecordingAssumption
<1> SUFFICES ASSUME RecordingInit PROVE ConfigInv
  OBVIOUS
<1>1. RecordingTypeOK
  BY DEF RecordingInit, RecordingTypeOK, NewStage, Recordings, Stages, None, NoFile
<1>2. \A t \in RecordThreads : job[t] = Resting
  BY DEF RecordingInit
<1>3. Resting \in Jobs /\ Resting.at = "idle"
  BY DEF Resting, Jobs, None
<1>4. PlacesOK
  BY <1>2, <1>3 DEF RecordingInit, PlacesOK, At, Closing, RecordThreads, ProcessPlaces
<1>5. StagesOK /\ HandlesOK
  BY DEF RecordingInit, StagesOK, HandlesOK, Made, None
<1>6. EditsOK
  BY <1>2, <1>3 DEF RecordingInit, EditsOK, EditOK, Editing, InEdit, At, Closing, Reflect, None, RecordThreads
<1> QED
  BY <1>1, <1>4, <1>5, <1>6 DEF ConfigInv

\* One thread's step.
LEMMA OneJob ==
  ASSUME job \in [RecordThreads -> Jobs], NEW t \in RecordThreads, NEW x \in Jobs,
         job' = [job EXCEPT ![t] = x]
  PROVE  /\ job' \in [RecordThreads -> Jobs] /\ job'[t] = x
         /\ \A u \in RecordThreads \ {t} : job'[u] = job[u]
OBVIOUS

\* Going on to another place.
LEMMA OnePlace ==
  ASSUME job \in [RecordThreads -> Jobs], NEW t \in RecordThreads, NEW place,
         place \in {"idle"} \cup EditPlaces \cup ClosingPlaces \cup ProcessPlaces,
         Goto(t, place)
  PROVE  /\ job' \in [RecordThreads -> Jobs]
         /\ job'[t].at = place /\ job'[t].after = job[t].after /\ job'[t].rec = job[t].rec
         /\ job'[t].stage = job[t].stage /\ job'[t].n = job[t].n
         /\ \A u \in RecordThreads \ {t} : job'[u] = job[u]
<1>1. PICK x : x = [job[t] EXCEPT !.at = place]
  OBVIOUS
<1>2. job[t] \in Jobs
  OBVIOUS
<1>3. /\ x \in Jobs /\ x.at = place /\ x.after = job[t].after /\ x.rec = job[t].rec
      /\ x.stage = job[t].stage /\ x.n = job[t].n
  BY <1>1, <1>2 DEF Jobs
<1>4. job' = [job EXCEPT ![t] = x]
  BY <1>1 DEF Goto
<1> QED
  BY <1>3, <1>4, OneJob

LEMMA RestIsAJob == Resting \in Jobs /\ Resting.at = "idle" /\ Resting.n = 0
BY DEF Resting, Jobs, None

\* One thread's step keeps the places.
LEMMA OnePlaceOK ==
  ASSUME PlacesOK, Made \subseteq Made', NEW t \in RecordThreads,
         job' \in [RecordThreads -> Jobs],
         \A u \in RecordThreads \ {t} : job'[u] = job[u],
         job'[t].at \in ClosingPlaces => /\ job'[t].stage \in Made'
                                        /\ job'[t].after \in {"forget", "announce"}
                                        /\ (t = "ui" => job'[t].after = "forget"),
         job'[t].at \in ProcessPlaces => job'[t].stage \in Made' /\ t # "ui"
  PROVE  PlacesOK'
<1>1. ASSUME NEW u \in RecordThreads
      PROVE  /\ Closing(u)' => job'[u].stage \in Made' /\ job'[u].after \in {"forget", "announce"}
             /\ At(u, ProcessPlaces)' => job'[u].stage \in Made'
             /\ u = "ui" => ~At(u, ProcessPlaces)' /\ (Closing(u)' => job'[u].after = "forget")
  <2>1. CASE u = t
    BY <2>1 DEF Closing, At, ClosingPlaces
  <2>2. CASE u # t
    BY <2>2 DEF PlacesOK, Closing, At, ClosingPlaces
  <2> QED
    BY <2>1, <2>2
<1>2. "ui" \in RecordThreads
  BY DEF RecordThreads
<1> QED
  BY <1>1, <1>2 DEF PlacesOK

\* A step that is no part of an edit, while the stages keep their recordings.
LEMMA OutsideEdits ==
  ASSUME EditsOK, StagesOK, UNCHANGED <<cfg, installed, created, started>>,
         \A s \in Made : stage'[s].path = stage[s].path,
         NEW t \in RecordThreads, \A u \in RecordThreads \ {t} : job'[u] = job[u],
         ~InEdit(t), ~InEdit(t)'
  PROVE  EditsOK'
<1>1. Reflect' = Reflect
  BY DEF Reflect, StagesOK, Made, None
<1>2. \A r : Unused(r)' = Unused(r)
  BY DEF Unused, Made
<1>3. EditOK(t)'
  BY DEF EditOK, InEdit, Editing, Closing, At, ClosingPlaces
<1>4. ASSUME NEW u \in RecordThreads \ {t} PROVE EditOK(u)' /\ InEdit(u)' = InEdit(u)
  <2>1. EditOK(u)
    BY DEF EditsOK
  <2> QED
    BY <1>1, <1>2, <2>1, <1>4 DEF EditOK, InEdit, Editing, Closing, At
<1> QED
  BY <1>1, <1>3, <1>4 DEF EditsOK, RecordThreads

\* A step of a close.
LEMMA ClosingEdits ==
  ASSUME EditsOK, StagesOK, UNCHANGED <<cfg, installed, created, started>>,
         \A s \in Made : stage'[s].path = stage[s].path,
         NEW t \in RecordThreads, \A u \in RecordThreads \ {t} : job'[u] = job[u],
         Closing(t), job[t].after \in {"forget", "announce"},
         job'[t].after = job[t].after, job'[t].stage = job[t].stage,
         job'[t].at \in ClosingPlaces \cup {job[t].after}
  PROVE  EditsOK'
<1>1. Reflect' = Reflect
  BY DEF Reflect, StagesOK, Made, None
<1>2. \A r : Unused(r)' = Unused(r)
  BY DEF Unused, Made
<1>3. CASE job[t].after = "announce"
  <2>1. ~InEdit(t) /\ ~InEdit(t)'
    BY <1>3 DEF InEdit, Editing, Closing, ClosingPlaces
  <2> QED
    BY <2>1, OutsideEdits
<1>4. CASE job[t].after = "forget"
  <2>1. InEdit(t) /\ InEdit(t)'
    BY <1>4 DEF InEdit, Editing, Closing, ClosingPlaces
  <2>2. EditOK(t)'
    BY <1>4 DEF EditsOK, EditOK, Closing, At, ClosingPlaces
  <2>3. ASSUME NEW u \in RecordThreads \ {t} PROVE EditOK(u)' /\ InEdit(u)' = InEdit(u)
    <3>1. EditOK(u)
      BY DEF EditsOK
    <3> QED
      BY <1>1, <1>2, <2>3, <3>1 DEF EditOK, InEdit, Editing, Closing, At
  <2> QED
    BY <2>1, <2>2, <2>3 DEF EditsOK, RecordThreads
<1> QED
  BY <1>3, <1>4

USE RecordingAssumption

\* The beginning of an edit, on the interface's thread or in the handler of the announcement.
LEMMA BeginEditConfig ==
  ASSUME ConfigInv, ~Overlap, NEW t \in RecordThreads, ~InEdit(t), MayEdit(t),
         NEW r \in Recordings \cup {None}, BeginEdit(t, r), started' \in {started, started + 1},
         \/ r \in {None, cfg} /\ started' = started
         \/ cfg = None /\ r = started + 1 /\ started' = r,
         UNCHANGED <<cfg, installed, created, stage, partial, final>>, RecordingTypeOK'
  PROVE  ConfigInv'
<1> DEFINE x == [Resting EXCEPT !.at = "swap", !.rec = r]
<1>1. x \in Jobs /\ x.at = "swap" /\ x.rec = r
  BY DEF Resting, Jobs, None, EditPlaces
<1>2. job' = [job EXCEPT ![t] = x]
  BY DEF BeginEdit
<1> HIDE DEF x
<1>3. /\ job' \in [RecordThreads -> Jobs] /\ job'[t].at = "swap" /\ job'[t].rec = r
      /\ \A u \in RecordThreads \ {t} : job'[u] = job[u]
  BY <1>1, <1>2, OneJob DEF ConfigInv, PlacesOK
<1>4. PlacesOK'
  <2>1. Made' = Made
    BY DEF Made
  <2> QED
    BY <1>3, <2>1, OnePlaceOK DEF ConfigInv, ProcessPlaces, ClosingPlaces
<1>5. started' \in Nat /\ started \in Nat
  BY DEF ConfigInv, RecordingTypeOK
<1>6. StagesOK' /\ HandlesOK'
  BY <1>5 DEF ConfigInv, StagesOK, HandlesOK, Made
<1>7. EditsOK'
  <2>1. \A u \in RecordThreads \ {t} : ~InEdit(u) /\ ~InEdit(u)'
    BY <1>3 DEF MayEdit, InEdit, Editing, Closing
  <2>2. Reflect /\ Reflect'
    BY <2>1 DEF ConfigInv, EditsOK, RecordThreads, Reflect
  <2>3. r = started + 1 /\ started' = r => Unused(r)'
    BY <1>5 DEF Unused, ConfigInv, StagesOK, Made
  <2>4. EditOK(t)'
    BY <1>3, <2>2, <2>3 DEF EditOK, At, Closing
  <2>5. \A u \in RecordThreads \ {t} : EditOK(u)'
    BY <2>1 DEF EditOK, At, InEdit, Editing
  <2> QED
    BY <2>1, <2>4, <2>5, <1>3 DEF EditsOK, RecordThreads, InEdit, Editing
<1> QED
  BY <1>4, <1>6, <1>7 DEF ConfigInv

LEMMA UserConfig ==
  ASSUME ConfigInv, ~Overlap, StartRecording \/ StopRecording \/ EditAnother
  PROVE  ConfigInv'
<1>1. /\ "ui" \in RecordThreads /\ ~InEdit("ui") /\ MayEdit("ui")
      /\ UNCHANGED <<cfg, installed, created, stage, partial, final>>
  BY DEF StartRecording, StopRecording, EditAnother, UserEdits, RecordThreads, InEdit, Editing,
         Closing, pipelines, files
<1>2. RecordingTypeOK'
  BY DEF StartRecording, StopRecording, EditAnother, UserEdits, ConfigInv, RecordingTypeOK,
         pipelines, files
<1>3. CASE StartRecording
  <2>1. /\ cfg = None /\ started' = started + 1 /\ BeginEdit("ui", started + 1)
        /\ started + 1 \in Recordings
    BY <1>3 DEF StartRecording, ConfigInv, RecordingTypeOK, Recordings
  <2> QED
    BY <1>1, <1>2, <2>1, BeginEditConfig
<1>4. CASE StopRecording
  BY <1>1, <1>2, <1>4, BeginEditConfig DEF StopRecording
<1>5. CASE EditAnother
  <2>1. cfg \in Recordings \cup {None}
    BY DEF ConfigInv, RecordingTypeOK
  <2> QED
    BY <1>1, <1>2, <1>5, <2>1, BeginEditConfig DEF EditAnother
<1> QED
  BY <1>3, <1>4, <1>5

LEMMA SwapConfigConfig ==
  ASSUME ConfigInv, NEW t \in RecordThreads, SwapConfig(t) PROVE ConfigInv'
<1>1. /\ job[t].at = "swap" /\ cfg' = job[t].rec /\ Goto(t, "sync")
      /\ UNCHANGED <<limit, started, installed, created, stage, partial, final, finished, torn, edits>>
  BY DEF SwapConfig, pipelines, files, outcome
<1>2. /\ job' \in [RecordThreads -> Jobs] /\ job'[t].at = "sync"
      /\ \A u \in RecordThreads \ {t} : job'[u] = job[u]
  BY <1>1, OnePlace DEF ConfigInv, PlacesOK, EditPlaces
<1>3. job[t] \in Jobs /\ InEdit(t) /\ EditOK(t) /\ Made' = Made
  BY <1>1 DEF ConfigInv, PlacesOK, EditsOK, InEdit, Editing, Made
<1>4. RecordingTypeOK'
  BY <1>1, <1>3 DEF ConfigInv, RecordingTypeOK, Jobs
<1>5. PlacesOK'
  BY <1>2, <1>3, OnePlaceOK DEF ConfigInv, ProcessPlaces, ClosingPlaces
<1>6. Reflect /\ (job[t].rec \in {None, cfg} \/ (cfg = None /\ Unused(job[t].rec)))
  BY <1>1, <1>3 DEF EditOK, At
<1>7. StagesOK' /\ HandlesOK'
  BY <1>1, <1>3, <1>6 DEF ConfigInv, StagesOK, HandlesOK, Unused, Made, None, RecordingTypeOK
<1>8. EditsOK'
  <2>1. \A u \in RecordThreads \ {t} : ~InEdit(u) /\ ~InEdit(u)' /\ EditOK(u)'
    BY <1>2, <1>3 DEF ConfigInv, EditsOK, RecordThreads, EditOK, At, InEdit, Editing, Closing
  <2>2. (Reflect \/ cfg = None \/ (installed = None /\ Unused(cfg)))'
    BY <1>1, <1>3, <1>6 DEF Reflect, Unused, None
  <2>3. EditOK(t)'
    BY <1>2, <2>2 DEF EditOK, At, Closing
  <2> QED
    BY <1>2, <2>1, <2>3 DEF EditsOK, RecordThreads, InEdit, Editing
<1> QED
  BY <1>4, <1>5, <1>7, <1>8 DEF ConfigInv

LEMMA ReadConfigConfig ==
  ASSUME ConfigInv, NEW t \in RecordThreads, ReadConfig(t) PROVE ConfigInv'
<1> DEFINE x == [job[t] EXCEPT !.at = "apply", !.rec = cfg]
<1>1. /\ job[t].at = "sync" /\ job' = [job EXCEPT ![t] = x]
      /\ UNCHANGED <<cfg, limit, started, installed, created, stage, partial, final, finished, torn, edits>>
  BY DEF ReadConfig, configuration, pipelines, files, outcome
<1>2. job[t] \in Jobs /\ InEdit(t) /\ EditOK(t) /\ Made' = Made
  BY <1>1 DEF ConfigInv, PlacesOK, EditsOK, InEdit, Editing, Made
<1>3. x \in Jobs /\ x.at = "apply" /\ x.rec = cfg
  BY <1>2 DEF Jobs, EditPlaces, ConfigInv, RecordingTypeOK
<1> HIDE DEF x
<1>4. /\ job' \in [RecordThreads -> Jobs] /\ job'[t].at = "apply" /\ job'[t].rec = cfg
      /\ \A u \in RecordThreads \ {t} : job'[u] = job[u]
  BY <1>1, <1>3, OneJob DEF ConfigInv, PlacesOK
<1>5. RecordingTypeOK' /\ StagesOK' /\ HandlesOK'
  BY <1>1, <1>2 DEF ConfigInv, RecordingTypeOK, StagesOK, HandlesOK
<1>6. PlacesOK'
  BY <1>2, <1>4, OnePlaceOK DEF ConfigInv, ProcessPlaces, ClosingPlaces
<1>7. EditsOK'
  <2>1. \A u \in RecordThreads \ {t} : ~InEdit(u) /\ ~InEdit(u)' /\ EditOK(u)'
    BY <1>2, <1>4 DEF ConfigInv, EditsOK, RecordThreads, EditOK, At, InEdit, Editing, Closing
  <2>2. (Reflect \/ cfg = None \/ (installed = None /\ Unused(cfg)))'
    BY <1>1, <1>2 DEF Reflect, Unused, EditOK, At
  <2>3. EditOK(t)'
    BY <1>1, <1>4, <2>2 DEF EditOK, At, Closing
  <2> QED
    BY <1>4, <2>1, <2>3 DEF EditsOK, RecordThreads, InEdit, Editing
<1> QED
  BY <1>5, <1>6, <1>7 DEF ConfigInv

LEMMA ApplyConfigConfig ==
  ASSUME ConfigInv, NEW t \in RecordThreads, ApplyConfig(t) PROVE ConfigInv'
<1>1. /\ job[t].at = "apply"
      /\ UNCHANGED <<cfg, limit, started, partial, final, finished, torn, edits>>
  BY DEF ApplyConfig, configuration, files, outcome
<1>2. job[t] \in Jobs /\ InEdit(t) /\ EditOK(t) /\ job[t].rec = cfg
  BY <1>1 DEF ConfigInv, PlacesOK, EditsOK, EditOK, At, InEdit, Editing
<1>3. Reflect \/ cfg = None \/ (installed = None /\ Unused(cfg))
  BY <1>1, <1>2 DEF EditOK, At
<1>4. \A u \in RecordThreads \ {t} : ~InEdit(u)
  BY <1>2 DEF ConfigInv, EditsOK, RecordThreads
<1>5. ASSUME \A u \in RecordThreads \ {t} : job'[u] = job[u], ~InEdit(t)', Reflect'
      PROVE  EditsOK'
  <2>1. \A u \in RecordThreads : ~InEdit(u)'
    BY <1>4, <1>5 DEF InEdit, Editing, Closing
  <2>2. \A u \in RecordThreads : EditOK(u)'
    BY <2>1 DEF EditOK, InEdit, Editing, At
  <2> QED
    BY <1>5, <2>1, <2>2 DEF EditsOK, RecordThreads
<1>6. ASSUME Rest(t)
      PROVE  /\ job' \in [RecordThreads -> Jobs] /\ job'[t].at = "idle"
             /\ \A u \in RecordThreads \ {t} : job'[u] = job[u]
  BY <1>6, OneJob, RestIsAJob DEF Rest, ConfigInv, PlacesOK
<1>7. CASE /\ (job[t].rec = None) = (installed = None) /\ Rest(t)
           /\ UNCHANGED <<installed, created, stage>>
  <2>1. RecordingTypeOK' /\ StagesOK' /\ HandlesOK' /\ Made' = Made
    BY <1>1, <1>7 DEF ConfigInv, RecordingTypeOK, StagesOK, HandlesOK, Made
  <2>2. PlacesOK'
    BY <1>6, <1>7, <2>1, OnePlaceOK DEF ConfigInv, ProcessPlaces, ClosingPlaces
  <2>3. Reflect'
    BY <1>1, <1>2, <1>3, <1>7 DEF Reflect
  <2>4. ~InEdit(t)'
    BY <1>6, <1>7 DEF InEdit, Editing, Closing
  <2> QED
    BY <1>5, <1>6, <1>7, <2>1, <2>2, <2>3, <2>4 DEF ConfigInv
<1>8. CASE /\ job[t].rec # None /\ installed = None /\ created < MaxStages
           /\ created' = created + 1 /\ installed' = created + 1
           /\ stage' = [stage EXCEPT ![created + 1] = NewStage(job[t].rec)]
           /\ Rest(t)
  <2>1. created \in Nat /\ created + 1 \in Stages /\ MaxStages \in Nat /\ cfg \in Recordings
    BY <1>2, <1>8 DEF ConfigInv, RecordingTypeOK, Stages
  <2>2. /\ \A s \in Stages \ {created + 1} : stage'[s] = stage[s]
        /\ stage'[created + 1] = NewStage(cfg)
        /\ Made' = Made \cup {created + 1} /\ Made \subseteq Stages \ {created + 1}
    BY <1>2, <1>8, <2>1 DEF ConfigInv, RecordingTypeOK, Made, Stages
  <2>3. NewStage(cfg).path = cfg /\ NewStage(cfg).file = "none"
        /\ NewStage(cfg) \in [path : Recordings \cup {None}, written : Nat,
                          closed : BOOLEAN, published : BOOLEAN,
                          file : {"none", "partial", "final"}, writer : BOOLEAN]
    BY <2>1 DEF NewStage
  <2>4. RecordingTypeOK'
    BY <1>1, <1>2, <1>8, <2>1, <2>3 DEF ConfigInv, RecordingTypeOK, Stages
  <2>5. Unused(cfg)
    BY <1>2, <1>3, <1>8 DEF Reflect
  <2>6. StagesOK'
    <3>1. \A s \in Made' : stage'[s].path \in 1 .. started'
      BY <1>1, <2>2, <2>3, <2>5 DEF ConfigInv, StagesOK, Unused
    <3>2. \A s \in Stages \ Made' : stage'[s] = NewStage(None)
      BY <2>2 DEF ConfigInv, StagesOK
    <3>3. \A s \in Made', q \in Made' : stage'[s].path = stage'[q].path => s = q
      BY <2>2, <2>3, <2>5 DEF ConfigInv, StagesOK, Unused
    <3>4. installed' \in 0 .. created' /\ cfg' \in 0 .. started'
      BY <1>1, <1>8, <2>1 DEF ConfigInv, StagesOK
    <3> QED
      BY <3>1, <3>2, <3>3, <3>4 DEF StagesOK
  <2>7. HandlesOK'
    BY <1>1, <2>2, <2>3 DEF ConfigInv, HandlesOK
  <2>8. PlacesOK'
    BY <1>6, <1>8, <2>2, OnePlaceOK DEF ConfigInv, ProcessPlaces, ClosingPlaces
  <2>9. Reflect'
    BY <1>1, <1>2, <1>8, <2>1, <2>2, <2>3 DEF Reflect, None
  <2>10. ~InEdit(t)'
    BY <1>6, <1>8 DEF InEdit, Editing, Closing
  <2> QED
    BY <1>5, <1>6, <1>8, <2>4, <2>6, <2>7, <2>8, <2>9, <2>10 DEF ConfigInv
<1>9. CASE /\ job[t].rec = None /\ installed # None
           /\ job' = [job EXCEPT ![t].at = "close", ![t].after = "forget", ![t].stage = installed]
           /\ UNCHANGED <<installed, created, stage>>
  <2> DEFINE x == [job[t] EXCEPT !.at = "close", !.after = "forget", !.stage = installed]
  <2>1. job' = [job EXCEPT ![t] = x]
    BY <1>9
  <2>2. x \in Jobs /\ x.at = "close" /\ x.after = "forget" /\ x.stage = installed
    BY <1>2 DEF Jobs, ClosingPlaces, ConfigInv, RecordingTypeOK
  <2> HIDE DEF x
  <2>3. /\ job' \in [RecordThreads -> Jobs] /\ job'[t] = x
        /\ \A u \in RecordThreads \ {t} : job'[u] = job[u]
    BY <2>1, <2>2, OneJob DEF ConfigInv, PlacesOK
  <2>4. RecordingTypeOK' /\ StagesOK' /\ HandlesOK' /\ Made' = Made /\ installed \in Made
    BY <1>1, <1>9 DEF ConfigInv, RecordingTypeOK, StagesOK, HandlesOK, Made, None
  <2>5. PlacesOK'
    BY <2>2, <2>3, <2>4, OnePlaceOK DEF ConfigInv, ProcessPlaces, ClosingPlaces
  <2>6. EditOK(t)' /\ InEdit(t)'
    BY <1>1, <1>2, <1>9, <2>2, <2>3 DEF EditOK, At, Closing, InEdit
  <2>7. \A u \in RecordThreads \ {t} : ~InEdit(u)' /\ EditOK(u)'
    BY <1>4, <2>3 DEF InEdit, Editing, Closing, EditOK, At
  <2> QED
    BY <2>4, <2>5, <2>6, <2>7 DEF ConfigInv, EditsOK, RecordThreads
<1> QED
  BY <1>1, <1>7, <1>8, <1>9 DEF ApplyConfig, pipelines

LEMMA ForgetPipelineConfig ==
  ASSUME ConfigInv, NEW t \in RecordThreads, ForgetPipeline(t) PROVE ConfigInv'
<1>1. /\ job[t].at = "forget" /\ installed' = None /\ Rest(t)
      /\ UNCHANGED <<cfg, limit, started, created, stage, partial, final, finished, torn, edits>>
  BY DEF ForgetPipeline, configuration, files, outcome
<1>2. InEdit(t) /\ cfg = None
  BY <1>1 DEF ConfigInv, EditsOK, EditOK, At, InEdit, Editing
<1>3. /\ job' \in [RecordThreads -> Jobs] /\ job'[t].at = "idle"
      /\ \A u \in RecordThreads \ {t} : job'[u] = job[u]
  BY <1>1, OneJob, RestIsAJob DEF Rest, ConfigInv, PlacesOK
<1>4. RecordingTypeOK' /\ StagesOK' /\ HandlesOK' /\ Made' = Made
  BY <1>1 DEF ConfigInv, RecordingTypeOK, StagesOK, HandlesOK, Made, None
<1>5. PlacesOK'
  BY <1>3, <1>4, OnePlaceOK DEF ConfigInv, ProcessPlaces, ClosingPlaces
<1>6. \A u \in RecordThreads : ~InEdit(u)'
  BY <1>2, <1>3 DEF ConfigInv, EditsOK, RecordThreads, InEdit, Editing, Closing
<1>7. \A u \in RecordThreads : EditOK(u)'
  BY <1>6 DEF EditOK, InEdit, Editing, At
<1>8. Reflect'
  BY <1>1, <1>2 DEF Reflect
<1> QED
  BY <1>4, <1>5, <1>6, <1>7, <1>8 DEF ConfigInv, EditsOK, RecordThreads

\* A step that changes at most one stage, and not what it records.
LEMMA OneStage ==
  ASSUME RecordingTypeOK, StagesOK, UNCHANGED <<cfg, installed, created, started>>, NEW q \in Made,
         NEW x, stage' = [stage EXCEPT ![q] = x], x.path = stage[q].path
  PROVE  /\ StagesOK' /\ \A s \in Made : stage'[s].path = stage[s].path
         /\ stage'[q] = x /\ \A s \in Stages \ {q} : stage'[s] = stage[s]
         /\ Made' = Made /\ Made \subseteq Stages
<1>1. Made' = Made /\ Made \subseteq Stages
  BY DEF Made, Stages, RecordingTypeOK
<1>2. stage'[q] = x /\ \A s \in Stages \ {q} : stage'[s] = stage[s]
  BY <1>1 DEF RecordingTypeOK
<1>3. \A s \in Made : stage'[s].path = stage[s].path
  BY <1>1, <1>2
<1>4. StagesOK'
  BY <1>1, <1>2, <1>3 DEF StagesOK
<1> QED
  BY <1>1, <1>2, <1>3, <1>4

Records == [path : Recordings \cup {None}, written : Nat, closed : BOOLEAN, published : BOOLEAN,
            file : {"none", "partial", "final"}, writer : BOOLEAN]

LEMMA BeginCloseConfig ==
  ASSUME ConfigInv, NEW t \in RecordThreads, BeginClose(t) PROVE ConfigInv'
<1> DEFINE q == job[t].stage
           x == [stage[q] EXCEPT !.closed = TRUE]
<1>1. /\ job[t].at = "close"
      /\ UNCHANGED <<cfg, limit, started, installed, created, partial, final, finished, edits>>
      /\ \/ Goto(t, job[t].after) /\ UNCHANGED stage
         \/ Goto(t, "flush") /\ stage' = [stage EXCEPT ![q] = x]
      /\ torn' \in {torn, torn \cup {stage[q].path}}
  BY DEF BeginClose, configuration, pipelines, files
<1>2. q \in Made /\ Made \subseteq Stages /\ job[t].after \in {"forget", "announce"} /\ Closing(t)
      /\ (t = "ui" => job[t].after = "forget")
  BY <1>1 DEF ConfigInv, PlacesOK, Closing, Made, Stages, RecordingTypeOK
<1>3. stage[q] \in Records /\ stage[q].path \in Recordings
  <2>1. stage[q] \in Records /\ stage[q].path \in 1 .. started
    BY <1>2 DEF ConfigInv, RecordingTypeOK, StagesOK, Records
  <2> QED
    BY <2>1 DEF ConfigInv, RecordingTypeOK, Recordings
<1>4. x \in Records /\ x.path = stage[q].path /\ x.file = stage[q].file
  BY <1>3 DEF Records
<1> HIDE DEF x
<1>5. /\ job' \in [RecordThreads -> Jobs] /\ job'[t].at \in {"flush", job[t].after}
      /\ job'[t].after = job[t].after /\ job'[t].stage = q
      /\ \A u \in RecordThreads \ {t} : job'[u] = job[u]
  BY <1>1, <1>2, OnePlace DEF ConfigInv, PlacesOK, EditPlaces, ClosingPlaces, ProcessPlaces
<1>6. RecordingTypeOK'
  BY <1>1, <1>2, <1>3, <1>4 DEF ConfigInv, RecordingTypeOK, Records
<1>7. /\ StagesOK' /\ \A s \in Made : stage'[s].path = stage[s].path
      /\ \A s \in Made : stage'[s].file = stage[s].file
      /\ Made' = Made
  BY <1>1, <1>2, <1>4, OneStage DEF ConfigInv, Made, StagesOK
<1>8. HandlesOK'
  BY <1>1, <1>7 DEF ConfigInv, HandlesOK
<1> HIDE DEF q
<1>9. PlacesOK'
  BY <1>2, <1>5, <1>7, OnePlaceOK DEF ConfigInv, ProcessPlaces, ClosingPlaces
<1>10. EditsOK'
  BY <1>1, <1>2, <1>5, <1>7, ClosingEdits DEF ConfigInv, ClosingPlaces, q
<1> QED
  BY <1>6, <1>7, <1>8, <1>9, <1>10 DEF ConfigInv

LEMMA CloseHandlesConfig ==
  ASSUME ConfigInv, NEW t \in RecordThreads, CloseWriter(t) \/ CloseFile(t) PROVE ConfigInv'
<1> DEFINE q == job[t].stage
<1>1. PICK x : /\ x = [stage[q] EXCEPT !.writer = FALSE] \/ x = [stage[q] EXCEPT !.file = "none"]
               /\ stage' = [stage EXCEPT ![q] = x]
  BY DEF CloseWriter, CloseFile
<1>2. /\ job[t].at \in {"flush", "shut"} /\ (Goto(t, "shut") \/ Goto(t, "rename"))
      /\ UNCHANGED <<cfg, limit, started, installed, created, partial, final, finished, torn, edits>>
  BY DEF CloseWriter, CloseFile, configuration, pipelines, files, outcome
<1>3. q \in Made /\ Made \subseteq Stages /\ job[t].after \in {"forget", "announce"} /\ Closing(t)
      /\ (t = "ui" => job[t].after = "forget")
  BY <1>2 DEF ConfigInv, PlacesOK, Closing, Made, Stages, RecordingTypeOK
<1>4. stage[q] \in Records
  BY <1>3 DEF ConfigInv, RecordingTypeOK, Records
<1>5. x \in Records /\ x.path = stage[q].path /\ x.file \in {stage[q].file, "none"}
  BY <1>1, <1>4 DEF Records
<1>6. /\ job' \in [RecordThreads -> Jobs] /\ job'[t].at \in {"shut", "rename"}
      /\ job'[t].after = job[t].after /\ job'[t].stage = q
      /\ \A u \in RecordThreads \ {t} : job'[u] = job[u]
  BY <1>2, OnePlace DEF ConfigInv, PlacesOK, ClosingPlaces
<1>7. RecordingTypeOK'
  BY <1>1, <1>2, <1>3, <1>5 DEF ConfigInv, RecordingTypeOK, Records
<1>8. /\ StagesOK' /\ \A s \in Made : stage'[s].path = stage[s].path
      /\ \A s \in Made : stage'[s].file \in {stage[s].file, "none"}
      /\ Made' = Made
  <2>1. RecordingTypeOK /\ StagesOK /\ stage' = [stage EXCEPT ![q] = x]
    BY <1>1 DEF ConfigInv
  <2> HIDE DEF q
  <2>2. /\ StagesOK' /\ \A s \in Made : stage'[s].path = stage[s].path
        /\ stage'[q] = x /\ (\A s \in Stages \ {q} : stage'[s] = stage[s]) /\ Made' = Made
    BY <1>2, <1>3, <1>5, <2>1, OneStage
  <2>3. \A s \in Made : stage'[s].file \in {stage[s].file, "none"}
    BY <1>3, <1>5, <2>2
  <2> QED
    BY <1>3, <2>2, <2>3 DEF Made
<1>9. HandlesOK'
  BY <1>2, <1>8 DEF ConfigInv, HandlesOK
<1> HIDE DEF q
<1>10. PlacesOK'
  BY <1>3, <1>6, <1>8, OnePlaceOK DEF ConfigInv, ProcessPlaces, ClosingPlaces
<1>11. EditsOK'
  BY <1>2, <1>3, <1>6, <1>8, ClosingEdits DEF ConfigInv, ClosingPlaces, q
<1> QED
  BY <1>7, <1>8, <1>9, <1>10, <1>11 DEF ConfigInv

LEMMA RenamePartialConfig ==
  ASSUME ConfigInv, NEW t \in RecordThreads, RenamePartial(t) PROVE ConfigInv'
<1> DEFINE r == stage[job[t].stage].path
<1>1. /\ job[t].at = "rename" /\ Goto(t, job[t].after)
      /\ UNCHANGED <<cfg, limit, started, installed, created, finished, torn, edits>>
      /\ \/ partial[r] = NoFile /\ UNCHANGED <<stage, partial, final>>
         \/ /\ partial[r] # NoFile
            /\ final' = [final EXCEPT ![r] = partial[r]]
            /\ partial' = [partial EXCEPT ![r] = NoFile]
            /\ stage' = [s \in Stages |->
                           IF stage[s].path = r /\ stage[s].file = "partial"
                           THEN [stage[s] EXCEPT !.file = "final"] ELSE stage[s]]
  BY DEF RenamePartial, configuration, pipelines, files, outcome
<1>2. job[t].stage \in Made /\ Made \subseteq Stages /\ Made' = Made
      /\ job[t].after \in {"forget", "announce"} /\ Closing(t)
      /\ (t = "ui" => job[t].after = "forget")
  BY <1>1 DEF ConfigInv, PlacesOK, Closing, Made, Stages, RecordingTypeOK
<1>3. r \in Recordings
  <2>1. r \in 1 .. started
    BY <1>2 DEF ConfigInv, StagesOK
  <2> QED
    BY <2>1 DEF ConfigInv, RecordingTypeOK, Recordings
<1>4. /\ job' \in [RecordThreads -> Jobs] /\ job'[t].at = job[t].after
      /\ job'[t].after = job[t].after /\ job'[t].stage = job[t].stage
      /\ \A u \in RecordThreads \ {t} : job'[u] = job[u]
  BY <1>1, <1>2, OnePlace DEF ConfigInv, PlacesOK, EditPlaces, ProcessPlaces
<1> HIDE DEF r
<1>5. ASSUME NEW s \in Stages
      PROVE  /\ stage'[s] \in Records /\ stage'[s].path = stage[s].path
             /\ \/ stage'[s] = stage[s] /\ (stage[s].file = "partial" => stage[s].path # r \/ partial[r] = NoFile)
                \/ stage'[s].file = "final" /\ stage[s].path = r /\ partial[r] # NoFile /\ stage[s].file = "partial"
  <2>1. stage[s] \in Records
    BY DEF ConfigInv, RecordingTypeOK, Records
  <2>2. /\ [stage[s] EXCEPT !.file = "final"] \in Records
        /\ [stage[s] EXCEPT !.file = "final"].path = stage[s].path
        /\ [stage[s] EXCEPT !.file = "final"].file = "final"
    BY <2>1 DEF Records
  <2>3. CASE UNCHANGED stage /\ partial[r] = NoFile
    BY <2>1, <2>3
  <2>4. CASE /\ partial[r] # NoFile
             /\ stage'[s] = IF stage[s].path = r /\ stage[s].file = "partial"
                            THEN [stage[s] EXCEPT !.file = "final"] ELSE stage[s]
    BY <2>1, <2>2, <2>4
  <2> QED
    BY <1>1, <2>3, <2>4
<1>6. stage' \in [Stages -> Records]
  <2>1. stage \in [Stages -> Records]
    BY DEF ConfigInv, RecordingTypeOK, Records
  <2>2. CASE UNCHANGED stage
    BY <2>1, <2>2
  <2>3. CASE stage' = [s \in Stages |->
                         IF stage[s].path = r /\ stage[s].file = "partial"
                         THEN [stage[s] EXCEPT !.file = "final"] ELSE stage[s]]
    <3>1. PICK w : w = [s \in Stages |-> stage'[s]]
      OBVIOUS
    <3>2. stage' = w
      BY <2>3, <3>1
    <3>3. w \in [Stages -> Records]
      BY <1>5, <3>1
    <3> QED
      BY <3>2, <3>3
  <2> QED
    BY <1>1, <2>2, <2>3
<1>7. RecordingTypeOK'
  BY <1>1, <1>3, <1>6 DEF ConfigInv, RecordingTypeOK, Records
<1>8. \A s \in Made : stage'[s].path = stage[s].path
  BY <1>2, <1>5
<1>9. StagesOK'
  <2>1. \A s \in Stages \ Made : stage'[s] = stage[s]
    <3>1. \A s \in Stages \ Made : stage[s].file = "none"
      BY DEF ConfigInv, StagesOK, NewStage
    <3> QED
      BY <1>5, <3>1
  <2> QED
    BY <1>1, <1>2, <1>8, <2>1 DEF ConfigInv, StagesOK
<1>10. HandlesOK'
  <2>1. ASSUME NEW s \in Made
        PROVE  /\ stage'[s].file = "partial" => partial'[stage[s].path] \in Nat
               /\ stage'[s].file = "final" => final'[stage[s].path] \in Nat
    <3>1. /\ stage[s].file = "partial" => partial[stage[s].path] \in Nat
          /\ stage[s].file = "final" => final[stage[s].path] \in Nat
      BY DEF ConfigInv, HandlesOK
    <3>2. stage[s].path \in Recordings
      <4>1. stage[s].path \in 1 .. started
        BY DEF ConfigInv, StagesOK
      <4> QED
        BY <4>1 DEF ConfigInv, RecordingTypeOK, Recordings
    <3>3. CASE partial[r] = NoFile /\ UNCHANGED <<stage, partial, final>>
      BY <3>1, <3>3
    <3>4. CASE /\ partial[r] # NoFile
               /\ final' = [final EXCEPT ![r] = partial[r]]
               /\ partial' = [partial EXCEPT ![r] = NoFile]
      <4>1. partial[r] \in Nat
        BY <1>3, <3>4 DEF ConfigInv, RecordingTypeOK
      <4>2. CASE stage[s].path = r
        <5>1. final'[r] \in Nat
          BY <1>3, <3>4, <4>1 DEF ConfigInv, RecordingTypeOK
        <5>2. stage'[s].file # "partial"
          BY <1>2, <1>5, <3>4, <4>2
        <5> QED
          BY <4>2, <5>1, <5>2
      <4>3. CASE stage[s].path # r
        <5>1. /\ partial'[stage[s].path] = partial[stage[s].path]
              /\ final'[stage[s].path] = final[stage[s].path]
          BY <3>2, <3>4, <4>3 DEF ConfigInv, RecordingTypeOK
        <5>2. stage'[s] = stage[s]
          BY <1>2, <1>5, <4>3
        <5> QED
          BY <3>1, <5>1, <5>2
      <4> QED
        BY <4>2, <4>3
    <3> QED
      BY <1>1, <3>3, <3>4
  <2> QED
    BY <1>2, <1>8, <2>1 DEF HandlesOK
<1>11. PlacesOK'
  BY <1>2, <1>4, OnePlaceOK DEF ConfigInv, ProcessPlaces, ClosingPlaces
<1>12. EditsOK'
  BY <1>1, <1>2, <1>4, <1>8, ClosingEdits DEF ConfigInv
<1> QED
  BY <1>7, <1>9, <1>10, <1>11, <1>12 DEF ConfigInv

\* Where the pipeline's thread goes on to inside process, the edits stay as they are.
LEMMA ProcessEdits ==
  ASSUME ConfigInv, UNCHANGED <<cfg, installed, created, started>>,
         \A s \in Made : stage'[s].path = stage[s].path,
         job["pipeline"].at \in ProcessPlaces \cup {"idle"},
         job'["pipeline"].at \in ProcessPlaces \cup {"idle"}
           \/ (job'["pipeline"].at = "close" /\ job'["pipeline"].after = "announce"),
         \A u \in RecordThreads \ {"pipeline"} : job'[u] = job[u]
  PROVE  EditsOK'
<1>1. ~InEdit("pipeline") /\ ~InEdit("pipeline")' /\ "pipeline" \in RecordThreads
  BY DEF InEdit, Editing, Closing, ProcessPlaces, RecordThreads
<1> QED
  BY <1>1, OutsideEdits DEF ConfigInv

LEMMA TakeBatchConfig ==
  ASSUME ConfigInv, NEW n \in BatchSizes, TakeBatch(n) PROVE ConfigInv'
<1> DEFINE x == [Resting EXCEPT !.at = "check", !.stage = installed, !.n = n]
<1>1. /\ job["pipeline"].at = "idle" /\ installed # None /\ job' = [job EXCEPT !["pipeline"] = x]
      /\ UNCHANGED <<cfg, limit, started, installed, created, stage, partial, final, finished, torn, edits>>
  BY DEF TakeBatch, HereIs, configuration, pipelines, files, outcome
<1>2. installed \in Made /\ installed \in Stages /\ n \in Nat /\ Made' = Made
  BY <1>1 DEF ConfigInv, RecordingTypeOK, StagesOK, Made, None
<1>3. x \in Jobs /\ x.at = "check" /\ x.stage = installed
  BY <1>2 DEF Resting, Jobs, ProcessPlaces
<1> HIDE DEF x
<1>4. /\ job' \in [RecordThreads -> Jobs] /\ job'["pipeline"] = x /\ "pipeline" \in RecordThreads
      /\ \A u \in RecordThreads \ {"pipeline"} : job'[u] = job[u]
  BY <1>1, <1>3, OneJob DEF ConfigInv, PlacesOK, RecordThreads
<1>5. RecordingTypeOK' /\ StagesOK' /\ HandlesOK'
  BY <1>1, <1>2 DEF ConfigInv, RecordingTypeOK, StagesOK, HandlesOK
<1>6. PlacesOK'
  BY <1>2, <1>3, <1>4, OnePlaceOK DEF ConfigInv, ProcessPlaces, ClosingPlaces
<1>7. EditsOK'
  BY <1>1, <1>3, <1>4, ProcessEdits DEF ProcessPlaces
<1> QED
  BY <1>5, <1>6, <1>7 DEF ConfigInv

\* A step of process that changes neither stage nor files.
LEMMA QuietProcess ==
  ASSUME ConfigInv, job["pipeline"].at \in ProcessPlaces,
         \/ Rest("pipeline")
         \/ \E place \in ProcessPlaces : Goto("pipeline", place),
         UNCHANGED <<cfg, limit, started, installed, created, stage, partial, final, torn, edits>>,
         finished' \in SUBSET Recordings
  PROVE  ConfigInv'
<1>1. /\ job' \in [RecordThreads -> Jobs] /\ "pipeline" \in RecordThreads
      /\ \/ job'["pipeline"].at = "idle"
         \/ /\ job'["pipeline"].at \in ProcessPlaces
            /\ job'["pipeline"].stage = job["pipeline"].stage
      /\ \A u \in RecordThreads \ {"pipeline"} : job'[u] = job[u]
  <2>1. "pipeline" \in RecordThreads /\ job \in [RecordThreads -> Jobs]
    BY DEF RecordThreads, ConfigInv, PlacesOK
  <2>2. CASE Rest("pipeline")
    BY <2>1, <2>2, OneJob, RestIsAJob DEF Rest
  <2>3. CASE \E place \in ProcessPlaces : Goto("pipeline", place)
    BY <2>1, <2>3, OnePlace
  <2> QED
    BY <2>2, <2>3
<1>2. Made' = Made /\ job["pipeline"].stage \in Made
  BY <1>1 DEF Made, ConfigInv, PlacesOK, At
<1>3. RecordingTypeOK' /\ StagesOK' /\ HandlesOK'
  BY <1>2 DEF ConfigInv, RecordingTypeOK, StagesOK, HandlesOK
<1>4. PlacesOK'
  BY <1>1, <1>2, OnePlaceOK DEF ConfigInv, ProcessPlaces, ClosingPlaces
<1>5. EditsOK'
  BY <1>1, ProcessEdits DEF ProcessPlaces
<1> QED
  BY <1>3, <1>4, <1>5 DEF ConfigInv

\* The stage the pipeline's thread is in.
LEMMA HereLemma ==
  ASSUME ConfigInv, job["pipeline"].at \in ProcessPlaces
  PROVE  /\ Here \in Made /\ Made \subseteq Stages /\ stage[Here] \in Records
         /\ stage[Here].path \in Recordings /\ "pipeline" \in RecordThreads
         /\ job["pipeline"].n \in Nat /\ limit[stage[Here].path] \in Nat \cup {NoLimit}
<1>1. "pipeline" \in RecordThreads
  BY DEF RecordThreads
<1>2. Here \in Made /\ Made \subseteq Stages
  BY <1>1 DEF ConfigInv, PlacesOK, At, Here, RecordingTypeOK, Made, Stages
<1>3. stage[Here] \in Records /\ stage[Here].path \in 1 .. started
  BY <1>2 DEF ConfigInv, RecordingTypeOK, StagesOK, Records
<1>4. stage[Here].path \in Recordings
  BY <1>3 DEF ConfigInv, RecordingTypeOK, Recordings
<1>5. job["pipeline"] \in Jobs
  BY <1>1 DEF ConfigInv, PlacesOK
<1> QED
  BY <1>1, <1>2, <1>3, <1>4, <1>5 DEF Jobs, ConfigInv, RecordingTypeOK

\* A step of process that changes its stage, but not what it records.
LEMMA ChangingProcess ==
  ASSUME ConfigInv, job["pipeline"].at \in ProcessPlaces,
         job' \in [RecordThreads -> Jobs], \A u \in RecordThreads \ {"pipeline"} : job'[u] = job[u],
         \/ job'["pipeline"].at = "idle"
         \/ job'["pipeline"].at \in ProcessPlaces /\ job'["pipeline"].stage = Here
         \/ job'["pipeline"].at = "close" /\ job'["pipeline"].after = "announce"
              /\ job'["pipeline"].stage = Here,
         NEW x \in Records, stage' = [stage EXCEPT ![Here] = x], x.path = stage[Here].path,
         {partial', final'} \subseteq [Recordings -> Nat \cup {NoFile}],
         x.file = "partial" => partial'[x.path] \in Nat,
         x.file = "final" => final'[x.path] \in Nat,
         \A r \in Recordings \ {x.path} : partial'[r] = partial[r] /\ final'[r] = final[r],
         UNCHANGED <<cfg, limit, started, installed, created, finished, torn, edits>>
  PROVE  ConfigInv'
<1>1. Here \in Made /\ Made \subseteq Stages /\ "pipeline" \in RecordThreads
  BY HereLemma
<1>2. RecordingTypeOK /\ StagesOK /\ UNCHANGED <<cfg, installed, created, started>>
  BY DEF ConfigInv
<1>3. /\ StagesOK' /\ \A s \in Made : stage'[s].path = stage[s].path
      /\ stage'[Here] = x /\ \A s \in Stages \ {Here} : stage'[s] = stage[s]
      /\ Made' = Made /\ Made \subseteq Stages
  BY <1>1, <1>2, OneStage
<1>4. PICK q \in Made : q = Here /\ stage'[q] = x /\ x.path = stage[q].path
                        /\ \A s \in Stages \ {q} : stage'[s] = stage[s]
  BY <1>1, <1>3
<1>5. RecordingTypeOK'
  BY <1>1, <1>2 DEF RecordingTypeOK, Records
<1>6. HandlesOK'
  <2>1. ASSUME NEW s \in Made
        PROVE  /\ stage'[s].file = "partial" => partial'[stage'[s].path] \in Nat
               /\ stage'[s].file = "final" => final'[stage'[s].path] \in Nat
    <3>1. CASE s = q
      BY <1>4, <3>1
    <3>2. CASE s # q
      <4>1. stage'[s] = stage[s] /\ stage[s].path # x.path
        BY <1>1, <1>2, <1>4, <3>2 DEF StagesOK
      <4>2. stage[s].path \in Recordings
        <5>1. stage[s].path \in 1 .. started
          BY <1>2 DEF StagesOK
        <5> QED
          BY <1>2, <5>1 DEF RecordingTypeOK, Recordings
      <4>3. /\ stage[s].file = "partial" => partial[stage[s].path] \in Nat
            /\ stage[s].file = "final" => final[stage[s].path] \in Nat
        BY DEF ConfigInv, HandlesOK
      <4> QED
        BY <4>1, <4>2, <4>3
    <3> QED
      BY <3>1, <3>2
  <2> QED
    BY <1>3, <2>1 DEF HandlesOK
<1>7. PlacesOK'
  BY <1>1, <1>3, OnePlaceOK DEF ConfigInv, ProcessPlaces, ClosingPlaces
<1>8. EditsOK'
  BY <1>3, ProcessEdits DEF ProcessPlaces
<1> QED
  BY <1>3, <1>5, <1>6, <1>7, <1>8 DEF ConfigInv

LEMMA EnsureOpenConfig == ASSUME ConfigInv, EnsureOpen PROVE ConfigInv'
<1>1. /\ job["pipeline"].at = "open" /\ Goto("pipeline", "write")
      /\ UNCHANGED <<cfg, limit, started, installed, created, final, finished, torn, edits>>
  BY DEF EnsureOpen, HereIs, configuration, pipelines, outcome
<1>2. CASE UNCHANGED <<stage, partial>>
  BY <1>1, <1>2, QuietProcess DEF ProcessPlaces, ConfigInv, RecordingTypeOK
<1>3. CASE /\ stage' = [stage EXCEPT ![Here] = [@ EXCEPT !.file = "partial", !.writer = TRUE]]
           /\ partial' = [partial EXCEPT ![stage[Here].path] = 0]
  <2> DEFINE x == [stage[Here] EXCEPT !.file = "partial", !.writer = TRUE]
  <2>1. stage' = [stage EXCEPT ![Here] = x]
    BY <1>3
  <2>2. /\ stage[Here] \in Records /\ stage[Here].path \in Recordings /\ "pipeline" \in RecordThreads
    BY <1>1, HereLemma DEF ProcessPlaces
  <2>3. x \in Records /\ x.path = stage[Here].path /\ x.file = "partial"
    BY <2>2 DEF Records
  <2> HIDE DEF x
  <2>4. /\ {partial', final'} \subseteq [Recordings -> Nat \cup {NoFile}]
        /\ partial'[x.path] \in Nat
        /\ \A r \in Recordings \ {x.path} : partial'[r] = partial[r] /\ final'[r] = final[r]
    BY <1>1, <1>3, <2>2, <2>3 DEF ConfigInv, RecordingTypeOK
  <2>5. /\ job' \in [RecordThreads -> Jobs] /\ job'["pipeline"].at = "write"
        /\ job'["pipeline"].stage = Here
        /\ \A u \in RecordThreads \ {"pipeline"} : job'[u] = job[u]
    BY <1>1, <2>2, OnePlace DEF ConfigInv, PlacesOK, ProcessPlaces, Here
  <2> QED
    BY <1>1, <2>1, <2>3, <2>4, <2>5, ChangingProcess DEF ProcessPlaces
<1> QED
  BY <1>2, <1>3 DEF EnsureOpen

\* What is left of a batch is a number of samples.
LEMMA FittingLemma ==
  ASSUME ConfigInv, job["pipeline"].at \in ProcessPlaces, Limited(Here) => Room(Here) > 0
  PROVE  Fitting \in Nat
<1>1. /\ stage[Here] \in Records /\ job["pipeline"].n \in Nat
      /\ limit[stage[Here].path] \in Nat \cup {NoLimit}
  BY HereLemma
<1>2. stage[Here].written \in Nat
  BY <1>1 DEF Records
<1>3. CASE Limited(Here)
  <2>1. Room(Here) \in Int
    BY <1>1, <1>2, <1>3 DEF Room, Limited
  <2> QED
    BY <1>1, <1>3, <2>1 DEF Fitting
<1>4. CASE ~Limited(Here)
  BY <1>1, <1>4 DEF Fitting
<1> QED
  BY <1>3, <1>4

LEMMA WriteConfig ==
  ASSUME ConfigInv, job["pipeline"].at = "write", NEW k \in Nat, Write(k),
         UNCHANGED <<cfg, limit, started, installed, created, finished, torn, edits>>
  PROVE  ConfigInv'
<1> DEFINE r == stage[Here].path
           x == [stage[Here] EXCEPT !.written = @ + k]
<1>1. /\ stage' = [stage EXCEPT ![Here] = x]
      /\ partial' = IF stage[Here].file = "partial" THEN [partial EXCEPT ![r] = @ + k] ELSE partial
      /\ final' = IF stage[Here].file = "final" THEN [final EXCEPT ![r] = @ + k] ELSE final
      /\ Goto("pipeline", "finish") \/ Rest("pipeline")
  BY DEF Write
<1>2. /\ stage[Here] \in Records /\ r \in Recordings /\ "pipeline" \in RecordThreads
      /\ Here \in Made
  BY HereLemma DEF ProcessPlaces
<1>3. x \in Records /\ x.path = r /\ x.file = stage[Here].file
  BY <1>2 DEF Records
<1>4. /\ stage[Here].file = "partial" => partial[r] \in Nat
      /\ stage[Here].file = "final" => final[r] \in Nat
  BY <1>2 DEF ConfigInv, HandlesOK
<1> HIDE DEF x, r
<1>5. /\ {partial', final'} \subseteq [Recordings -> Nat \cup {NoFile}]
      /\ x.file = "partial" => partial'[r] \in Nat
      /\ x.file = "final" => final'[r] \in Nat
      /\ \A q \in Recordings \ {r} : partial'[q] = partial[q] /\ final'[q] = final[q]
  BY <1>1, <1>2, <1>3, <1>4 DEF ConfigInv, RecordingTypeOK
<1>6. /\ job' \in [RecordThreads -> Jobs]
      /\ \/ job'["pipeline"].at = "idle"
         \/ job'["pipeline"].at = "finish" /\ job'["pipeline"].stage = Here
      /\ \A u \in RecordThreads \ {"pipeline"} : job'[u] = job[u]
  <2>1. CASE Goto("pipeline", "finish")
    BY <1>2, <2>1, OnePlace DEF ConfigInv, PlacesOK, ProcessPlaces, Here
  <2>2. CASE Rest("pipeline")
    BY <1>2, <2>2, OneJob, RestIsAJob DEF Rest, ConfigInv, PlacesOK
  <2> QED
    BY <1>1, <2>1, <2>2
<1>7. x.path = stage[Here].path
  BY <1>3 DEF r
<1> QED
  BY <1>1, <1>3, <1>5, <1>6, <1>7, ChangingProcess DEF ProcessPlaces

LEMMA WriteSamplesConfig == ASSUME ConfigInv, WriteSamples PROVE ConfigInv'
<1>1. /\ job["pipeline"].at = "write"
      /\ UNCHANGED <<cfg, limit, started, installed, created, finished, torn, edits>>
      /\ \/ Goto("pipeline", "finish") /\ UNCHANGED <<stage, partial, final>>
         \/ (Limited(Here) => Room(Here) > 0) /\ Write(Fitting)
         \/ Rest("pipeline") /\ UNCHANGED <<stage, partial, final>>
  BY DEF WriteSamples, HereIs, configuration, pipelines, files, outcome
<1>2. CASE /\ Goto("pipeline", "finish") \/ Rest("pipeline")
           /\ UNCHANGED <<stage, partial, final>>
  BY <1>1, <1>2, QuietProcess DEF ProcessPlaces, ConfigInv, RecordingTypeOK
<1>3. CASE (Limited(Here) => Room(Here) > 0) /\ Write(Fitting)
  <2>1. Fitting \in Nat
    BY <1>1, <1>3, FittingLemma DEF ProcessPlaces
  <2> QED
    BY <1>1, <1>3, <2>1, WriteConfig
<1> QED
  BY <1>1, <1>2, <1>3

LEMMA FinalizeConfig == ASSUME ConfigInv, Finalize PROVE ConfigInv'
<1>1. /\ job["pipeline"].at = "finish"
      /\ UNCHANGED <<cfg, limit, started, installed, created, partial, final, finished, torn, edits>>
  BY DEF Finalize, HereIs, configuration, pipelines, files, outcome
<1>2. CASE Rest("pipeline") /\ UNCHANGED stage
  BY <1>1, <1>2, QuietProcess DEF ProcessPlaces, ConfigInv, RecordingTypeOK
<1>3. CASE /\ stage' = [stage EXCEPT ![Here].published = TRUE]
           /\ job' = [job EXCEPT !["pipeline"] = [@ EXCEPT !.at = "close", !.after = "announce"]]
  <2> DEFINE x == [stage[Here] EXCEPT !.published = TRUE]
             y == [job["pipeline"] EXCEPT !.at = "close", !.after = "announce"]
  <2>1. stage' = [stage EXCEPT ![Here] = x] /\ job' = [job EXCEPT !["pipeline"] = y]
    BY <1>3
  <2>2. /\ stage[Here] \in Records /\ stage[Here].path \in Recordings /\ "pipeline" \in RecordThreads
        /\ Here \in Made
    BY <1>1, HereLemma DEF ProcessPlaces
  <2>3. x \in Records /\ x.path = stage[Here].path /\ x.file = stage[Here].file
    BY <2>2 DEF Records
  <2>4. job["pipeline"] \in Jobs
    BY <2>2 DEF ConfigInv, PlacesOK
  <2>5. y \in Jobs /\ y.at = "close" /\ y.after = "announce" /\ y.stage = Here
    BY <2>4 DEF Jobs, ClosingPlaces, Here
  <2> HIDE DEF x, y
  <2>6. /\ job' \in [RecordThreads -> Jobs] /\ job'["pipeline"] = y
        /\ \A u \in RecordThreads \ {"pipeline"} : job'[u] = job[u]
    BY <2>1, <2>2, <2>5, OneJob DEF ConfigInv, PlacesOK
  <2>7. /\ {partial', final'} \subseteq [Recordings -> Nat \cup {NoFile}]
        /\ x.file = "partial" => partial'[x.path] \in Nat
        /\ x.file = "final" => final'[x.path] \in Nat
        /\ \A r \in Recordings \ {x.path} : partial'[r] = partial[r] /\ final'[r] = final[r]
    BY <1>1, <2>2, <2>3 DEF ConfigInv, RecordingTypeOK, HandlesOK
  <2> QED
    BY <1>1, <2>1, <2>3, <2>5, <2>6, <2>7, ChangingProcess DEF ProcessPlaces
<1> QED
  BY <1>2, <1>3 DEF Finalize

LEMMA AnnounceConfig == ASSUME ConfigInv, ~Overlap, Announce PROVE ConfigInv'
<1>1. /\ job["pipeline"].at = "announce" /\ MayEdit("pipeline")
      /\ UNCHANGED <<cfg, limit, started, installed, created, stage, partial, final, torn, edits>>
      /\ finished' = finished \cup {stage[Here].path}
      /\ Rest("pipeline") \/ BeginEdit("pipeline", None)
  BY DEF Announce, HereIs, configuration, pipelines, files
<1>2. finished' \in SUBSET Recordings /\ "pipeline" \in RecordThreads
  BY <1>1, HereLemma DEF ProcessPlaces, ConfigInv, RecordingTypeOK
<1>3. CASE Rest("pipeline")
  BY <1>1, <1>2, <1>3, QuietProcess DEF ProcessPlaces
<1>4. CASE BeginEdit("pipeline", None)
  <2>1. ~InEdit("pipeline")
    BY <1>1 DEF InEdit, Editing, Closing
  <2>2. RecordingTypeOK'
    BY <1>1, <1>2 DEF ConfigInv, RecordingTypeOK
  <2> QED
    BY <1>1, <1>2, <1>4, <2>1, <2>2, BeginEditConfig
<1> QED
  BY <1>1, <1>3, <1>4

LEMMA CheckClosedConfig == ASSUME ConfigInv, CheckClosed PROVE ConfigInv'
<1>1. /\ job["pipeline"].at = "check"
      /\ UNCHANGED <<cfg, limit, started, installed, created, stage, partial, final, finished, torn, edits>>
      /\ Rest("pipeline") \/ Goto("pipeline", "open")
  BY DEF CheckClosed, HereIs, configuration, pipelines, files, outcome
<1> QED
  BY <1>1, QuietProcess DEF ProcessPlaces, ConfigInv, RecordingTypeOK

LEMMA ConfigStep ==
  ASSUME ConfigInv, ~Overlap, [RecordingNext]_recordingVars PROVE ConfigInv'
<1>1. CASE UNCHANGED recordingVars
  BY <1>1 DEF recordingVars, configuration, pipelines, files, outcome, ConfigInv, RecordingTypeOK,
     PlacesOK, StagesOK, HandlesOK, EditsOK, EditOK, Reflect, Unused, Made, At, InEdit, Editing,
     Closing
<1>2. ASSUME NEW t \in RecordThreads, StepOf(t) PROVE ConfigInv'
  BY <1>2, SwapConfigConfig, ReadConfigConfig, ApplyConfigConfig, ForgetPipelineConfig,
     BeginCloseConfig, CloseHandlesConfig, RenamePartialConfig DEF StepOf
<1>3. CASE StepOfProcess
  BY <1>3, CheckClosedConfig, EnsureOpenConfig, WriteSamplesConfig, FinalizeConfig, AnnounceConfig
     DEF StepOfProcess
<1> QED
  BY <1>1, <1>2, <1>3, UserConfig, TakeBatchConfig DEF RecordingNext

\* "Maintains the invariant that self.pipelines always reflects self.config.pipelines": for any
\* recordings, limits and batches, as long as the edits of the two threads do not overlap.
THEOREM PipelinesReflect ==
  ASSUME ~Overlap PROVE RecordingSpec => []PipelinesReflectConfig
<1>1. ConfigInv /\ [RecordingNext]_recordingVars => ConfigInv'
  BY ConfigStep
<1>2. ConfigInv => PipelinesReflectConfig
  BY DEF ConfigInv, EditsOK, RecordThreads, PipelinesReflectConfig, Reflect
<1> QED
  BY <1>1, <1>2, ConfigInit, PTL DEF RecordingSpec

-------------------------------------------------------------------------------
(* Recording: the files.                                                     *)

Shutting(t, s) == job[t].stage = s /\ At(t, {"flush", "shut", "rename"})

\* The file holds what the stage has taken; there is none before the first batch.
Fill(s) ==
  LET r == stage[s].path IN
  /\ final[r] = NoFile
  /\ \/ stage[s].file = "none" /\ partial[r] = NoFile /\ stage[s].written = 0
     \/ stage[s].file = "partial" /\ partial[r] = stage[s].written

\* Closed, but not renamed yet.
Shut(s) ==
  LET r == stage[s].path IN
  /\ stage[s].file = "none" /\ final[r] = NoFile
  /\ partial[r] = stage[s].written \/ (partial[r] = NoFile /\ stage[s].written = 0)

Whole(s) ==
  LET r == stage[s].path IN
  /\ stage[s].file = "none" /\ partial[r] = NoFile
  /\ final[r] = stage[s].written \/ (stage[s].written = 0 /\ final[r] = NoFile)

\* One thread closes the file, and process is no longer in the stage when it does.
FileOK(s) ==
  /\ ~stage[s].closed => Fill(s) /\ \A t \in RecordThreads : ~Shutting(t, s)
  /\ stage[s].closed => ~InStage(s)
  /\ InStage(s) /\ At("pipeline", {"write", "finish"}) => stage[s].file = "partial"
  /\ ~(Shutting("ui", s) /\ Shutting("pipeline", s))
  /\ \A t \in RecordThreads : Shutting(t, s) => IF At(t, {"rename"}) THEN Shut(s) ELSE Fill(s)
  /\ stage[s].closed /\ (\A t \in RecordThreads : ~Shutting(t, s)) => Whole(s)

FilesInv ==
  /\ \A r \in Recordings : (\A s \in Made : stage[s].path # r) => partial[r] = NoFile /\ final[r] = NoFile
  /\ \A s \in Made : stage[s].path \notin torn => FileOK(s)

\* A step of a thread that neither is nor comes into the stage's close.
LEMMA FileAside ==
  ASSUME NEW s, FileOK(s), stage'[s] = stage[s], partial'[stage[s].path] = partial[stage[s].path],
         final'[stage[s].path] = final[stage[s].path],
         NEW t \in RecordThreads, \A u \in RecordThreads \ {t} : job'[u] = job[u],
         ~Shutting(t, s), ~Shutting(t, s)',
         t = "pipeline" /\ InStage(s)' => ~stage[s].closed,
         t = "pipeline" /\ InStage(s)' /\ job'["pipeline"].at \in {"write", "finish"} =>
           stage[s].file = "partial"
  PROVE  FileOK(s)'
<1>1. Fill(s)' = Fill(s) /\ Shut(s)' = Shut(s) /\ Whole(s)' = Whole(s)
  BY DEF Fill, Shut, Whole
<1>2. \A u \in RecordThreads : Shutting(u, s)' = Shutting(u, s)
  BY DEF Shutting, At
<1>3. \A u \in RecordThreads : Shutting(u, s) => At(u, {"rename"})' = At(u, {"rename"})
  BY DEF At
<1>4. \/ t = "pipeline"
      \/ InStage(s)' = InStage(s) /\ At("pipeline", {"write", "finish"})' = At("pipeline", {"write", "finish"})
  BY DEF InStage, At, RecordThreads
<1>5. /\ stage[s].closed => ~InStage(s)'
      /\ InStage(s)' /\ At("pipeline", {"write", "finish"})' => stage[s].file = "partial"
  BY <1>4 DEF FileOK, At
<1>6. "ui" \in RecordThreads /\ "pipeline" \in RecordThreads
  BY DEF RecordThreads
<1> QED
  BY <1>1, <1>2, <1>3, <1>5, <1>6 DEF FileOK

\* The step of a thread in or at the close of one stage.
LEMMA FilesOneStage ==
  ASSUME ConfigInv, FilesInv, NEW t \in RecordThreads, NEW q \in Made, job[t].stage = q,
         \A u \in RecordThreads \ {t} : job'[u] = job[u],
         job'[t].stage = q \/ job'[t].at \in {"idle", "swap"},
         created' = created,
         \A s \in Made : stage'[s].path = stage[s].path,
         \A s \in Made \ {q} : stage'[s] = stage[s],
         \A r \in Recordings \ {stage[q].path} : partial'[r] = partial[r] /\ final'[r] = final[r],
         torn \subseteq torn',
         stage[q].path \notin torn' /\ FileOK(q) => FileOK(q)'
  PROVE  FilesInv'
<1>1. Made' = Made
  BY DEF Made
<1>2. \A s \in Made : stage[s].path \in Recordings
  <2>1. \A s \in Made : stage[s].path \in 1 .. started
    BY DEF ConfigInv, StagesOK
  <2> QED
    BY <2>1 DEF ConfigInv, RecordingTypeOK, Recordings
<1>3. ASSUME NEW r \in Recordings, \A s \in Made' : stage'[s].path # r
      PROVE  partial'[r] = NoFile /\ final'[r] = NoFile
  <2>1. \A s \in Made : stage[s].path # r
    BY <1>1, <1>3
  <2> QED
    BY <2>1 DEF FilesInv
<1>4. ASSUME NEW s \in Made, stage'[s].path \notin torn' PROVE FileOK(s)'
  <2>1. stage[s].path \notin torn /\ FileOK(s)
    BY <1>4 DEF FilesInv
  <2>2. CASE s = q
    BY <1>4, <2>1, <2>2
  <2>3. CASE s # q
    <3>1. stage[s].path # stage[q].path
      BY <2>3 DEF ConfigInv, StagesOK
    <3>2. ~Shutting(t, s) /\ ~Shutting(t, s)' /\ ~(t = "pipeline" /\ InStage(s)')
      BY <2>3 DEF Shutting, At, InStage
    <3> QED
      BY <1>2, <2>1, <2>3, <3>1, <3>2, FileAside
  <2> QED
    BY <2>2, <2>3
<1> QED
  BY <1>1, <1>3, <1>4 DEF FilesInv

\* A step that touches neither stages nor files.
LEMMA FilesQuiet ==
  ASSUME FilesInv, UNCHANGED <<created, stage, partial, final, torn>>,
         NEW t \in RecordThreads, \A u \in RecordThreads \ {t} : job'[u] = job[u],
         job[t].at \notin {"flush", "shut", "rename"}, job'[t].at \notin {"flush", "shut", "rename"},
         t = "pipeline" => job'[t].at \notin {"open", "write", "finish"}
  PROVE  FilesInv'
<1>1. Made' = Made
  BY DEF Made
<1>2. ASSUME NEW s \in Made, stage[s].path \notin torn PROVE FileOK(s)'
  <2>1. FileOK(s)
    BY <1>2 DEF FilesInv
  <2>2. ~Shutting(t, s) /\ ~Shutting(t, s)' /\ ~(t = "pipeline" /\ InStage(s)')
    BY DEF Shutting, At, InStage
  <2> QED
    BY <2>1, <2>2, FileAside
<1> QED
  BY <1>1, <1>2 DEF FilesInv

LEMMA FilesInit == RecordingInit => FilesInv
BY DEF RecordingInit, FilesInv, Made

LEMMA QuietStepsFiles ==
  ASSUME ConfigInv, FilesInv,
         \/ StartRecording \/ StopRecording \/ EditAnother
         \/ \E t \in RecordThreads : SwapConfig(t) \/ ReadConfig(t) \/ ForgetPipeline(t)
         \/ (\E n \in BatchSizes : TakeBatch(n)) \/ Announce
  PROVE  FilesInv'
<1>1. job \in [RecordThreads -> Jobs] /\ "ui" \in RecordThreads /\ "pipeline" \in RecordThreads
  BY DEF ConfigInv, PlacesOK, RecordThreads
<1>2. ASSUME NEW t \in RecordThreads, NEW x \in Jobs, job' = [job EXCEPT ![t] = x],
             x.at \in {"idle", "check", "swap", "apply"},
             job[t].at \notin {"flush", "shut", "rename"},
             UNCHANGED <<created, stage, partial, final, torn>>
      PROVE  FilesInv'
  BY <1>1, <1>2, OneJob, FilesQuiet
<1>3. CASE StartRecording \/ StopRecording \/ EditAnother
  <2>1. \E r \in Recordings \cup {None} : BeginEdit("ui", r)
    <3>1. cfg \in Recordings \cup {None} /\ (StartRecording => started + 1 \in Recordings)
      BY DEF StartRecording, ConfigInv, RecordingTypeOK, Recordings
    <3> QED
      BY <1>3, <3>1 DEF StartRecording, StopRecording, EditAnother
  <2>2. \A r \in Recordings \cup {None} :
          /\ [Resting EXCEPT !.at = "swap", !.rec = r] \in Jobs
          /\ [Resting EXCEPT !.at = "swap", !.rec = r].at = "swap"
    BY DEF Resting, Jobs, None, EditPlaces
  <2>3. job["ui"].at = "idle" /\ UNCHANGED <<created, stage, partial, final, torn>>
    BY <1>3 DEF StartRecording, StopRecording, EditAnother, UserEdits, pipelines, files
  <2>4. PICK r \in Recordings \cup {None} : BeginEdit("ui", r)
    BY <2>1
  <2> QED
    BY <1>1, <1>2, <2>2, <2>3, <2>4 DEF BeginEdit
<1>4. ASSUME NEW t \in RecordThreads, SwapConfig(t) PROVE FilesInv'
  <2>1. job[t].at = "swap" /\ Goto(t, "sync") /\ UNCHANGED <<created, stage, partial, final, torn>>
    BY <1>4 DEF SwapConfig, pipelines, files, outcome
  <2> QED
    BY <1>1, <2>1, OnePlace, FilesQuiet DEF EditPlaces
<1>5. ASSUME NEW t \in RecordThreads, ReadConfig(t) PROVE FilesInv'
  <2>1. /\ job[t].at = "sync" /\ UNCHANGED <<created, stage, partial, final, torn>>
        /\ job' = [job EXCEPT ![t] = [job[t] EXCEPT !.at = "apply", !.rec = cfg]]
    BY <1>5 DEF ReadConfig, pipelines, files, outcome
  <2>2. job[t] \in Jobs /\ cfg \in Recordings \cup {None}
    BY <1>1 DEF ConfigInv, RecordingTypeOK
  <2>3. /\ [job[t] EXCEPT !.at = "apply", !.rec = cfg] \in Jobs
        /\ [job[t] EXCEPT !.at = "apply", !.rec = cfg].at = "apply"
    BY <2>2 DEF Jobs, EditPlaces
  <2> QED
    BY <1>2, <2>1, <2>3
<1>6. ASSUME NEW t \in RecordThreads, ForgetPipeline(t) PROVE FilesInv'
  BY <1>2, <1>6, RestIsAJob DEF ForgetPipeline, Rest, files, outcome
<1>7. ASSUME NEW n \in BatchSizes, TakeBatch(n) PROVE FilesInv'
  <2>1. n \in Nat /\ installed \in Stages
    BY <1>7 DEF TakeBatch, ConfigInv, RecordingTypeOK
  <2>2. /\ [Resting EXCEPT !.at = "check", !.stage = installed, !.n = n] \in Jobs
        /\ [Resting EXCEPT !.at = "check", !.stage = installed, !.n = n].at = "check"
    BY <2>1 DEF Resting, Jobs, ProcessPlaces, None
  <2> QED
    BY <1>1, <1>2, <1>7, <2>2 DEF TakeBatch, HereIs, pipelines, files, outcome
<1>8. CASE Announce
  <2>1. job["pipeline"].at = "announce" /\ UNCHANGED <<created, stage, partial, final, torn>>
    BY <1>8 DEF Announce, HereIs, pipelines, files
  <2>2. CASE Rest("pipeline")
    BY <1>1, <1>2, <2>1, <2>2, RestIsAJob DEF Rest
  <2>3. CASE BeginEdit("pipeline", None)
    <3>1. /\ [Resting EXCEPT !.at = "swap", !.rec = None] \in Jobs
          /\ [Resting EXCEPT !.at = "swap", !.rec = None].at = "swap"
      BY DEF Resting, Jobs, None, EditPlaces
    <3> QED
      BY <1>1, <1>2, <2>1, <2>3, <3>1 DEF BeginEdit
  <2> QED
    BY <1>8, <2>2, <2>3 DEF Announce
<1> QED
  BY <1>3, <1>4, <1>5, <1>6, <1>7, <1>8

LEMMA ApplyConfigFiles ==
  ASSUME ConfigInv, FilesInv, NEW t \in RecordThreads, ApplyConfig(t) PROVE FilesInv'
<1>1. job[t].at = "apply" /\ UNCHANGED <<partial, final, torn>> /\ job \in [RecordThreads -> Jobs]
  BY DEF ApplyConfig, files, outcome, ConfigInv, PlacesOK
<1>2. CASE Rest(t) /\ UNCHANGED <<created, stage>>
  BY <1>1, <1>2, OneJob, RestIsAJob, FilesQuiet DEF Rest
<1>3. CASE /\ installed # None /\ UNCHANGED <<created, stage>>
           /\ job' = [job EXCEPT ![t].at = "close", ![t].after = "forget", ![t].stage = installed]
  <2> DEFINE x == [job[t] EXCEPT !.at = "close", !.after = "forget", !.stage = installed]
  <2>1. job' = [job EXCEPT ![t] = x]
    BY <1>3
  <2>2. job[t] \in Jobs /\ installed \in Stages \cup {None}
    BY <1>1 DEF ConfigInv, RecordingTypeOK
  <2>3. x \in Jobs /\ x.at = "close"
    BY <2>2 DEF Jobs, ClosingPlaces
  <2> HIDE DEF x
  <2> QED
    BY <1>1, <1>3, <2>1, <2>3, OneJob, FilesQuiet
<1>4. CASE /\ job[t].rec # None /\ installed = None /\ created < MaxStages /\ created' = created + 1
           /\ stage' = [stage EXCEPT ![created + 1] = NewStage(job[t].rec)] /\ Rest(t)
  <2>1. created \in Nat /\ created + 1 \in Stages /\ MaxStages \in Nat
    BY <1>4 DEF ConfigInv, RecordingTypeOK, Stages
  <2>2. job[t].rec = cfg /\ Unused(cfg)
    BY <1>1, <1>4 DEF ConfigInv, EditsOK, EditOK, At, Reflect
  <2>3. /\ \A s \in Stages \ {created + 1} : stage'[s] = stage[s]
        /\ stage'[created + 1] = NewStage(cfg)
        /\ Made' = Made \cup {created + 1} /\ Made \subseteq Stages \ {created + 1}
    BY <1>4, <2>1, <2>2 DEF ConfigInv, RecordingTypeOK, Made, Stages
  <2>4. /\ job' \in [RecordThreads -> Jobs] /\ job'[t].at = "idle"
        /\ \A u \in RecordThreads \ {t} : job'[u] = job[u]
    BY <1>1, <1>4, OneJob, RestIsAJob DEF Rest
  <2>5. cfg \in Recordings
    BY <1>4, <2>2 DEF ConfigInv, RecordingTypeOK
  <2>6. ASSUME NEW s \in Made, stage[s].path \notin torn PROVE FileOK(s)'
    <3>1. FileOK(s) /\ stage'[s] = stage[s]
      BY <2>3, <2>6 DEF FilesInv
    <3>2. ~Shutting(t, s) /\ ~Shutting(t, s)' /\ ~(t = "pipeline" /\ InStage(s)')
      BY <1>1, <2>4 DEF Shutting, At, InStage
    <3> QED
      BY <1>1, <2>4, <3>1, <3>2, FileAside
  <2>7. ASSUME NEW s, s = created + 1 PROVE FileOK(s)'
    <3>1. partial[cfg] = NoFile /\ final[cfg] = NoFile
      BY <2>2, <2>5 DEF FilesInv, Unused
    <3>2. s = created + 1
      BY <2>7
    <3>3. \A u \in RecordThreads : ~Shutting(u, s)' /\ ~(u = "pipeline" /\ InStage(s)')
      <4>1. ASSUME NEW u \in RecordThreads \ {t} PROVE ~Shutting(u, s) /\ ~(u = "pipeline" /\ InStage(s))
        BY <2>1, <3>2 DEF ConfigInv, PlacesOK, Shutting, At, Closing, InStage, ProcessPlaces, Made
      <4>2. ASSUME NEW u \in RecordThreads \ {t} PROVE ~Shutting(u, s)' /\ ~(u = "pipeline" /\ InStage(s)')
        BY <2>4, <4>1 DEF Shutting, At, InStage
      <4>3. ~Shutting(t, s)' /\ ~(t = "pipeline" /\ InStage(s)')
        BY <2>4 DEF Shutting, At, InStage
      <4> QED
        BY <4>2, <4>3
    <3>4. stage'[s] = NewStage(cfg) /\ ~stage'[s].closed
      BY <2>3, <3>2 DEF NewStage
    <3>5. Fill(s)'
      BY <1>1, <3>1, <3>4 DEF Fill, NewStage
    <3>6. "ui" \in RecordThreads /\ "pipeline" \in RecordThreads
      BY DEF RecordThreads
    <3> QED
      BY <3>3, <3>4, <3>5, <3>6 DEF FileOK
  <2>8. ASSUME NEW r \in Recordings, \A s \in Made' : stage'[s].path # r
        PROVE  partial'[r] = NoFile /\ final'[r] = NoFile
    <3>1. \A s \in Made : stage[s].path # r
      BY <2>3, <2>8
    <3> QED
      BY <1>1, <3>1 DEF FilesInv
  <2>9. \A s \in Made' : stage'[s].path \notin torn' => FileOK(s)'
    <3>1. \A s \in Made : stage'[s].path \notin torn' => FileOK(s)'
      BY <1>1, <2>3, <2>6
    <3>2. \A s : s \in Made' => s \in Made \/ s = created + 1
      BY <2>3
    <3> QED
      BY <2>7, <3>1, <3>2
  <2> QED
    BY <2>8, <2>9 DEF FilesInv
<1> QED
  BY <1>2, <1>3, <1>4 DEF ApplyConfig, pipelines

\* The stage a thread closes.
LEMMA ClosingLemma ==
  ASSUME ConfigInv, NEW t \in RecordThreads, Closing(t)
  PROVE  /\ job[t].stage \in Made /\ Made \subseteq Stages /\ stage[job[t].stage] \in Records
         /\ stage[job[t].stage].path \in Recordings /\ job[t].after \in {"forget", "announce"}
         /\ job \in [RecordThreads -> Jobs] /\ RecordingTypeOK /\ StagesOK
<1>1. job[t].stage \in Made /\ Made \subseteq Stages /\ job[t].after \in {"forget", "announce"}
  BY DEF ConfigInv, PlacesOK, Made, Stages, RecordingTypeOK
<1>2. stage[job[t].stage] \in Records /\ stage[job[t].stage].path \in 1 .. started
  BY <1>1 DEF ConfigInv, RecordingTypeOK, StagesOK, Records
<1>3. stage[job[t].stage].path \in Recordings
  BY <1>2 DEF ConfigInv, RecordingTypeOK, Recordings
<1> QED
  BY <1>1, <1>2, <1>3 DEF ConfigInv, PlacesOK

\* The other thread.
LEMMA TheOther ==
  ASSUME NEW t \in RecordThreads, NEW u \in RecordThreads \ {t}, job'[u] = job[u], NEW s
  PROVE  /\ Shutting(u, s)' = Shutting(u, s) /\ At(u, {"rename"})' = At(u, {"rename"})
         /\ {t, u} = {"ui", "pipeline"} /\ RecordThreads = {t, u}
BY DEF Shutting, At, RecordThreads

LEMMA BeginCloseFiles ==
  ASSUME ConfigInv, FilesInv, NEW t \in RecordThreads, BeginClose(t) PROVE FilesInv'
<1> DEFINE x == [stage[job[t].stage] EXCEPT !.closed = TRUE]
<1>1. /\ job[t].at = "close" /\ Closing(t)
      /\ UNCHANGED <<cfg, installed, created, started, partial, final>>
      /\ \/ stage[job[t].stage].closed /\ Goto(t, job[t].after) /\ UNCHANGED stage
         \/ /\ ~stage[job[t].stage].closed /\ Goto(t, "flush")
            /\ stage' = [stage EXCEPT ![job[t].stage] = x]
      /\ torn \subseteq torn'
      /\ t = "ui" /\ InStage(job[t].stage) => stage[job[t].stage].path \in torn'
  BY DEF BeginClose, configuration, pipelines, files, Closing
<1>2. PICK q \in Made : q = job[t].stage
  BY <1>1, ClosingLemma
<1>3. /\ Made \subseteq Stages /\ stage[q] \in Records /\ job[t].after \in {"forget", "announce"}
      /\ job \in [RecordThreads -> Jobs]
  BY <1>1, <1>2, ClosingLemma
<1>4. x \in Records /\ x.path = stage[q].path /\ x.file = stage[q].file /\ x.closed
      /\ x.written = stage[q].written
  BY <1>2, <1>3 DEF Records
<1> HIDE DEF x
<1>5. /\ job'[t].at \in {"flush", "forget", "announce"} /\ job'[t].stage = q
      /\ \A u \in RecordThreads \ {t} : job'[u] = job[u]
  BY <1>1, <1>2, <1>3, OnePlace DEF EditPlaces, ClosingPlaces, ProcessPlaces
<1>6. /\ \A s \in Made : stage'[s].path = stage[s].path
      /\ \A s \in Made \ {q} : stage'[s] = stage[s]
  BY <1>1, <1>2, <1>3, <1>4 DEF ConfigInv, RecordingTypeOK
<1>7. ~(t = "pipeline" /\ InStage(q)') /\ ~Shutting(t, q)
  BY <1>1, <1>5 DEF InStage, Shutting, At
<1>8. ASSUME stage[q].path \notin torn', FileOK(q) PROVE FileOK(q)'
  <2>1. CASE stage[q].closed /\ Goto(t, job[t].after) /\ UNCHANGED stage
    <3>1. job'[t].at = job[t].after
      BY <1>3, <2>1, OnePlace DEF EditPlaces, ClosingPlaces, ProcessPlaces
    <3>2. ~Shutting(t, q)'
      BY <1>3, <3>1 DEF Shutting, At
    <3> QED
      BY <1>1, <1>5, <1>7, <1>8, <2>1, <3>2, FileAside
  <2>2. CASE ~stage[q].closed /\ Goto(t, "flush") /\ stage' = [stage EXCEPT ![q] = x]
    <3>1. stage'[q] = x
      BY <1>3, <2>2 DEF ConfigInv, RecordingTypeOK
    <3>2. Fill(q) /\ \A u \in RecordThreads : ~Shutting(u, q)
      BY <1>8, <2>2 DEF FileOK
    <3>3. Fill(q)'
      BY <1>1, <1>4, <3>1, <3>2 DEF Fill
    <3>4. ~InStage(q)'
      <4>1. CASE t = "ui"
        <5>1. ~InStage(q)
          BY <1>1, <1>2, <1>8, <4>1
        <5>2. job'["pipeline"] = job["pipeline"]
          BY <1>5, <4>1 DEF RecordThreads
        <5> QED
          BY <5>1, <5>2 DEF InStage
      <4>2. CASE t = "pipeline"
        BY <1>7, <4>2
      <4> QED
        BY <4>1, <4>2 DEF RecordThreads
    <3>5. job'[t].at = "flush"
      BY <1>3, <2>2, OnePlace DEF ClosingPlaces
    <3>6. ~At(t, {"rename"})'
      BY <3>5 DEF At
    <3>7. Shutting(t, q)' /\ \A u \in RecordThreads \ {t} : ~Shutting(u, q)'
      BY <1>5, <3>2, <3>5, TheOther DEF Shutting, At
    <3>8. "ui" \in RecordThreads /\ "pipeline" \in RecordThreads
      BY DEF RecordThreads
    <3> QED
      BY <1>4, <3>1, <3>3, <3>4, <3>6, <3>7, <3>8 DEF FileOK
  <2> QED
    BY <1>1, <1>2, <2>1, <2>2
<1> QED
  BY <1>1, <1>2, <1>5, <1>6, <1>8, FilesOneStage

LEMMA CloseHandlesFiles ==
  ASSUME ConfigInv, FilesInv, NEW t \in RecordThreads, CloseWriter(t) \/ CloseFile(t)
  PROVE  FilesInv'
<1>1. PICK x : /\ \/ x = [stage[job[t].stage] EXCEPT !.writer = FALSE] /\ Goto(t, "shut")
                  \/ x = [stage[job[t].stage] EXCEPT !.file = "none"] /\ Goto(t, "rename")
               /\ stage' = [stage EXCEPT ![job[t].stage] = x]
  BY DEF CloseWriter, CloseFile
<1>2. /\ job[t].at \in {"flush", "shut"} /\ Closing(t)
      /\ UNCHANGED <<cfg, installed, created, started, partial, final, torn>>
  BY DEF CloseWriter, CloseFile, configuration, pipelines, files, outcome, Closing
<1>3. PICK q \in Made : q = job[t].stage
  BY <1>2, ClosingLemma
<1>4. /\ Made \subseteq Stages /\ stage[q] \in Records /\ job \in [RecordThreads -> Jobs]
  BY <1>2, <1>3, ClosingLemma
<1>5. /\ x.path = stage[q].path /\ x.written = stage[q].written /\ x.closed = stage[q].closed
      /\ \/ x.file = stage[q].file /\ Goto(t, "shut")
         \/ x.file = "none" /\ Goto(t, "rename")
  BY <1>1, <1>3, <1>4 DEF Records
<1>6. stage'[q] = x /\ \A s \in Stages \ {q} : stage'[s] = stage[s]
  BY <1>1, <1>3, <1>4 DEF ConfigInv, RecordingTypeOK
<1>7. /\ job'[t].stage = q /\ \A u \in RecordThreads \ {t} : job'[u] = job[u]
      /\ \/ x.file = stage[q].file /\ job'[t].at = "shut"
         \/ x.file = "none" /\ job'[t].at = "rename"
  BY <1>3, <1>4, <1>5, OnePlace DEF ClosingPlaces
<1>8. /\ \A s \in Made : stage'[s].path = stage[s].path
      /\ \A s \in Made \ {q} : stage'[s] = stage[s]
  BY <1>4, <1>5, <1>6
<1>9. ASSUME FileOK(q) PROVE FileOK(q)'
  <2>1. Shutting(t, q) /\ ~At(t, {"rename"})
    BY <1>2, <1>3 DEF Shutting, At
  <2>2. Fill(q) /\ stage[q].closed /\ ~InStage(q)
    BY <1>9, <2>1 DEF FileOK
  <2>3. \A u \in RecordThreads \ {t} : ~Shutting(u, q)
    BY <1>9, <2>1 DEF FileOK, RecordThreads
  <2>4. Shutting(t, q)' /\ \A u \in RecordThreads \ {t} : ~Shutting(u, q)'
    BY <1>7, <2>3, TheOther DEF Shutting, At
  <2>5. IF At(t, {"rename"})' THEN Shut(q)' ELSE Fill(q)'
    BY <1>2, <1>5, <1>6, <1>7, <2>2 DEF Fill, Shut, At
  <2>6. ~InStage(q)'
    <3>1. t = "pipeline" \/ job'["pipeline"] = job["pipeline"]
      BY <1>7 DEF RecordThreads
    <3> QED
      BY <1>7, <2>2, <3>1 DEF InStage
  <2>7. "ui" \in RecordThreads /\ "pipeline" \in RecordThreads
    BY DEF RecordThreads
  <2> QED
    BY <1>5, <1>6, <2>2, <2>4, <2>5, <2>6, <2>7 DEF FileOK
<1> QED
  BY <1>2, <1>3, <1>7, <1>8, <1>9, FilesOneStage

LEMMA RenamePartialFiles ==
  ASSUME ConfigInv, FilesInv, NEW t \in RecordThreads, RenamePartial(t) PROVE FilesInv'
<1>1. /\ job[t].at = "rename" /\ Closing(t) /\ Goto(t, job[t].after)
      /\ UNCHANGED <<created, torn>>
  BY DEF RenamePartial, configuration, pipelines, outcome, Closing
<1>2. PICK q \in Made, r \in Recordings : q = job[t].stage /\ r = stage[q].path
  BY <1>1, ClosingLemma
<1>3. /\ Made \subseteq Stages /\ stage[q] \in Records /\ job \in [RecordThreads -> Jobs]
      /\ job[t].after \in {"forget", "announce"}
  BY <1>1, <1>2, ClosingLemma
<1>4. \/ partial[r] = NoFile /\ UNCHANGED <<stage, partial, final>>
      \/ /\ partial[r] # NoFile
         /\ final' = [final EXCEPT ![r] = partial[r]]
         /\ partial' = [partial EXCEPT ![r] = NoFile]
         /\ stage' = [s \in Stages |->
                        IF stage[s].path = r /\ stage[s].file = "partial"
                        THEN [stage[s] EXCEPT !.file = "final"] ELSE stage[s]]
  BY <1>2 DEF RenamePartial, files
<1>5. /\ job'[t].stage = q /\ job'[t].at \in {"forget", "announce"}
      /\ \A u \in RecordThreads \ {t} : job'[u] = job[u]
  BY <1>1, <1>2, <1>3, OnePlace DEF EditPlaces, ProcessPlaces
<1>6. ASSUME NEW s \in Made
      PROVE  /\ stage'[s].path = stage[s].path /\ (s # q => stage'[s] = stage[s])
             /\ stage[s].file # "partial" => stage'[s] = stage[s]
  <2>1. stage[s] \in Records /\ s \in Stages /\ (s # q => stage[s].path # r)
    BY <1>2, <1>3 DEF ConfigInv, RecordingTypeOK, StagesOK, Records
  <2>2. [stage[s] EXCEPT !.file = "final"].path = stage[s].path
    BY <2>1 DEF Records
  <2> QED
    BY <1>4, <2>1, <2>2
<1>7. /\ \A p \in Recordings \ {r} : partial'[p] = partial[p] /\ final'[p] = final[p]
      /\ \/ partial[r] = NoFile /\ partial'[r] = NoFile /\ final'[r] = final[r]
         \/ partial[r] # NoFile /\ partial'[r] = NoFile /\ final'[r] = partial[r]
  BY <1>4 DEF ConfigInv, RecordingTypeOK
<1>8. ASSUME FileOK(q) PROVE FileOK(q)'
  <2>1. Shutting(t, q) /\ At(t, {"rename"})
    BY <1>1, <1>2 DEF Shutting, At
  <2>2. Shut(q) /\ stage[q].closed /\ ~InStage(q)
    BY <1>8, <2>1 DEF FileOK
  <2>3. \A u \in RecordThreads \ {t} : ~Shutting(u, q)
    BY <1>8, <2>1 DEF FileOK, RecordThreads
  <2>4. ~Shutting(t, q)' /\ \A u \in RecordThreads \ {t} : ~Shutting(u, q)'
    BY <1>5, <2>3, TheOther DEF Shutting, At
  <2>5. stage'[q] = stage[q]
    BY <1>6, <2>2 DEF Shut
  <2>6. Whole(q)'
    BY <1>2, <1>7, <2>2, <2>5 DEF Shut, Whole
  <2>7. ~InStage(q)'
    <3>1. t = "pipeline" \/ job'["pipeline"] = job["pipeline"]
      BY <1>5 DEF RecordThreads
    <3> QED
      BY <1>5, <2>2, <3>1 DEF InStage
  <2>8. "ui" \in RecordThreads /\ "pipeline" \in RecordThreads
    BY DEF RecordThreads
  <2> QED
    BY <2>2, <2>4, <2>5, <2>6, <2>7, <2>8 DEF FileOK
<1> QED
  BY <1>1, <1>2, <1>5, <1>6, <1>7, <1>8, FilesOneStage

LEMMA CheckClosedFiles == ASSUME ConfigInv, FilesInv, CheckClosed PROVE FilesInv'
<1>1. /\ job["pipeline"].at = "check" /\ UNCHANGED <<created, stage, partial, final, torn>>
      /\ IF stage[Here].closed THEN Rest("pipeline") ELSE Goto("pipeline", "open")
  BY DEF CheckClosed, HereIs, pipelines, files, outcome
<1>2. PICK q \in Made : q = Here /\ q = job["pipeline"].stage
  BY <1>1, HereLemma DEF Here, ProcessPlaces
<1>3. "pipeline" \in RecordThreads /\ job \in [RecordThreads -> Jobs]
  BY DEF RecordThreads, ConfigInv, PlacesOK
<1>4. CASE stage[q].closed /\ Rest("pipeline")
  BY <1>1, <1>3, <1>4, OneJob, RestIsAJob, FilesQuiet DEF Rest
<1>5. CASE ~stage[q].closed /\ Goto("pipeline", "open")
  <2>1. /\ job'["pipeline"].at = "open" /\ job'["pipeline"].stage = q
        /\ \A u \in RecordThreads \ {"pipeline"} : job'[u] = job[u]
    BY <1>2, <1>3, <1>5, OnePlace DEF ProcessPlaces
  <2>2. ASSUME FileOK(q) PROVE FileOK(q)'
    <3>1. ~Shutting("pipeline", q) /\ ~Shutting("pipeline", q)'
      BY <1>1, <2>1 DEF Shutting, At
    <3> QED
      BY <1>1, <1>3, <1>5, <2>1, <2>2, <3>1, FileAside
  <2> QED
    BY <1>1, <1>2, <1>3, <2>1, <2>2, FilesOneStage
<1> QED
  BY <1>1, <1>2, <1>4, <1>5

\* A step inside process: the stage is not closed, and the file keeps to it.
LEMMA ProcessFiles ==
  ASSUME ConfigInv, FilesInv, NEW at \in {"open", "write", "finish"}, job["pipeline"].at = at,
         NEW q \in Made, job["pipeline"].stage = q,
         \/ Rest("pipeline")
         \/ \E place \in {"write", "finish"} : Goto("pipeline", place)
         \/ job' = [job EXCEPT !["pipeline"] = [@ EXCEPT !.at = "close", !.after = "announce"]],
         UNCHANGED <<created, torn>>,
         NEW x \in Records, stage' = [stage EXCEPT ![q] = x],
         x.path = stage[q].path, x.closed = stage[q].closed,
         \A r \in Recordings \ {x.path} : partial'[r] = partial[r] /\ final'[r] = final[r],
         Fill(q) /\ (at \in {"write", "finish"} => stage[q].file = "partial") =>
           /\ Fill(q)'
           /\ job'["pipeline"].at \in {"write", "finish"} => x.file = "partial"
  PROVE  FilesInv'
<1>1. job["pipeline"].stage = q
  OBVIOUS
<1>2. /\ "pipeline" \in RecordThreads /\ "ui" \in RecordThreads
      /\ job \in [RecordThreads -> Jobs] /\ Made \subseteq Stages
  BY HereLemma DEF RecordThreads, ConfigInv, PlacesOK, ProcessPlaces
<1>3. /\ \A u \in RecordThreads \ {"pipeline"} : job'[u] = job[u]
      /\ \/ job'["pipeline"].at = "idle"
         \/ job'["pipeline"].at \in {"write", "finish", "close"} /\ job'["pipeline"].stage = q
  <2>1. CASE Rest("pipeline")
    BY <1>2, <2>1, OneJob, RestIsAJob DEF Rest
  <2>2. CASE \E place \in {"write", "finish"} : Goto("pipeline", place)
    BY <1>1, <1>2, <2>2, OnePlace DEF ProcessPlaces
  <2>3. CASE job' = [job EXCEPT !["pipeline"] = [@ EXCEPT !.at = "close", !.after = "announce"]]
    <3>1. job["pipeline"] \in Jobs
      BY <1>2
    <3>2. PICK y : y = [job["pipeline"] EXCEPT !.at = "close", !.after = "announce"]
      OBVIOUS
    <3>3. y \in Jobs /\ y.at = "close" /\ y.stage = q
      BY <1>1, <3>1, <3>2 DEF Jobs, ClosingPlaces
    <3>4. job' = [job EXCEPT !["pipeline"] = y]
      BY <2>3, <3>2
    <3> QED
      BY <1>2, <3>3, <3>4, OneJob
  <2> QED
    BY <2>1, <2>2, <2>3
<1>4. stage'[q] = x /\ \A s \in Stages \ {q} : stage'[s] = stage[s]
  BY <1>1, <1>2 DEF ConfigInv, RecordingTypeOK
<1>5. x.path = stage[q].path /\ x.closed = stage[q].closed
  OBVIOUS
<1>6. /\ \A s \in Made : stage'[s].path = stage[s].path
      /\ \A s \in Made \ {q} : stage'[s] = stage[s]
  BY <1>2, <1>4, <1>5
<1>7. ASSUME FileOK(q) PROVE FileOK(q)'
  <2>1. InStage(q)
    BY <1>1 DEF InStage
  <2>2. /\ ~stage[q].closed /\ Fill(q) /\ (at \in {"write", "finish"} => stage[q].file = "partial")
        /\ ~Shutting("ui", q)
    BY <1>2, <1>7, <2>1 DEF FileOK, At
  <2>3. /\ Fill(q)' /\ (job'["pipeline"].at \in {"write", "finish"} => x.file = "partial")
    BY <2>2
  <2>4. ~Shutting("pipeline", q)' /\ ~Shutting("ui", q)'
    BY <1>2, <1>3, <2>2 DEF Shutting, At
  <2> QED
    BY <1>4, <1>5, <2>2, <2>3, <2>4 DEF FileOK, RecordThreads, At
<1> QED
  BY <1>1, <1>2, <1>3, <1>5, <1>6, <1>7, FilesOneStage

LEMMA ProcessStepsFiles ==
  ASSUME ConfigInv, FilesInv, EnsureOpen \/ WriteSamples \/ Finalize PROVE FilesInv'
<1>1. /\ job["pipeline"].at \in {"open", "write", "finish"} /\ UNCHANGED <<created, torn>>
  BY DEF EnsureOpen, WriteSamples, Finalize, HereIs, pipelines, outcome
<1>2. PICK q \in Made, r \in Recordings :
        q = Here /\ q = job["pipeline"].stage /\ r = stage[q].path /\ stage[q] \in Records
  BY <1>1, HereLemma DEF Here, ProcessPlaces
<1>3. /\ job \in [RecordThreads -> Jobs] /\ "pipeline" \in RecordThreads /\ q \in Stages
      /\ stage \in [Stages -> Records]
      /\ {partial, final} \subseteq [Recordings -> Nat \cup {NoFile}]
  BY <1>1, HereLemma DEF ConfigInv, PlacesOK, ProcessPlaces, RecordingTypeOK, Records
<1>4. CASE /\ Rest("pipeline") \/ Goto("pipeline", "finish")
           /\ job["pipeline"].at \in {"write", "finish"} /\ UNCHANGED <<stage, partial, final>>
  <2>1. stage' = [stage EXCEPT ![q] = stage[q]]
    BY <1>3, <1>4
  <2>2. Fill(q)' = Fill(q)
    BY <1>4 DEF Fill
  <2> QED
    BY <1>1, <1>2, <1>4, <2>1, <2>2, ProcessFiles
<1>5. CASE EnsureOpen
  <2>1. job["pipeline"].at = "open" /\ Goto("pipeline", "write") /\ UNCHANGED final
    BY <1>5 DEF EnsureOpen, HereIs
  <2>2. CASE stage[q].file # "none" /\ UNCHANGED <<stage, partial>>
    <3>1. stage' = [stage EXCEPT ![q] = stage[q]]
      BY <1>3, <2>2
    <3>2. Fill(q)' = Fill(q) /\ (Fill(q) => stage[q].file = "partial")
      BY <2>1, <2>2 DEF Fill
    <3> QED
      BY <1>1, <1>2, <2>1, <2>2, <3>1, <3>2, ProcessFiles, ZenonT(60)
  <2>3. CASE /\ stage[q].file = "none" /\ partial' = [partial EXCEPT ![r] = 0]
             /\ stage' = [stage EXCEPT ![q] = [@ EXCEPT !.file = "partial", !.writer = TRUE]]
    <3>1. PICK x : x = [stage[q] EXCEPT !.file = "partial", !.writer = TRUE]
      OBVIOUS
    <3>2. /\ x \in Records /\ x.path = r /\ x.file = "partial" /\ x.closed = stage[q].closed
          /\ x.written = stage[q].written
      BY <1>2, <3>1 DEF Records
    <3>3. stage' = [stage EXCEPT ![q] = x] /\ stage'[q] = x
      BY <1>3, <2>3, <3>1
    <3>4. \A p \in Recordings \ {r} : partial'[p] = partial[p] /\ final'[p] = final[p]
      BY <1>3, <2>1, <2>3
    <3>5. partial'[r] = 0 /\ final'[r] = final[r]
      BY <1>2, <1>3, <2>1, <2>3
    <3>6. Fill(q) => Fill(q)'
      BY <1>2, <2>3, <3>2, <3>3, <3>5 DEF Fill
    <3> QED
      BY <1>1, <1>2, <2>1, <3>2, <3>3, <3>4, <3>6, ProcessFiles
  <2> QED
    BY <1>2, <1>5, <2>2, <2>3 DEF EnsureOpen
<1>6. CASE /\ job["pipeline"].at = "write"
           /\ (Limited(Here) => Room(Here) > 0)
           /\ Write(Fitting)
  <2>0. Fitting \in Nat
    BY <1>6, FittingLemma DEF ProcessPlaces
  <2>1. PICK k \in Nat : k = Fitting
    BY <2>0
  <2>2. PICK x : x = [stage[q] EXCEPT !.written = @ + k]
    OBVIOUS
  <2>3. /\ x \in Records /\ x.path = r /\ x.file = stage[q].file /\ x.closed = stage[q].closed
        /\ x.written = stage[q].written + k
    BY <1>2, <2>2, SMTT(30) DEF Records
  <2>4. /\ stage' = [stage EXCEPT ![q] = x]
        /\ partial' = IF stage[q].file = "partial" THEN [partial EXCEPT ![r] = @ + k] ELSE partial
        /\ final' = IF stage[q].file = "final" THEN [final EXCEPT ![r] = @ + k] ELSE final
        /\ Goto("pipeline", "finish") \/ Rest("pipeline")
    BY <1>2, <1>6, <2>1, <2>2 DEF Write
  <2>5. \A p \in Recordings \ {r} : partial'[p] = partial[p] /\ final'[p] = final[p]
    BY <1>3, <2>4
  <2>6. ASSUME Fill(q), stage[q].file = "partial" PROVE Fill(q)'
    <3>1. stage'[q] = x
      BY <1>3, <2>4
    <3>2. partial[r] = stage[q].written /\ final[r] = NoFile
      BY <1>2, <2>6 DEF Fill
    <3>3. partial'[r] = partial[r] + k /\ final'[r] = NoFile
      BY <1>2, <1>3, <2>4, <2>6, <3>2
    <3> QED
      BY <2>3, <2>6, <3>1, <3>2, <3>3 DEF Fill
  <2> QED
    BY <1>1, <1>2, <1>6, <2>3, <2>4, <2>5, <2>6, ProcessFiles
<1>7. CASE /\ job["pipeline"].at = "finish" /\ UNCHANGED <<partial, final>>
           /\ stage' = [stage EXCEPT ![q].published = TRUE]
           /\ job' = [job EXCEPT !["pipeline"] = [@ EXCEPT !.at = "close", !.after = "announce"]]
  <2>1. PICK x : x = [stage[q] EXCEPT !.published = TRUE]
    OBVIOUS
  <2>2. /\ x \in Records /\ x.path = r /\ x.file = stage[q].file /\ x.closed = stage[q].closed
        /\ x.written = stage[q].written
    BY <1>2, <2>1 DEF Records
  <2>3. stage' = [stage EXCEPT ![q] = x] /\ stage'[q] = x
    BY <1>3, <1>7, <2>1
  <2>4. Fill(q) => Fill(q)'
    BY <1>2, <1>7, <2>2, <2>3 DEF Fill
  <2> QED
    BY <1>1, <1>2, <1>7, <2>2, <2>3, <2>4, ProcessFiles
<1>8. CASE WriteSamples
  <2>1. /\ job["pipeline"].at = "write"
        /\ \/ Goto("pipeline", "finish") /\ UNCHANGED <<stage, partial, final>>
           \/ (Limited(Here) => Room(Here) > 0) /\ Write(Fitting)
           \/ Rest("pipeline") /\ UNCHANGED <<stage, partial, final>>
    BY <1>8 DEF WriteSamples, HereIs, files
  <2> QED
    BY <1>4, <1>6, <2>1
<1>9. CASE Finalize
  <2>1. /\ job["pipeline"].at = "finish" /\ UNCHANGED <<partial, final>>
        /\ \/ Rest("pipeline") /\ UNCHANGED stage
           \/ /\ stage' = [stage EXCEPT ![q].published = TRUE]
              /\ job' = [job EXCEPT !["pipeline"] = [@ EXCEPT !.at = "close", !.after = "announce"]]
    BY <1>2, <1>9 DEF Finalize, HereIs, files
  <2> QED
    BY <1>4, <1>7, <2>1
<1> QED
  BY <1>5, <1>8, <1>9

LEMMA FilesStep ==
  ASSUME ConfigInv, FilesInv, [RecordingNext]_recordingVars PROVE FilesInv'
<1>1. CASE UNCHANGED recordingVars
  BY <1>1 DEF recordingVars, configuration, pipelines, files, outcome, FilesInv, FileOK, Fill, Shut,
     Whole, Made, Shutting, InStage, At
<1>2. ASSUME NEW t \in RecordThreads, StepOf(t) PROVE FilesInv'
  BY <1>2, QuietStepsFiles, ApplyConfigFiles, BeginCloseFiles, CloseHandlesFiles,
     RenamePartialFiles DEF StepOf
<1>3. CASE StepOfProcess
  BY <1>3, CheckClosedFiles, ProcessStepsFiles, QuietStepsFiles DEF StepOfProcess
<1> QED
  BY <1>1, <1>2, <1>3, QuietStepsFiles DEF RecordingNext

\* For any recordings, limits and batches: a recording that was closed between two batches has
\* every sample its stage took, under its final name, whoever closed it and whatever came between.
THEOREM ClosedIsKept ==
  ASSUME ~Overlap PROVE RecordingSpec => []ClosedRecordingIsKept
<1> DEFINE Inv == ConfigInv /\ FilesInv
<1>1. RecordingInit => Inv
  BY ConfigInit, FilesInit
<1>2. Inv /\ [RecordingNext]_recordingVars => Inv'
  BY ConfigStep, FilesStep
<1>3. Inv => ClosedRecordingIsKept
  <2> SUFFICES ASSUME ConfigInv, FilesInv, NEW s \in Stages, stage[s].closed,
                      stage[s].path \notin torn,
                      \A t \in RecordThreads : ~(Closing(t) /\ job[t].stage = s)
               PROVE  Whole(s)
    BY DEF ClosedRecordingIsKept, Whole
  <2>1. s \in Made
    BY DEF ConfigInv, StagesOK, NewStage
  <2>2. \A t \in RecordThreads : ~Shutting(t, s)
    BY DEF Shutting, At, Closing
  <2> QED
    BY <2>1, <2>2 DEF FilesInv, FileOK
<1> QED
  BY <1>1, <1>2, <1>3, PTL DEF RecordingSpec

-------------------------------------------------------------------------------
(* Persistence: the lists of steps.                                          *)

Members(s) == {s[i] : i \in 1 .. Len(s)}

\* What may follow a step in a list.
Links(x, y) ==
  /\ x[1] = "load" => y = <<"open", x[2]>>
  /\ x[1] = "open" => y = <<"dump", x[2]>>
  /\ x = <<"current">> => y = <<"load", "tuning">>
  /\ x = <<"retune">> => y = <<"writeback">>
  /\ x = <<"writeback">> => y = <<"adapter">>
  /\ x # <<"exit">>
  /\ y[1] = "dump" => x = <<"open", y[2]>>
  /\ y[1] = "open" /\ FileOf[y[2]] = "config" => x = <<"load", y[2]>>
  /\ y = <<"throttle">> => x = <<"dump", "register">>

\* A step that begins something.
Starts(y) == /\ y[1] # "dump" /\ y # <<"throttle">>
             /\ ~(y[1] = "open" /\ FileOf[y[2]] = "config")

Unfinished == {"load", "open", "retune", "current"}
SavingKinds == {"load", "open", "dump", "throttle"}

Linked(s) ==
  /\ s \in Seq(Steps)
  /\ \A i \in 1 .. Len(s) - 1 : Links(s[i], s[i + 1])
  /\ \A i \in 1 .. Len(s) : s[i] = <<"retune">> => i + 2 <= Len(s)
Ended(s) == s # <<>> => s[Len(s)][1] \notin Unfinished

\* A list of whole saves.
Piece(s) ==
  /\ Linked(s) /\ s # <<>> /\ Starts(s[1])
  /\ s[Len(s)][1] \in {"dump", "throttle"}
  /\ \A x \in Members(s) : x[1] \in SavingKinds

LEMMA FilesOfEntries ==
  /\ FileOf \in [Entries -> Files]
  /\ FileOf["ui"] = "config" /\ FileOf["engine"] = "config" /\ FileOf["tuning"] = "config"
  /\ FileOf["device"] = "devices" /\ FileOf["register"] = "bandstack"
  /\ \A e \in Entries : /\ FileOf[e] = "devices" => e = "device"
                        /\ FileOf[e] = "bandstack" => e = "register"
BY DEF FileOf, Entries, Files

Singles == {"writeback", "throttle", "adapter", "retune", "resume", "current",
            "stop", "bands", "closeUi", "closeEngine", "exit"}

LEMMA StepShapes ==
  ASSUME NEW x \in Steps
  PROVE  /\ x[1] \in Singles \cup {"load", "open", "dump"}
         /\ x[1] \in Singles => x = <<x[1]>>
         /\ x[1] \in {"load", "open", "dump"} => x = <<x[1], x[2]>> /\ x[2] \in Entries
<1>1. CASE x \in {<<k>> : k \in Singles}
  BY <1>1 DEF Singles
<1>2. CASE x \in {<<k, e>> : k \in {"load", "open", "dump"}, e \in Entries}
  <2>1. PICK k \in {"load", "open", "dump"}, e \in Entries : x = <<k, e>>
    BY <1>2
  <2>2. x[1] = k /\ x[2] = e
    BY <2>1
  <2> QED
    BY <2>1, <2>2 DEF Singles
<1> QED
  BY <1>1, <1>2 DEF Steps, Singles

LEMMA TailMembers ==
  ASSUME NEW s \in Seq(Steps), s # <<>>
  PROVE  \A x : x \in Members(s) <=> x = Head(s) \/ x \in Members(Tail(s))
<1>1. /\ Len(s) \in Nat \ {0} /\ Head(s) = s[1] /\ Len(Tail(s)) = Len(s) - 1
      /\ \A i \in 1 .. Len(s) - 1 : Tail(s)[i] = s[i + 1]
  BY HeadTailProperties, EmptySeq
<1>2. ASSUME NEW i \in 1 .. Len(s), i # 1 PROVE s[i] \in Members(Tail(s))
  <2>1. i - 1 \in 1 .. Len(s) - 1 /\ (i - 1) + 1 = i
    BY <1>1, <1>2
  <2>2. Tail(s)[i - 1] = s[i]
    BY <1>1, <2>1
  <2> QED
    BY <1>1, <2>1, <2>2 DEF Members
<1>3. ASSUME NEW i \in 1 .. Len(Tail(s)) PROVE Tail(s)[i] \in Members(s)
  <2>1. i + 1 \in 1 .. Len(s) /\ Tail(s)[i] = s[i + 1]
    BY <1>1
  <2> QED
    BY <2>1 DEF Members
<1>4. s[1] \in Members(s)
  BY <1>1 DEF Members
<1> QED
  BY <1>1, <1>2, <1>3, <1>4 DEF Members

LEMMA TailLinked ==
  ASSUME NEW s, Linked(s), Ended(s), s # <<>>
  PROVE  /\ Head(s) = s[1] /\ s[1] \in Steps
         /\ Linked(Tail(s)) /\ Ended(Tail(s))
         /\ Tail(s) # <<>> => Links(s[1], Tail(s)[1]) /\ Tail(s)[Len(Tail(s))] = s[Len(s)]
         /\ Tail(s) = <<>> => s[1] = s[Len(s)]
         /\ s[1] = <<"retune">> => <<"adapter">> \in Members(Tail(s))
         /\ s[1] = <<"current">> => <<"open", "tuning">> \in Members(Tail(s))
<1>1. /\ Len(s) \in Nat \ {0} /\ Head(s) = s[1] /\ Len(Tail(s)) = Len(s) - 1
      /\ Tail(s) \in Seq(Steps)
      /\ \A i \in 1 .. Len(s) - 1 : Tail(s)[i] = s[i + 1]
  BY HeadTailProperties, EmptySeq DEF Linked
<1>2. s[1] \in Steps
  BY <1>1 DEF Linked
<1>3. ASSUME NEW i \in 1 .. Len(Tail(s)) - 1 PROVE Links(Tail(s)[i], Tail(s)[i + 1])
  <2>1. i \in 1 .. Len(s) - 1 /\ i + 1 \in 1 .. Len(s) - 1
    BY <1>1
  <2>2. Tail(s)[i] = s[i + 1] /\ Tail(s)[i + 1] = s[(i + 1) + 1]
    BY <1>1, <2>1
  <2>3. Links(s[i + 1], s[(i + 1) + 1])
    BY <2>1 DEF Linked
  <2> QED
    BY <2>2, <2>3
<1>4. ASSUME NEW i \in 1 .. Len(Tail(s)), Tail(s)[i] = <<"retune">> PROVE i + 2 <= Len(Tail(s))
  <2>1. i + 1 \in 1 .. Len(s) /\ s[i + 1] = <<"retune">>
    BY <1>1, <1>4
  <2>2. (i + 1) + 2 <= Len(s)
    BY <2>1 DEF Linked
  <2> QED
    BY <1>1, <2>2
<1>5. Linked(Tail(s))
  BY <1>1, <1>3, <1>4 DEF Linked
<1>6. ASSUME Tail(s) # <<>>
      PROVE  Len(s) > 1 /\ Links(s[1], Tail(s)[1]) /\ Tail(s)[Len(Tail(s))] = s[Len(s)]
  <2>1. Len(Tail(s)) \in Nat \ {0}
    BY <1>1, <1>6, EmptySeq
  <2>2. 1 \in 1 .. Len(s) - 1 /\ Len(s) - 1 \in 1 .. Len(s) - 1 /\ (Len(s) - 1) + 1 = Len(s)
    BY <1>1, <2>1
  <2>3. Tail(s)[1] = s[1 + 1] /\ Tail(s)[Len(s) - 1] = s[Len(s)]
    BY <1>1, <2>2
  <2>4. Links(s[1], s[1 + 1])
    BY <2>2 DEF Linked
  <2> QED
    BY <1>1, <2>1, <2>3, <2>4
<1>7. Ended(Tail(s))
  BY <1>6 DEF Ended
<1>8. ASSUME Tail(s) = <<>> PROVE s[1] = s[Len(s)]
  <2>. DEFINE n == Len(s)
              k == Len(Tail(s))
  <2>1. n \in Nat \ {0} /\ k = n - 1
    BY <1>1
  <2>2. k = 0
    BY <1>8, EmptySeq, Zenon
  <2>. HIDE DEF n, k
  <2>3. n = 1
    BY <2>1, <2>2
  <2> QED
    BY <1>1, <2>3 DEF n
<1>9. ASSUME s[1] = <<"retune">> PROVE <<"adapter">> \in Members(Tail(s))
  <2>1. 1 + 2 <= Len(s)
    BY <1>1, <1>9 DEF Linked
  <2>2. 1 \in 1 .. Len(s) - 1 /\ 2 \in 1 .. Len(s) - 1 /\ 2 \in 1 .. Len(Tail(s))
    BY <1>1, <2>1
  <2>3. Links(s[1], s[1 + 1]) /\ Links(s[2], s[2 + 1]) /\ Tail(s)[2] = s[2 + 1]
    BY <1>1, <2>2 DEF Linked
  <2>4. s[2] = <<"writeback">>
    BY <1>9, <2>3 DEF Links
  <2>5. s[2 + 1] = <<"adapter">>
    BY <2>3, <2>4 DEF Links
  <2> QED
    BY <2>2, <2>3, <2>5 DEF Members
<1>10. ASSUME s[1] = <<"current">> PROVE <<"open", "tuning">> \in Members(Tail(s))
  <2>1. s[1][1] \in Unfinished
    BY <1>10 DEF Unfinished
  <2>2. Tail(s) # <<>>
    BY <1>8, <2>1 DEF Ended
  <2>3. Tail(s)[1] = <<"load", "tuning">>
    BY <1>6, <1>10, <2>2 DEF Links
  <2>4. Len(Tail(s)) \in Nat \ {0}
    BY <1>1, <2>2, EmptySeq
  <2>5. Len(Tail(s)) # 1
    BY <1>7, <2>2, <2>3 DEF Ended, Unfinished
  <2>. DEFINE n == Len(Tail(s))
  <2>. HIDE DEF n
  <2>6. 1 \in 1 .. n - 1 /\ 2 \in 1 .. n
    <3>1. n \in Nat \ {0} /\ n # 1
      BY <2>4, <2>5 DEF n
    <3> QED
      BY <3>1
  <2>7. Links(Tail(s)[1], Tail(s)[2])
    <3>1. Links(Tail(s)[1], Tail(s)[1 + 1]) /\ 1 + 1 = 2
      BY <1>5, <2>6 DEF Linked, n
    <3> QED
      BY <3>1
  <2>8. Tail(s)[2] = <<"open", "tuning">>
    <3>1. Links(<<"load", "tuning">>, Tail(s)[2])
      BY <2>3, <2>7
    <3> QED
      BY <3>1 DEF Links
  <2> QED
    BY <2>6, <2>8 DEF Members, n
<1> QED
  BY <1>1, <1>2, <1>5, <1>6, <1>7, <1>8, <1>9, <1>10

LEMMA StartsFollow ==
  /\ \A x, y : x[1] \in {"dump", "throttle"} /\ x # <<"exit">> /\ Starts(y) => Links(x, y)
  /\ \A x, y : Links(x, y) /\ x[1] \notin {"load", "open", "dump"} => Starts(y)
<1>1. ASSUME NEW x, NEW y, x[1] \in {"dump", "throttle"}, Starts(y) PROVE Links(x, y)
  <2>1. x # <<"exit">> /\ x # <<"current">> /\ x # <<"retune">> /\ x # <<"writeback">>
    BY <1>1
  <2> QED
    BY <1>1, <2>1 DEF Links, Starts
<1>2. ASSUME NEW x, NEW y, Links(x, y), x[1] \notin {"load", "open", "dump"} PROVE Starts(y)
  <2>1. y[1] # "dump"
    BY <1>2 DEF Links
  <2>2. y # <<"throttle">>
    BY <1>2 DEF Links
  <2>3. ~(y[1] = "open" /\ FileOf[y[2]] = "config")
    BY <1>2 DEF Links
  <2> QED
    BY <2>1, <2>2, <2>3 DEF Starts
<1> QED
  BY <1>1, <1>2

LEMMA JoinedMembers ==
  ASSUME NEW a \in Seq(Steps), NEW b \in Seq(Steps)
  PROVE  \A x : x \in Members(a \o b) <=> x \in Members(a) \/ x \in Members(b)
<1>1. /\ Len(a) \in Nat /\ Len(b) \in Nat /\ Len(a \o b) = Len(a) + Len(b)
      /\ \A i \in 1 .. Len(a) + Len(b) : (a \o b)[i] = IF i <= Len(a) THEN a[i] ELSE b[i - Len(a)]
  BY ConcatProperties, LenProperties
<1>2. ASSUME NEW i \in 1 .. Len(a) PROVE a[i] \in Members(a \o b)
  <2>1. i \in 1 .. Len(a \o b) /\ (a \o b)[i] = a[i]
    BY <1>1
  <2> QED
    BY <2>1 DEF Members
<1>3. ASSUME NEW i \in 1 .. Len(b) PROVE b[i] \in Members(a \o b)
  <2>1. /\ Len(a) + i \in 1 .. Len(a) + Len(b) /\ ~(Len(a) + i <= Len(a))
        /\ (Len(a) + i) - Len(a) = i
    BY <1>1
  <2>2. (a \o b)[Len(a) + i] = b[i]
    BY <1>1, <2>1
  <2> QED
    BY <1>1, <2>1, <2>2 DEF Members
<1>4. ASSUME NEW i \in 1 .. Len(a \o b) PROVE (a \o b)[i] \in Members(a) \/ (a \o b)[i] \in Members(b)
  <2>1. i <= Len(a) => i \in 1 .. Len(a) /\ (a \o b)[i] = a[i]
    BY <1>1
  <2>2. ~(i <= Len(a)) => i - Len(a) \in 1 .. Len(b) /\ (a \o b)[i] = b[i - Len(a)]
    BY <1>1
  <2> QED
    BY <2>1, <2>2 DEF Members
<1> QED
  BY <1>2, <1>3, <1>4 DEF Members

LEMMA JoinedLinked ==
  ASSUME NEW a, NEW b, Linked(a), Linked(b), a # <<>>, b # <<>>, Links(a[Len(a)], b[1])
  PROVE  /\ Linked(a \o b) /\ a \o b # <<>>
         /\ (a \o b)[1] = a[1] /\ (a \o b)[Len(a \o b)] = b[Len(b)]
<1>1. /\ a \in Seq(Steps) /\ b \in Seq(Steps) /\ a \o b \in Seq(Steps)
      /\ Len(a) \in Nat \ {0} /\ Len(b) \in Nat \ {0} /\ Len(a \o b) = Len(a) + Len(b)
      /\ \A i \in 1 .. Len(a) + Len(b) : (a \o b)[i] = IF i <= Len(a) THEN a[i] ELSE b[i - Len(a)]
  BY ConcatProperties, EmptySeq DEF Linked
<1>. DEFINE m == Len(a)
            n == Len(b)
            c == a \o b
<1>2. /\ m \in Nat \ {0} /\ n \in Nat \ {0} /\ Len(c) = m + n /\ c \in Seq(Steps)
      /\ \A i \in 1 .. m : c[i] = a[i]
      /\ \A i \in m + 1 .. m + n : c[i] = b[i - m]
  BY <1>1
<1>3. /\ \A i \in 1 .. m - 1 : Links(a[i], a[i + 1])
      /\ \A i \in 1 .. n - 1 : Links(b[i], b[i + 1])
      /\ \A i \in 1 .. m : a[i] = <<"retune">> => i + 2 <= m
      /\ \A i \in 1 .. n : b[i] = <<"retune">> => i + 2 <= n
      /\ Links(a[m], b[1])
  BY DEF Linked
<1>. HIDE DEF m, n, c
<1>0. m \in Nat /\ n \in Nat /\ m >= 1 /\ n >= 1 /\ Len(c) = m + n
  BY <1>2
<1>4. ASSUME NEW i \in 1 .. Len(c) - 1 PROVE Links(c[i], c[i + 1])
  <2>1. CASE i < m
    <3>1. i \in 1 .. m - 1 /\ c[i] = a[i] /\ c[i + 1] = a[i + 1]
      BY <1>2, <2>1
    <3> QED
      BY <1>3, <3>1
  <2>2. CASE i = m
    <3>1. m + 1 \in m + 1 .. m + n /\ (m + 1) - m = 1 /\ m \in 1 .. m
      BY <1>2
    <3>2. c[i] = a[m] /\ c[i + 1] = b[1]
      BY <1>2, <2>2, <3>1
    <3> QED
      BY <1>3, <3>2
  <2>3. CASE i > m
    <3>1. /\ i \in m + 1 .. m + n /\ i + 1 \in m + 1 .. m + n
          /\ i - m \in 1 .. n - 1 /\ (i + 1) - m = (i - m) + 1
      BY <1>0, <2>3
    <3>2. c[i] = b[i - m] /\ c[i + 1] = b[(i + 1) - m]
      BY <1>2, <3>1, Zenon
    <3> QED
      BY <1>3, <3>1, <3>2
  <2> QED
    BY <1>0, <2>1, <2>2, <2>3
<1>5. ASSUME NEW i \in 1 .. Len(c), c[i] = <<"retune">> PROVE i + 2 <= Len(c)
  <2>1. CASE i <= m
    <3>0. i \in 1 .. m
      BY <1>0, <2>1
    <3>1. i \in 1 .. m /\ a[i] = <<"retune">>
      BY <1>2, <1>5, <3>0, Zenon
    <3>2. i + 2 <= m
      BY <1>3, <3>1
    <3> QED
      BY <1>0, <3>2
  <2>2. CASE i > m
    <3>1. i \in m + 1 .. m + n /\ i - m \in 1 .. n
      BY <1>0, <2>2
    <3>2. b[i - m] = <<"retune">>
      BY <1>2, <1>5, <3>1
    <3>3. (i - m) + 2 <= n
      BY <1>3, <3>1, <3>2
    <3> QED
      BY <1>0, <3>3
  <2> QED
    BY <1>0, <2>1, <2>2
<1>6. Linked(c) /\ c # <<>>
  <2>1. Len(c) # 0
    BY <1>0
  <2>2. c # <<>>
    BY <2>1, EmptySeq, Zenon
  <2> QED
    BY <1>2, <1>4, <1>5, <2>2 DEF Linked
<1>7. c[1] = a[1] /\ c[Len(c)] = b[n]
  <2>1. /\ 1 \in 1 .. m /\ m + n \in m + 1 .. m + n /\ (m + n) - m = n
    BY <1>0
  <2> QED
    BY <1>2, <2>1
<1> QED
  BY <1>6, <1>7 DEF c, n

LEMMA PieceJoined ==
  ASSUME NEW a, NEW b, Piece(a), Piece(b)
  PROVE  Piece(a \o b)
<1>1. Links(a[Len(a)], b[1])
  <2>1. a[Len(a)][1] \in {"dump", "throttle"} /\ Starts(b[1])
    BY DEF Piece
  <2>2. a[Len(a)] # <<"exit">>
    BY <2>1
  <2> QED
    BY <2>1, <2>2, StartsFollow
<1>2. /\ Linked(a \o b) /\ a \o b # <<>>
      /\ (a \o b)[1] = a[1] /\ (a \o b)[Len(a \o b)] = b[Len(b)]
  BY <1>1, JoinedLinked DEF Piece
<1>3. \A x \in Members(a \o b) : x[1] \in SavingKinds
  BY JoinedMembers DEF Piece, Linked
<1> QED
  BY <1>2, <1>3 DEF Piece

LEMMA SingleLinked ==
  ASSUME NEW x \in Steps, x # <<"retune">>
  PROVE  /\ Linked(<<x>>) /\ <<x>> # <<>> /\ <<x>>[1] = x /\ Len(<<x>>) = 1
         /\ \A y : y \in Members(<<x>>) <=> y = x
<1>1. /\ <<x>> \in Seq(Steps) /\ <<x>> # <<>> /\ <<x>>[1] = x /\ Len(<<x>>) = 1
  OBVIOUS
<1>2. \A i \in 1 .. Len(<<x>>) : i = 1
  BY <1>1
<1>3. \A i \in 1 .. Len(<<x>>) - 1 : FALSE
  BY <1>1
<1>4. 1 \in 1 .. Len(<<x>>)
  BY <1>1
<1>5. Linked(<<x>>)
  BY <1>1, <1>2, <1>3 DEF Linked
<1>6. \A y : y \in Members(<<x>>) <=> y = x
  BY <1>1, <1>2, <1>4 DEF Members
<1> QED
  BY <1>1, <1>5, <1>6

\* Appending a step to a list.
LEMMA Appended ==
  ASSUME NEW a, Linked(a), a # <<>>, NEW x \in Steps, x # <<"retune">>, Links(a[Len(a)], x)
  PROVE  /\ Linked(a \o <<x>>) /\ a \o <<x>> # <<>>
         /\ (a \o <<x>>)[1] = a[1] /\ (a \o <<x>>)[Len(a \o <<x>>)] = x
         /\ \A y : y \in Members(a \o <<x>>) <=> y \in Members(a) \/ y = x
<1>1. PICK b : b = <<x>>
  OBVIOUS
<1>2. /\ Linked(b) /\ b # <<>> /\ b[1] = x /\ Len(b) = 1
      /\ \A y : y \in Members(b) <=> y = x
  BY <1>1, SingleLinked, Zenon
<1>3. /\ Linked(a \o b) /\ a \o b # <<>>
      /\ (a \o b)[1] = a[1] /\ (a \o b)[Len(a \o b)] = b[Len(b)]
  BY <1>2, JoinedLinked
<1>4. \A y : y \in Members(a \o b) <=> y \in Members(a) \/ y \in Members(b)
  BY <1>2, JoinedMembers DEF Linked
<1> QED
  BY <1>1, <1>2, <1>3, <1>4, Zenon

\* Lists written out.
LEMMA PairJoined ==
  ASSUME NEW x \in Steps, NEW y \in Steps
  PROVE  <<x>> \o <<y>> = <<x, y>>
<1>1. /\ <<x>> \in Seq(Steps) /\ <<y>> \in Seq(Steps) /\ <<x, y>> \in Seq(Steps)
      /\ Len(<<x>>) = 1 /\ Len(<<y>>) = 1 /\ Len(<<x, y>>) = 2
  OBVIOUS
<1>2. PICK a, b, c : a = <<x>> /\ b = <<y>> /\ c = <<x, y>>
  OBVIOUS
<1>3. a[1] = x /\ b[1] = y /\ c[1] = x /\ c[2] = y
  BY <1>2
<1>4. /\ a \in Seq(Steps) /\ b \in Seq(Steps) /\ c \in Seq(Steps)
      /\ Len(a) = 1 /\ Len(b) = 1 /\ Len(c) = 2
  BY <1>1, <1>2, Zenon
<1>5. /\ a \o b \in Seq(Steps) /\ Len(a \o b) = Len(a) + Len(b)
      /\ \A i \in 1 .. Len(a) + Len(b) : (a \o b)[i] = IF i <= Len(a) THEN a[i] ELSE b[i - Len(a)]
  BY <1>4, ConcatProperties
<1>6. Len(a \o b) = 2 /\ (a \o b)[1] = x /\ (a \o b)[2] = y
  BY <1>3, <1>4, <1>5
<1>7. \A i \in 1 .. 2 : i = 1 \/ i = 2
  OBVIOUS
<1>8. \A i \in 1 .. Len(a \o b) : (a \o b)[i] = c[i]
  BY <1>3, <1>6, <1>7
<1>9. a \o b = c
  BY <1>4, <1>5, <1>6, <1>8, SeqEqual
<1> QED
  BY <1>2, <1>9, Zenon

LEMMA TripleJoined ==
  ASSUME NEW w \in Steps, NEW x \in Steps, NEW y \in Steps
  PROVE  <<w>> \o <<x, y>> = <<w, x, y>>
<1>1. /\ <<w>> \in Seq(Steps) /\ <<x, y>> \in Seq(Steps) /\ <<w, x, y>> \in Seq(Steps)
      /\ Len(<<w>>) = 1 /\ Len(<<x, y>>) = 2 /\ Len(<<w, x, y>>) = 3
  OBVIOUS
<1>2. PICK a, b, c : a = <<w>> /\ b = <<x, y>> /\ c = <<w, x, y>>
  OBVIOUS
<1>3. a[1] = w /\ b[1] = x /\ b[2] = y /\ c[1] = w /\ c[2] = x /\ c[3] = y
  BY <1>2
<1>4. /\ a \in Seq(Steps) /\ b \in Seq(Steps) /\ c \in Seq(Steps)
      /\ Len(a) = 1 /\ Len(b) = 2 /\ Len(c) = 3
  BY <1>1, <1>2, Zenon
<1>5. /\ a \o b \in Seq(Steps) /\ Len(a \o b) = Len(a) + Len(b)
      /\ \A i \in 1 .. Len(a) + Len(b) : (a \o b)[i] = IF i <= Len(a) THEN a[i] ELSE b[i - Len(a)]
  BY <1>4, ConcatProperties
<1>6. Len(a \o b) = 3 /\ (a \o b)[1] = w /\ (a \o b)[2] = x /\ (a \o b)[3] = y
  BY <1>3, <1>4, <1>5
<1>7. \A i \in 1 .. 3 : i = 1 \/ i = 2 \/ i = 3
  OBVIOUS
<1>8. \A i \in 1 .. Len(a \o b) : (a \o b)[i] = c[i]
  BY <1>3, <1>6, <1>7
<1>9. a \o b = c
  BY <1>4, <1>5, <1>6, <1>8, SeqEqual
<1> QED
  BY <1>2, <1>9, Zenon

\* The step that opens a file is followed by the one that writes it.
LEMMA OpenDump ==
  ASSUME NEW e \in Entries
  PROVE  /\ Linked(<<<<"open", e>>, <<"dump", e>>>>)
         /\ <<<<"open", e>>, <<"dump", e>>>> # <<>>
         /\ <<<<"open", e>>, <<"dump", e>>>>[1] = <<"open", e>>
         /\ <<<<"open", e>>, <<"dump", e>>>>[Len(<<<<"open", e>>, <<"dump", e>>>>)] = <<"dump", e>>
         /\ \A y : y \in Members(<<<<"open", e>>, <<"dump", e>>>>)
                   <=> y = <<"open", e>> \/ y = <<"dump", e>>
<1>1. PICK a, x, y : x = <<"open", e>> /\ y = <<"dump", e>> /\ a = <<x>>
  OBVIOUS
<1>2. x \in Steps /\ y \in Steps /\ x # <<"retune">> /\ y # <<"retune">>
  BY <1>1 DEF Steps
<1>3. /\ Linked(a) /\ a # <<>> /\ a[1] = x /\ Len(a) = 1
      /\ \A z : z \in Members(a) <=> z = x
  BY <1>1, <1>2, SingleLinked, Zenon
<1>4. Links(x, y)
  BY <1>1 DEF Links
<1>5. /\ Linked(a \o <<y>>) /\ a \o <<y>> # <<>>
      /\ (a \o <<y>>)[1] = a[1] /\ (a \o <<y>>)[Len(a \o <<y>>)] = y
      /\ \A z : z \in Members(a \o <<y>>) <=> z \in Members(a) \/ z = y
  BY <1>2, <1>3, <1>4, Appended
<1>6. a \o <<y>> = <<x, y>>
  <2>1. <<x>> \o <<y>> = <<x, y>>
    BY <1>2, PairJoined
  <2> QED
    BY <1>1, <2>1, Zenon
<1> QED
  BY <1>1, <1>3, <1>5, <1>6, Zenon

LEMMA LoadOpenDump ==
  ASSUME NEW e \in Entries
  PROVE  LET s == <<<<"load", e>>, <<"open", e>>, <<"dump", e>>>>
         IN /\ Linked(s) /\ s # <<>> /\ s[1] = <<"load", e>> /\ s[Len(s)] = <<"dump", e>>
            /\ \A y : y \in Members(s) <=> y \in {<<"load", e>>, <<"open", e>>, <<"dump", e>>}
<1>1. PICK a, b, w, x, y : /\ w = <<"load", e>> /\ x = <<"open", e>> /\ y = <<"dump", e>>
                           /\ a = <<w>> /\ b = <<x, y>>
  OBVIOUS
<1>2. w \in Steps /\ w # <<"retune">> /\ x \in Steps /\ y \in Steps
  BY <1>1 DEF Steps
<1>3. /\ Linked(a) /\ a # <<>> /\ a[1] = w /\ Len(a) = 1
      /\ \A z : z \in Members(a) <=> z = w
  BY <1>1, <1>2, SingleLinked, Zenon
<1>4. /\ Linked(b) /\ b # <<>> /\ b[1] = x /\ b[Len(b)] = y
      /\ \A z : z \in Members(b) <=> z = x \/ z = y
  BY <1>1, OpenDump, Zenon
<1>5. Links(w, x)
  BY <1>1 DEF Links
<1>6. /\ Linked(a \o b) /\ a \o b # <<>>
      /\ (a \o b)[1] = a[1] /\ (a \o b)[Len(a \o b)] = b[Len(b)]
  BY <1>3, <1>4, <1>5, JoinedLinked
<1>7. \A z : z \in Members(a \o b) <=> z \in Members(a) \/ z \in Members(b)
  BY <1>3, <1>4, JoinedMembers DEF Linked
<1>8. a \o b = <<w, x, y>>
  <2>1. <<w>> \o <<x, y>> = <<w, x, y>>
    BY <1>2, TripleJoined
  <2> QED
    BY <1>1, <2>1, Zenon
<1> QED
  BY <1>1, <1>3, <1>4, <1>6, <1>7, <1>8, Zenon

LEMMA SavePiece ==
  ASSUME NEW e \in Entries
  PROVE  /\ Piece(Save(e)) /\ <<"open", e>> \in Members(Save(e))
         /\ Save(e)[Len(Save(e))] = <<"dump", e>>
<1>1. PICK s : s = Save(e)
  OBVIOUS
<1>2. CASE FileOf[e] = "config"
  <2>1. s = <<<<"load", e>>, <<"open", e>>, <<"dump", e>>>>
    BY <1>1, <1>2 DEF Save
  <2>2. /\ Linked(s) /\ s # <<>> /\ s[1] = <<"load", e>> /\ s[Len(s)] = <<"dump", e>>
        /\ \A y : y \in Members(s) <=> y \in {<<"load", e>>, <<"open", e>>, <<"dump", e>>}
    BY <2>1, LoadOpenDump, Zenon
  <2>3. Starts(s[1])
    BY <2>2 DEF Starts
  <2>4. \A x \in Members(s) : x[1] \in SavingKinds
    BY <2>2 DEF SavingKinds
  <2> QED
    BY <1>1, <2>2, <2>3, <2>4 DEF Piece
<1>3. CASE FileOf[e] # "config"
  <2>1. s = <<<<"open", e>>, <<"dump", e>>>>
    BY <1>1, <1>3 DEF Save
  <2>2. /\ Linked(s) /\ s # <<>> /\ s[1] = <<"open", e>> /\ s[Len(s)] = <<"dump", e>>
        /\ \A y : y \in Members(s) <=> y = <<"open", e>> \/ y = <<"dump", e>>
    BY <2>1, OpenDump, Zenon
  <2>3. Starts(s[1])
    BY <1>3, <2>2 DEF Starts
  <2>4. \A x \in Members(s) : x[1] \in SavingKinds
    BY <2>2 DEF SavingKinds
  <2> QED
    BY <1>1, <2>2, <2>3, <2>4 DEF Piece
<1> QED
  BY <1>2, <1>3

LEMMA RegisterPiece ==
  Piece(SaveRegister) /\ <<"open", "register">> \in Members(SaveRegister)
<1>1. PICK a, x : a = Save("register") /\ x = <<"throttle">>
  OBVIOUS
<1>2. "register" \in Entries /\ x \in Steps /\ x # <<"retune">>
  BY <1>1 DEF Entries, Steps
<1>3. Piece(a) /\ <<"open", "register">> \in Members(a) /\ a[Len(a)] = <<"dump", "register">>
  BY <1>1, <1>2, SavePiece, Zenon
<1>4. Links(a[Len(a)], x)
  BY <1>1, <1>3 DEF Links
<1>5. /\ Linked(a \o <<x>>) /\ a \o <<x>> # <<>>
      /\ (a \o <<x>>)[1] = a[1] /\ (a \o <<x>>)[Len(a \o <<x>>)] = x
      /\ \A y : y \in Members(a \o <<x>>) <=> y \in Members(a) \/ y = x
  BY <1>2, <1>3, <1>4, Appended DEF Piece
<1>6. x[1] = "throttle"
  BY <1>1
<1>7. Piece(a \o <<x>>)
  BY <1>3, <1>5, <1>6 DEF Piece, SavingKinds
<1>8. SaveRegister = a \o <<x>>
  BY <1>1, Zenon DEF SaveRegister
<1> QED
  BY <1>3, <1>5, <1>7, <1>8, Zenon

LEMMA EnginePiece ==
  /\ Piece(SaveEngine)
  /\ <<"open", "device">> \in Members(SaveEngine) /\ <<"open", "engine">> \in Members(SaveEngine)
<1>1. PICK a, b : a = Save("device") /\ b = Save("engine")
  OBVIOUS
<1>2. "device" \in Entries /\ "engine" \in Entries
  BY DEF Entries
<1>3. /\ Piece(a) /\ <<"open", "device">> \in Members(a)
      /\ Piece(b) /\ <<"open", "engine">> \in Members(b)
  BY <1>1, <1>2, SavePiece, Zenon
<1>4. Piece(a \o b)
  BY <1>3, PieceJoined
<1>5. \A x : x \in Members(a \o b) <=> x \in Members(a) \/ x \in Members(b)
  BY <1>3, JoinedMembers DEF Piece, Linked
<1>6. SaveEngine = a \o b
  BY <1>1, Zenon DEF SaveEngine
<1> QED
  BY <1>3, <1>4, <1>5, <1>6, Zenon

\* What the main thread begins.
Task(s) == /\ Linked(s) /\ Ended(s) /\ (s # <<>> => Starts(s[1]))

LEMMA PieceIsTask == \A s : Piece(s) => Task(s)
BY DEF Piece, Task, Ended, Unfinished

LEMMA EmptyTask == Task(<<>>) /\ \A x : x \notin Members(<<>>)
<1>1. <<>> \in Seq(Steps) /\ Len(<<>>) = 0
  BY EmptySeq
<1>2. \A i \in 1 .. Len(<<>>) : FALSE
  BY <1>1
<1>3. \A i \in 1 .. Len(<<>>) - 1 : FALSE
  BY <1>1
<1> QED
  BY <1>1, <1>2, <1>3 DEF Task, Linked, Ended, Members

LEMMA ChangedTask ==
  /\ Task(ConfigChanged) /\ ConfigChanged # <<>>
  /\ ConfigChanged[1] = <<"writeback">> /\ ConfigChanged[Len(ConfigChanged)] = <<"adapter">>
  /\ \A y : y \in Members(ConfigChanged) <=> y = <<"writeback">> \/ y = <<"adapter">>
<1>1. PICK a, x, y : x = <<"writeback">> /\ y = <<"adapter">> /\ a = <<x>>
  OBVIOUS
<1>2. x \in Steps /\ y \in Steps /\ x # <<"retune">> /\ y # <<"retune">>
  BY <1>1 DEF Steps
<1>3. /\ Linked(a) /\ a # <<>> /\ a[1] = x /\ Len(a) = 1
      /\ \A z : z \in Members(a) <=> z = x
  BY <1>1, <1>2, SingleLinked, Zenon
<1>4. Links(x, y) /\ Starts(x) /\ y[1] \notin Unfinished
  BY <1>1 DEF Links, Starts, Unfinished
<1>5. /\ Linked(a \o <<y>>) /\ a \o <<y>> # <<>>
      /\ (a \o <<y>>)[1] = a[1] /\ (a \o <<y>>)[Len(a \o <<y>>)] = y
      /\ \A z : z \in Members(a \o <<y>>) <=> z \in Members(a) \/ z = y
  BY <1>2, <1>3, <1>4, Appended
<1>6. a \o <<y>> = ConfigChanged
  <2>1. <<x>> \o <<y>> = <<x, y>>
    BY <1>2, PairJoined
  <2> QED
    BY <1>1, <2>1, Zenon DEF ConfigChanged
<1>7. Task(a \o <<y>>)
  BY <1>3, <1>4, <1>5 DEF Task, Ended
<1> QED
  BY <1>1, <1>3, <1>5, <1>6, <1>7, Zenon

LEMMA WritebackTask ==
  /\ Task(<<<<"writeback">>>>) /\ <<<<"writeback">>>> # <<>>
  /\ \A y : y \in Members(<<<<"writeback">>>>) <=> y = <<"writeback">>
<1>1. PICK x : x = <<"writeback">>
  OBVIOUS
<1>2. x \in Steps /\ x # <<"retune">> /\ Starts(x) /\ x[1] \notin Unfinished
  BY <1>1 DEF Steps, Starts, Unfinished
<1>3. /\ Linked(<<x>>) /\ <<x>> # <<>> /\ <<x>>[1] = x /\ Len(<<x>>) = 1
      /\ \A y : y \in Members(<<x>>) <=> y = x
  BY <1>2, SingleLinked
<1>4. <<x>>[Len(<<x>>)] = x
  BY <1>3, Zenon
<1>5. Task(<<x>>)
  BY <1>2, <1>3, <1>4 DEF Task, Ended
<1> QED
  BY <1>1, <1>3, <1>5, Zenon

RetuneSteps == <<<<"retune">>, <<"writeback">>, <<"adapter">>, <<"resume">>>>
RecallSteps == Save("tuning") \o RetuneSteps \o Save("register") \o <<<<"current">>>> \o Save("tuning")
QuitSteps == <<<<"stop">>, <<"bands">>, <<"closeUi">>, <<"closeEngine">>, <<"exit">>>>
RunningOnly == {"writeback", "adapter", "retune"}
ClosingOnly == {"stop", "bands", "closeUi", "closeEngine", "exit"}

LEMMA RetuneLinked ==
  /\ Linked(RetuneSteps) /\ RetuneSteps # <<>> /\ RetuneSteps[1] = <<"retune">>
  /\ RetuneSteps[Len(RetuneSteps)] = <<"resume">>
  /\ \A y \in Members(RetuneSteps) : y[1] \notin ClosingOnly
<1>1. PICK w, x, y, z : /\ w = <<"retune">> /\ x = <<"writeback">>
                        /\ y = <<"adapter">> /\ z = <<"resume">>
  OBVIOUS
<1>2. /\ w \in Steps /\ x \in Steps /\ y \in Steps /\ z \in Steps
      /\ x # <<"retune">> /\ y # <<"retune">> /\ z # <<"retune">>
  BY <1>1 DEF Steps
<1>3. Links(w, x) /\ Links(x, y) /\ Links(y, z)
  BY <1>1 DEF Links
<1>4. PICK s : s = <<w, x, y, z>>
  OBVIOUS
<1>5. s \in Seq(Steps) /\ Len(s) = 4 /\ s[1] = w /\ s[2] = x /\ s[3] = y /\ s[4] = z /\ s # <<>>
  BY <1>2, <1>4
<1>6. /\ \A i \in 1 .. 3 : (i = 1 /\ i + 1 = 2) \/ (i = 2 /\ i + 1 = 3) \/ (i = 3 /\ i + 1 = 4)
      /\ \A i \in 1 .. 4 : i = 1 \/ i = 2 \/ i = 3 \/ i = 4
  <2>1. \A i \in 1 .. 3 : (i = 1 /\ i + 1 = 2) \/ (i = 2 /\ i + 1 = 3) \/ (i = 3 /\ i + 1 = 4)
    OBVIOUS
  <2>2. \A i \in 1 .. 4 : i = 1 \/ i = 2 \/ i = 3 \/ i = 4
    OBVIOUS
  <2> QED
    BY <2>1, <2>2
<1>7. Linked(s)
  <2>1. \A i \in 1 .. Len(s) - 1 : Links(s[i], s[i + 1])
    <3>1. \A i \in 1 .. 3 : Links(s[i], s[i + 1])
      BY <1>3, <1>5, <1>6, Zenon
    <3> QED
      BY <1>5, <3>1
  <2>2. ASSUME NEW i \in 1 .. Len(s), s[i] = <<"retune">> PROVE i + 2 <= Len(s)
    <3>1. i = 1
      BY <1>2, <1>5, <1>6, <2>2
    <3> QED
      BY <1>5, <3>1
  <2> QED
    BY <1>5, <2>1, <2>2 DEF Linked
<1>8. \A e \in Members(s) : e = w \/ e = x \/ e = y \/ e = z
  BY <1>5, <1>6 DEF Members
<1>9. \A e \in Members(s) : e[1] \notin ClosingOnly
  BY <1>1, <1>8 DEF ClosingOnly
<1>10. s = RetuneSteps
  BY <1>1, <1>4, Zenon DEF RetuneSteps
<1> QED
  BY <1>1, <1>5, <1>7, <1>9, <1>10, Zenon

LEMMA SavingIsNeither ==
  \A k \in SavingKinds : k \notin ClosingOnly /\ k \notin RunningOnly
BY DEF SavingKinds, ClosingOnly, RunningOnly

LEMMA RecallTask ==
  /\ Task(RecallSteps) /\ RecallSteps # <<>>
  /\ \A x \in Members(RecallSteps) : x[1] \notin ClosingOnly
<1>1. PICK a, b, c, d : /\ a = Save("tuning") /\ b = RetuneSteps /\ c = Save("register")
                        /\ d = <<"current">>
  OBVIOUS
<1>2. "tuning" \in Entries /\ "register" \in Entries /\ d \in Steps /\ d # <<"retune">>
  BY <1>1 DEF Entries, Steps
<1>3. /\ Piece(a) /\ a[Len(a)] = <<"dump", "tuning">>
      /\ Piece(c) /\ c[Len(c)] = <<"dump", "register">>
      /\ a[1] = <<"load", "tuning">>
  <2>1. a = <<<<"load", "tuning">>, <<"open", "tuning">>, <<"dump", "tuning">>>>
    BY <1>1, FilesOfEntries DEF Save
  <2>2. a[1] = <<"load", "tuning">>
    BY <2>1
  <2>3. Piece(a) /\ a[Len(a)] = <<"dump", "tuning">>
    BY <1>1, <1>2, SavePiece, Zenon
  <2>4. Piece(c) /\ c[Len(c)] = <<"dump", "register">>
    BY <1>1, <1>2, SavePiece, Zenon
  <2> QED
    BY <2>2, <2>3, <2>4
<1>4. /\ Linked(b) /\ b # <<>> /\ b[1] = <<"retune">> /\ b[Len(b)] = <<"resume">>
      /\ \A y \in Members(b) : y[1] \notin ClosingOnly
  BY <1>1, RetuneLinked, Zenon
<1>. DEFINE Good(s) == /\ Linked(s) /\ s # <<>> /\ s[1] = <<"load", "tuning">>
                       /\ \A x \in Members(s) : x[1] \notin ClosingOnly
<1>5. Good(a)
  BY <1>3, SavingIsNeither DEF Piece
<1>6. Good(a \o b) /\ (a \o b)[Len(a \o b)] = <<"resume">>
  <2>1. Links(a[Len(a)], b[1])
    BY <1>3, <1>4 DEF Links
  <2>2. /\ Linked(a \o b) /\ a \o b # <<>>
        /\ (a \o b)[1] = a[1] /\ (a \o b)[Len(a \o b)] = b[Len(b)]
    BY <1>4, <1>5, <2>1, JoinedLinked
  <2>3. \A x : x \in Members(a \o b) <=> x \in Members(a) \/ x \in Members(b)
    BY <1>4, <1>5, JoinedMembers DEF Linked
  <2> QED
    BY <1>4, <1>5, <2>2, <2>3
<1>7. PICK s : s = a \o b
  OBVIOUS
<1>8. Good(s \o c) /\ (s \o c)[Len(s \o c)] = <<"dump", "register">>
  <2>0. Good(s) /\ s[Len(s)] = <<"resume">>
    BY <1>6, <1>7
  <2>1. Links(s[Len(s)], c[1])
    <3>1. Starts(c[1])
      BY <1>3 DEF Piece
    <3> QED
      BY <2>0, <3>1 DEF Links, Starts
  <2>2. /\ Linked(s \o c) /\ s \o c # <<>>
        /\ (s \o c)[1] = s[1] /\ (s \o c)[Len(s \o c)] = c[Len(c)]
    BY <1>3, <2>0, <2>1, JoinedLinked DEF Piece
  <2>3. \A x : x \in Members(s \o c) <=> x \in Members(s) \/ x \in Members(c)
    BY <1>3, <2>0, JoinedMembers DEF Linked, Piece
  <2>4. \A x \in Members(c) : x[1] \notin ClosingOnly
    BY <1>3, SavingIsNeither DEF Piece
  <2> QED
    BY <1>3, <2>0, <2>2, <2>3, <2>4
<1>9. PICK u : u = s \o c
  OBVIOUS
<1>10. Good(u \o <<d>>) /\ (u \o <<d>>)[Len(u \o <<d>>)] = d
  <2>0. Good(u) /\ u[Len(u)] = <<"dump", "register">>
    BY <1>8, <1>9
  <2>1. Links(u[Len(u)], d)
    BY <1>1, <2>0 DEF Links
  <2>2. /\ Linked(u \o <<d>>) /\ u \o <<d>> # <<>>
        /\ (u \o <<d>>)[1] = u[1] /\ (u \o <<d>>)[Len(u \o <<d>>)] = d
        /\ \A y : y \in Members(u \o <<d>>) <=> y \in Members(u) \/ y = d
    BY <1>2, <2>0, <2>1, Appended
  <2>3. d[1] \notin ClosingOnly
    BY <1>1 DEF ClosingOnly
  <2> QED
    BY <2>0, <2>2, <2>3
<1>11. PICK v : v = u \o <<d>>
  OBVIOUS
<1>12. Good(v \o a) /\ (v \o a)[Len(v \o a)] = <<"dump", "tuning">>
  <2>0. Good(v) /\ v[Len(v)] = d
    BY <1>10, <1>11
  <2>1. Links(v[Len(v)], a[1])
    <3>1. Links(<<"current">>, <<"load", "tuning">>)
      BY DEF Links
    <3> QED
      BY <1>1, <1>3, <2>0, <3>1
  <2>2. /\ Linked(v \o a) /\ v \o a # <<>>
        /\ (v \o a)[1] = v[1] /\ (v \o a)[Len(v \o a)] = a[Len(a)]
    BY <1>5, <2>0, <2>1, JoinedLinked
  <2>3. \A x : x \in Members(v \o a) <=> x \in Members(v) \/ x \in Members(a)
    BY <1>5, <2>0, JoinedMembers DEF Linked
  <2> QED
    BY <1>3, <1>5, <2>0, <2>2, <2>3
<1>13. RecallSteps = v \o a
  BY <1>1, <1>7, <1>9, <1>11, Zenon DEF RecallSteps
<1>14. Starts(<<"load", "tuning">>) /\ <<"dump", "tuning">>[1] \notin Unfinished
  BY DEF Starts, Unfinished
<1> QED
  BY <1>12, <1>13, <1>14 DEF Task, Ended

LEMMA QuitTask ==
  /\ Task(QuitSteps) /\ QuitSteps # <<>>
  /\ \A x : x \in Members(QuitSteps) <=> x \in {<<k>> : k \in ClosingOnly}
<1>1. PICK a, b, c, d, e : /\ a = <<"stop">> /\ b = <<"bands">> /\ c = <<"closeUi">>
                           /\ d = <<"closeEngine">> /\ e = <<"exit">>
  OBVIOUS
<1>2. /\ a \in Steps /\ b \in Steps /\ c \in Steps /\ d \in Steps /\ e \in Steps
  BY <1>1 DEF Steps
<1>3. /\ a # <<"retune">> /\ b # <<"retune">> /\ c # <<"retune">> /\ d # <<"retune">>
      /\ e # <<"retune">>
  BY <1>1
<1>4. Links(a, b) /\ Links(b, c) /\ Links(c, d) /\ Links(d, e)
  BY <1>1 DEF Links
<1>5. Starts(a) /\ e[1] \notin Unfinished
  BY <1>1 DEF Starts, Unfinished
<1>6. PICK s : s = <<a, b, c, d, e>>
  OBVIOUS
<1>7. /\ s \in Seq(Steps) /\ Len(s) = 5 /\ s # <<>>
      /\ s[1] = a /\ s[2] = b /\ s[3] = c /\ s[4] = d /\ s[5] = e
  BY <1>2, <1>6
<1>8. /\ \A i \in 1 .. 4 : (i = 1 /\ i + 1 = 2) \/ (i = 2 /\ i + 1 = 3) \/ (i = 3 /\ i + 1 = 4)
                        \/ (i = 4 /\ i + 1 = 5)
      /\ \A i \in 1 .. 5 : i = 1 \/ i = 2 \/ i = 3 \/ i = 4 \/ i = 5
      /\ 1 \in 1 .. 5 /\ 2 \in 1 .. 5 /\ 3 \in 1 .. 5 /\ 4 \in 1 .. 5 /\ 5 \in 1 .. 5
  <2>1. \A i \in 1 .. 4 : (i = 1 /\ i + 1 = 2) \/ (i = 2 /\ i + 1 = 3) \/ (i = 3 /\ i + 1 = 4)
                        \/ (i = 4 /\ i + 1 = 5)
    <3>1. \A i \in 1 .. 4 : i = 1 \/ i = 2 \/ i = 3 \/ i = 4
      OBVIOUS
    <3> QED
      BY <3>1
  <2>2. \A i \in 1 .. 5 : i = 1 \/ i = 2 \/ i = 3 \/ i = 4 \/ i = 5
    OBVIOUS
  <2>3. 1 \in 1 .. 5 /\ 2 \in 1 .. 5 /\ 3 \in 1 .. 5 /\ 4 \in 1 .. 5 /\ 5 \in 1 .. 5
    OBVIOUS
  <2> QED
    BY <2>1, <2>2, <2>3
<1>9. Linked(s)
  <2>1. \A i \in 1 .. Len(s) - 1 : Links(s[i], s[i + 1])
    <3>1. \A i \in 1 .. 4 : Links(s[i], s[i + 1])
      BY <1>4, <1>7, <1>8, Zenon
    <3> QED
      BY <1>7, <3>1
  <2>2. \A i \in 1 .. Len(s) : s[i] # <<"retune">>
    BY <1>3, <1>7, <1>8, Zenon
  <2> QED
    BY <1>7, <2>1, <2>2 DEF Linked
<1>10. \A x : x \in Members(s) <=> x = a \/ x = b \/ x = c \/ x = d \/ x = e
  BY <1>7, <1>8 DEF Members
<1>11. \A x : x \in {<<k>> : k \in ClosingOnly} <=> x = a \/ x = b \/ x = c \/ x = d \/ x = e
  BY <1>1 DEF ClosingOnly
<1>12. Task(s)
  BY <1>5, <1>7, <1>9 DEF Task, Ended
<1>13. s = QuitSteps
  BY <1>1, <1>6, Zenon DEF QuitSteps
<1> QED
  BY <1>7, <1>10, <1>11, <1>12, <1>13, Zenon

Ahead(t) == Members(todo[t])

\* What may be put before the rest of a list, and what the step makes of list s.
Insertable(s, steps) ==
  steps = <<>> \/ (Piece(steps) /\ s[1][1] \notin {"load", "open", "dump"})
Follows(r, s, steps) ==
  /\ Linked(r) /\ Ended(r) /\ (r # <<>> => Head(r) = r[1])
  /\ \A x \in Members(r) : x \in Members(steps) \/ x \in Members(s)
  /\ \A x \in Members(s) : x # s[1] => x \in Members(r)
  /\ \A x \in Members(steps) : x \in Members(r)
  /\ steps = <<>> /\ r # <<>> => Links(s[1], r[1])
  /\ r # <<>> /\ s[1][1] \notin {"load", "open", "dump"} => Starts(r[1])
  /\ s[1][1] \in Unfinished => r # <<>>
  /\ r # <<>> => r[Len(r)] = s[Len(s)] \/ r[Len(r)][1] \in {"dump", "throttle"}
  /\ s[1] = <<"retune">> => <<"adapter">> \in Members(r)
  /\ s[1] = <<"current">> => <<"open", "tuning">> \in Members(r)

LEMMA ListMoved ==
  ASSUME NEW s, Linked(s), Ended(s), s # <<>>, NEW steps, Insertable(s, steps)
  PROVE  Follows(steps \o Tail(s), s, steps)
<1>0. PICK r : r = steps \o Tail(s)
  OBVIOUS
<1>. SUFFICES Follows(r, s, steps)
  BY <1>0, Zenon
<1>1. PICK rest : rest = Tail(s)
  OBVIOUS
<1>2. /\ Head(s) = s[1] /\ s[1] \in Steps
      /\ Linked(rest) /\ Ended(rest)
      /\ rest # <<>> => Links(s[1], rest[1]) /\ rest[Len(rest)] = s[Len(s)]
      /\ rest = <<>> => s[1] = s[Len(s)]
      /\ s[1] = <<"retune">> => <<"adapter">> \in Members(rest)
      /\ s[1] = <<"current">> => <<"open", "tuning">> \in Members(rest)
  BY <1>1, TailLinked
<1>3. \A x : x \in Members(s) <=> x = s[1] \/ x \in Members(rest)
  BY <1>1, <1>2, TailMembers DEF Linked
<1>4. s[1][1] \in Unfinished => rest # <<>>
  BY <1>2 DEF Ended
<1>5. CASE steps = <<>>
  <2>1. r = rest
    BY <1>0, <1>1, <1>2, <1>5, ConcatEmptySeq DEF Linked
  <2>2. \A x : x \notin Members(steps)
    BY <1>5, EmptyTask, Zenon
  <2>3. r # <<>> => Head(r) = r[1]
    BY <1>2, <2>1, HeadTailProperties DEF Linked
  <2>4. r # <<>> /\ s[1][1] \notin {"load", "open", "dump"} => Starts(r[1])
    BY <1>2, <2>1, StartsFollow
  <2>5. /\ Linked(r) /\ Ended(r) /\ (r # <<>> => Head(r) = r[1])
        /\ \A x \in Members(r) : x \in Members(steps) \/ x \in Members(s)
        /\ \A x \in Members(s) : x # s[1] => x \in Members(r)
        /\ \A x \in Members(steps) : x \in Members(r)
        /\ steps = <<>> /\ r # <<>> => Links(s[1], r[1])
        /\ r # <<>> /\ s[1][1] \notin {"load", "open", "dump"} => Starts(r[1])
        /\ s[1][1] \in Unfinished => r # <<>>
        /\ r # <<>> => r[Len(r)] = s[Len(s)] \/ r[Len(r)][1] \in {"dump", "throttle"}
        /\ s[1] = <<"retune">> => <<"adapter">> \in Members(r)
        /\ s[1] = <<"current">> => <<"open", "tuning">> \in Members(r)
    BY <1>2, <1>3, <1>4, <2>1, <2>2, <2>3, <2>4
  <2> QED
    BY <2>5, Zenon DEF Follows
<1>6. CASE Piece(steps) /\ s[1][1] \notin {"load", "open", "dump"}
  <2>1. /\ Linked(steps) /\ steps # <<>> /\ Starts(steps[1])
        /\ steps[Len(steps)][1] \in {"dump", "throttle"}
    BY <1>6 DEF Piece
  <2>2. \A x : x \in Members(r) <=> x \in Members(steps) \/ x \in Members(rest)
    BY <1>0, <1>1, <1>2, <2>1, JoinedMembers DEF Linked
  <2>3. /\ Linked(r) /\ r # <<>> /\ r[1] = steps[1] /\ Ended(r)
        /\ r[Len(r)] = s[Len(s)] \/ r[Len(r)][1] \in {"dump", "throttle"}
    <3>1. CASE rest = <<>>
      <4>1. r = steps
        BY <1>0, <1>1, <2>1, <3>1, ConcatEmptySeq DEF Linked
      <4> QED
        BY <2>1, <4>1 DEF Ended, Unfinished
    <3>2. CASE rest # <<>>
      <4>1. Starts(rest[1])
        BY <1>2, <1>6, <3>2, StartsFollow
      <4>2. steps[Len(steps)] # <<"exit">>
        BY <2>1
      <4>3. Links(steps[Len(steps)], rest[1])
        BY <2>1, <4>1, <4>2, StartsFollow
      <4>4. /\ Linked(r) /\ r # <<>> /\ r[1] = steps[1] /\ r[Len(r)] = rest[Len(rest)]
        BY <1>0, <1>1, <1>2, <2>1, <3>2, <4>3, JoinedLinked
      <4> QED
        BY <1>2, <3>2, <4>4 DEF Ended
    <3> QED
      BY <3>1, <3>2
  <2>4. Head(r) = r[1]
    BY <2>3, HeadTailProperties DEF Linked
  <2>5. /\ Linked(r) /\ Ended(r) /\ (r # <<>> => Head(r) = r[1])
        /\ \A x \in Members(r) : x \in Members(steps) \/ x \in Members(s)
        /\ \A x \in Members(s) : x # s[1] => x \in Members(r)
        /\ \A x \in Members(steps) : x \in Members(r)
        /\ steps = <<>> /\ r # <<>> => Links(s[1], r[1])
        /\ r # <<>> /\ s[1][1] \notin {"load", "open", "dump"} => Starts(r[1])
        /\ s[1][1] \in Unfinished => r # <<>>
        /\ r # <<>> => r[Len(r)] = s[Len(s)] \/ r[Len(r)][1] \in {"dump", "throttle"}
        /\ s[1] = <<"retune">> => <<"adapter">> \in Members(r)
        /\ s[1] = <<"current">> => <<"open", "tuning">> \in Members(r)
    BY <1>2, <1>3, <1>6, <2>1, <2>2, <2>3, <2>4
  <2> QED
    BY <2>5, Zenon DEF Follows
<1> QED
  BY <1>5, <1>6, Zenon DEF Insertable

-------------------------------------------------------------------------------
(* Persistence: the invariant.                                               *)

FlagsOK == {inBand, suspended, subscribed, recent, younger, waiting, justSaved, unsaved,
            late, skipped} \subseteq BOOLEAN

StoresOK ==
  /\ phase \in {"running", "closing", "exited"}
  /\ mem \in [Entries -> Values]
  /\ \A f \in Files : file[f] = Torn \/ file[f] \in [InFile(f) -> Values]
  /\ timer \subseteq {"adapter", "ui", "engine"}
  /\ mail \in Nat
  /\ overlapped \subseteq Files /\ struck \subseteq Files
  /\ DOMAIN file = Files /\ DOMAIN todo = Threads /\ DOMAIN copy = Threads

\* The lists hang together, and each thread has only the steps that are its own: the main
\* thread those of the running program or those of on_unmount, the pipeline's the handlers' and
\* their saves.
ListsOK ==
  /\ \A t \in Threads : Linked(todo[t]) /\ Ended(todo[t])
  /\ \A x \in Ahead("main") : /\ (x[1] \in RunningOnly => phase = "running")
                              /\ (x[1] \in ClosingOnly => phase = "closing")
  /\ \A x \in Ahead("agc") : x[1] \in SavingKinds \cup {"writeback", "adapter"}
  /\ (todo["agc"] # <<>> /\ todo["agc"][Len(todo["agc"])] = <<"writeback">>) => late
  /\ phase = "exited" => \A t \in Threads : todo[t] = <<>>
  /\ phase = "running" => subscribed

\* Between the step that met nobody in the file and the end of the save.
Holds(t, f) ==
  /\ todo[t] # <<>>
  /\ \/ Doing(t)[1] = "dump" /\ FileOf[Doing(t)[2]] = f
     \/ Doing(t)[1] = "open" /\ FileOf[Doing(t)[2]] = f /\ f = "config"
     \/ Doing(t) = <<"throttle">> /\ f = "bandstack"

\* What a thread is about to write is a whole file, and what it has loaded is still there.
CopiesOK ==
  \A t \in Threads : todo[t] # <<>> =>
    /\ Doing(t)[1] = "dump" => copy[t] \in [InFile(FileOf[Doing(t)[2]]) -> Values]
    /\ (Doing(t)[1] = "open" /\ FileOf[Doing(t)[2]] = "config") =>
         /\ copy[t] \in [InFile("config") -> Values]
         /\ "config" \notin overlapped => copy[t] = LoadToml("config")

AloneInFile == \A f \in Files \ overlapped : \A t, u \in Threads :
                 Holds(t, f) /\ Holds(u, f) => t = u
TruncatedOK == \A f \in Files \ overlapped : \A t \in Threads : Dumping(t, f) => file[f] = Torn

FilesInvariant == CopiesOK /\ AloneInFile /\ TruncatedOK /\ TornIsExplained

LEMMA HeadInSteps ==
  ASSUME ListsOK, NEW t \in Threads, todo[t] # <<>>
  PROVE  Doing(t) = todo[t][1] /\ Doing(t) \in Steps /\ Doing(t) \in Ahead(t)
<1>1. Linked(todo[t]) /\ Ended(todo[t])
  BY DEF ListsOK
<1>2. Head(todo[t]) = todo[t][1] /\ todo[t][1] \in Steps
  BY <1>1, TailLinked
<1>3. Head(todo[t]) \in Members(todo[t])
  BY <1>1, TailMembers DEF Linked
<1> QED
  BY <1>2, <1>3 DEF Doing, Ahead

LEMMA Moved ==
  ASSUME ListsOK, DOMAIN todo = Threads, NEW t \in Threads, todo[t] # <<>>,
         NEW steps, steps = <<>> \/ (Piece(steps) /\ Doing(t)[1] \notin {"load", "open", "dump"}),
         Then(t, steps)
  PROVE  /\ DOMAIN todo' = Threads
         /\ \A u \in Threads \ {t} : todo'[u] = todo[u]
         /\ Linked(todo'[t]) /\ Ended(todo'[t])
         /\ \A x \in Ahead(t)' : x \in Members(steps) \/ x \in Ahead(t)
         /\ \A x \in Ahead(t) : x # Doing(t) => x \in Ahead(t)'
         /\ \A x \in Members(steps) : x \in Ahead(t)'
         /\ steps = <<>> /\ todo'[t] # <<>> => Links(Doing(t), Doing(t)')
         /\ todo'[t] # <<>> /\ Doing(t)[1] \notin {"load", "open", "dump"} => Starts(Doing(t)')
         /\ Doing(t)[1] \in Unfinished => todo'[t] # <<>>
         /\ todo'[t] # <<>> => \/ todo'[t][Len(todo'[t])] = todo[t][Len(todo[t])]
                               \/ todo'[t][Len(todo'[t])][1] \in {"dump", "throttle"}
         /\ Doing(t) = <<"retune">> => <<"adapter">> \in Ahead(t)'
         /\ Doing(t) = <<"current">> => <<"open", "tuning">> \in Ahead(t)'
<1>1. PICK s : s = todo[t]
  OBVIOUS
<1>2. Linked(s) /\ Ended(s) /\ s # <<>> /\ Doing(t) = s[1]
  BY <1>1, HeadInSteps DEF ListsOK
<1>3. PICK r : r = steps \o Tail(s)
  OBVIOUS
<1>4. todo' = [todo EXCEPT ![t] = r]
  BY <1>1, <1>3 DEF Then
<1>5. /\ DOMAIN todo' = Threads /\ todo'[t] = r
      /\ \A u \in Threads \ {t} : todo'[u] = todo[u]
  BY <1>4
<1>6. r # <<>> => Doing(t)' = Head(r)
  BY <1>5 DEF Doing
<1>7. Ahead(t) = Members(s) /\ Ahead(t)' = Members(r)
  BY <1>1, <1>5 DEF Ahead
<1>8. Follows(r, s, steps)
  <2>1. Insertable(s, steps)
    BY <1>2 DEF Insertable
  <2> QED
    BY <1>2, <1>3, <2>1, ListMoved, Zenon
<1> QED
  BY <1>1, <1>2, <1>5, <1>6, <1>7, <1>8 DEF Follows

\* After a step of a list the lists still hang together.
LEMMA MovedLists ==
  ASSUME ListsOK, DOMAIN todo = Threads, NEW t \in Threads, todo[t] # <<>>,
         NEW steps, steps = <<>> \/ (Piece(steps) /\ Doing(t)[1] \notin {"load", "open", "dump"}),
         Then(t, steps), phase' = phase, late => late',
         phase = "running" => subscribed' = subscribed
  PROVE  ListsOK'
<1>1. /\ \A u \in Threads \ {t} : todo'[u] = todo[u]
      /\ Linked(todo'[t]) /\ Ended(todo'[t])
      /\ \A x \in Ahead(t)' : x \in Members(steps) \/ x \in Ahead(t)
      /\ todo'[t] # <<>> => \/ todo'[t][Len(todo'[t])] = todo[t][Len(todo[t])]
                            \/ todo'[t][Len(todo'[t])][1] \in {"dump", "throttle"}
  BY Moved
<1>2. \A x \in Members(steps) : x[1] \in SavingKinds
  BY EmptyTask DEF Piece
<1>3. \A u \in Threads \ {t} : Ahead(u)' = Ahead(u)
  BY <1>1 DEF Ahead
<1>4. \A u \in Threads : Linked(todo'[u]) /\ Ended(todo'[u])
  BY <1>1 DEF ListsOK
<1>5. "main" \in Threads /\ "agc" \in Threads /\ \A u \in Threads : u = "main" \/ u = "agc"
  BY DEF Threads
<1>6. \A x \in Ahead("main")' : /\ (x[1] \in RunningOnly => phase' = "running")
                               /\ (x[1] \in ClosingOnly => phase' = "closing")
  <2>1. \A x \in Ahead("main") : /\ (x[1] \in RunningOnly => phase = "running")
                                 /\ (x[1] \in ClosingOnly => phase = "closing")
    BY DEF ListsOK
  <2>2. \A x \in Ahead("main")' : x[1] \in SavingKinds \/ x \in Ahead("main")
    BY <1>1, <1>2, <1>3, <1>5
  <2> QED
    BY <2>1, <2>2, SavingIsNeither
<1>7. \A x \in Ahead("agc")' : x[1] \in SavingKinds \cup {"writeback", "adapter"}
  <2>1. \A x \in Ahead("agc")' : x[1] \in SavingKinds \/ x \in Ahead("agc")
    BY <1>1, <1>2, <1>3, <1>5
  <2> QED
    BY <2>1 DEF ListsOK
<1>8. (todo'["agc"] # <<>> /\ todo'["agc"][Len(todo'["agc"])] = <<"writeback">>) => late'
  <2>1. CASE t = "agc"
    BY <1>1, <2>1 DEF ListsOK
  <2>2. CASE t # "agc"
    BY <1>1, <1>5, <2>2 DEF ListsOK
  <2> QED
    BY <2>1, <2>2
<1>9. phase' # "exited" /\ (phase' = "running" => subscribed')
  BY DEF ListsOK
<1> QED
  BY <1>4, <1>6, <1>7, <1>8, <1>9 DEF ListsOK

\* What becomes of the files when no step of a save is made: thread by thread the list is the
\* same, or something is begun.
Untouched ==
  /\ file' = file /\ copy' = copy /\ struck' = struck
  /\ overlapped \subseteq overlapped'
  /\ \A t \in Threads :
       \/ todo'[t] = todo[t]
       \/ /\ \A f \in Files : ~Dumping(t, f)
          /\ todo'[t] # <<>> => Starts(Doing(t)')

LEMMA UntouchedThreads ==
  ASSUME Untouched
  PROVE  /\ \A t \in Threads, f \in Files : Dumping(t, f)' <=> Dumping(t, f)
         /\ \A t \in Threads, f \in Files : Holds(t, f)' => Holds(t, f)
<1>1. ASSUME NEW t \in Threads, NEW f \in Files
      PROVE  (Dumping(t, f)' <=> Dumping(t, f)) /\ (Holds(t, f)' => Holds(t, f))
  <2>1. CASE todo'[t] = todo[t]
    <3>1. Doing(t)' = Doing(t)
      BY <2>1 DEF Doing
    <3> QED
      BY <2>1, <3>1 DEF Dumping, Holds
  <2>2. CASE /\ \A g \in Files : ~Dumping(t, g)
             /\ todo'[t] # <<>> => Starts(Doing(t)')
    <3>1. todo'[t] # <<>> => /\ Doing(t)'[1] # "dump" /\ Doing(t)' # <<"throttle">>
                             /\ ~(Doing(t)'[1] = "open" /\ FileOf[Doing(t)'[2]] = "config")
      BY <2>2 DEF Starts
    <3>2. ~Dumping(t, f)'
      BY <3>1 DEF Dumping
    <3>3. ~Holds(t, f)'
      BY <3>1 DEF Holds
    <3> QED
      BY <2>2, <3>2, <3>3
  <2> QED
    BY <2>1, <2>2 DEF Untouched
<1> QED
  BY <1>1

LEMMA UntouchedFiles ==
  ASSUME FilesInvariant, Untouched
  PROVE  FilesInvariant'
<1>1. /\ \A t \in Threads, f \in Files : Dumping(t, f)' <=> Dumping(t, f)
      /\ \A t \in Threads, f \in Files : Holds(t, f)' => Holds(t, f)
  BY UntouchedThreads
<1>2. \A f : f \notin overlapped' => f \notin overlapped
  BY DEF Untouched
<1>3. CopiesOK'
  <2>1. LoadToml("config")' = LoadToml("config")
    BY DEF LoadToml, Untouched
  <2>2. ASSUME NEW t \in Threads, todo'[t] # <<>>
        PROVE  /\ Doing(t)'[1] = "dump" => copy'[t] \in [InFile(FileOf[Doing(t)'[2]]) -> Values]
               /\ (Doing(t)'[1] = "open" /\ FileOf[Doing(t)'[2]] = "config") =>
                    /\ copy'[t] \in [InFile("config") -> Values]
                    /\ "config" \notin overlapped' => copy'[t] = LoadToml("config")
    <3>1. CASE todo'[t] = todo[t]
      <4>1. Doing(t)' = Doing(t) /\ todo[t] # <<>> /\ copy' = copy
        BY <2>2, <3>1 DEF Doing, Untouched
      <4>2. /\ Doing(t)[1] = "dump" => copy[t] \in [InFile(FileOf[Doing(t)[2]]) -> Values]
            /\ (Doing(t)[1] = "open" /\ FileOf[Doing(t)[2]] = "config") =>
                 /\ copy[t] \in [InFile("config") -> Values]
                 /\ "config" \notin overlapped => copy[t] = LoadToml("config")
        BY <4>1 DEF FilesInvariant, CopiesOK
      <4> QED
        BY <1>2, <4>1, <4>2
    <3>2. CASE Starts(Doing(t)')
      BY <3>2 DEF Starts
    <3> QED
      BY <2>2, <3>1, <3>2 DEF Untouched
  <2> QED
    BY <2>1, <2>2 DEF CopiesOK, InFile
<1>4. AloneInFile'
  BY <1>1, <1>2 DEF FilesInvariant, AloneInFile
<1>5. TruncatedOK'
  BY <1>1, <1>2 DEF FilesInvariant, TruncatedOK, Untouched
<1>6. TornIsExplained'
  BY <1>1 DEF FilesInvariant, TornIsExplained, Untouched
<1> QED
  BY <1>3, <1>4, <1>5, <1>6 DEF FilesInvariant

LEMMA UntouchedSaved ==
  ASSUME Untouched, NEW e \in Entries, Saved(e), mem'[e] = mem[e]
  PROVE  Saved(e)'
<1>1. FileOf[e] \in Files
  BY FilesOfEntries
<1>2. \A t \in Threads : Dumping(t, FileOf[e])' <=> Dumping(t, FileOf[e])
  BY <1>1, UntouchedThreads DEF FileOf
<1>3. Kept(e)' = Kept(e) /\ copy' = copy
  BY DEF Kept, LoadToml, Untouched
<1> QED
  BY <1>2, <1>3 DEF Saved

-------------------------------------------------------------------------------
(* Persistence: types.                                                       *)

LEMMA FreshValue ==
  ASSUME NEW e
  PROVE  Fresh(e) \in Values
<1>1. PICK a, b, c, d : /\ a = mem[e] /\ b = Kept(e)
                        /\ c = copy["main"][e] /\ d = copy["agc"][e]
  OBVIOUS
<1>2. \E v \in 1 .. 5 : v # a /\ v # b /\ v # c /\ v # d
  <2>1. 1 \in 1 .. 5 /\ 2 \in 1 .. 5 /\ 3 \in 1 .. 5 /\ 4 \in 1 .. 5 /\ 5 \in 1 .. 5
    OBVIOUS
  <2> QED
    BY <2>1
<1>3. PICK v \in 1 .. 5 : v # a /\ v # b /\ v # c /\ v # d
  BY <1>2
<1>4. v \in Values \ {0}
  BY DEF Values
<1>5. v \notin {mem[e], Kept(e)} /\ \A t \in Threads : e \in DOMAIN copy[t] => copy[t][e] # v
  BY <1>1, <1>3 DEF Threads
<1> QED
  BY <1>4, <1>5 DEF Fresh

LEMMA EntriesAndThreads ==
  /\ "main" \in Threads /\ "agc" \in Threads
  /\ {"ui", "engine", "tuning", "device", "register"} \subseteq Entries
  /\ 0 \in Values /\ 1 \in Values
  /\ "config" \in Files /\ "devices" \in Files /\ "bandstack" \in Files
BY DEF Threads, Entries, Values, Files

LEMMA KeptValue ==
  ASSUME StoresOK
  PROVE  /\ \A f \in Files : LoadToml(f) \in [InFile(f) -> Values]
         /\ \A e \in Entries : Kept(e) \in Values
<1>1. ASSUME NEW f \in Files PROVE LoadToml(f) \in [InFile(f) -> Values]
  BY EntriesAndThreads DEF LoadToml, StoresOK
<1>2. ASSUME NEW e \in Entries PROVE Kept(e) \in Values
  <2>1. FileOf[e] \in Files /\ e \in InFile(FileOf[e])
    BY FilesOfEntries DEF InFile
  <2>2. LoadToml(FileOf[e]) \in [InFile(FileOf[e]) -> Values]
    BY <1>1, <2>1
  <2> QED
    BY <2>1, <2>2 DEF Kept
<1> QED
  BY <1>1, <1>2

LEMMA BumpTyped ==
  ASSUME StoresOK, NEW e \in Entries, mem' = [mem EXCEPT ![e] = Fresh(e)]
  PROVE  mem' \in [Entries -> Values] /\ \A x \in Entries \ {e} : mem'[x] = mem[x]
<1>1. Fresh(e) \in Values
  BY FreshValue
<1> QED
  BY <1>1 DEF StoresOK

\* The steps of a save.
LEMMA SaveTypes ==
  ASSUME StoresOK, ListsOK, CopiesOK, NEW t \in Threads, todo[t] # <<>>,
         Load(t) \/ Open(t) \/ Dump(t)
  PROVE  StoresOK'
<1>1. Doing(t) \in Steps
  BY HeadInSteps
<1>2. DOMAIN todo' = Threads
  BY DEF Load, Open, Dump, Then, StoresOK
<1>3. CASE Load(t)
  <2>1. /\ file' = file /\ struck' = struck /\ overlapped' \subseteq overlapped \cup {FileOf[Doing(t)[2]]}
        /\ DOMAIN copy' = Threads /\ UNCHANGED <<phase, mem, timer, mail>>
        /\ Doing(t)[1] = "load"
    BY <1>3 DEF Load, Meet, StoresOK, adapter, history
  <2>2. FileOf[Doing(t)[2]] \in Files
    BY <1>1, <2>1, StepShapes, FilesOfEntries
  <2> QED
    BY <1>2, <2>1, <2>2 DEF StoresOK
<1>4. CASE Open(t)
  <2>1. /\ file' = [file EXCEPT ![FileOf[Doing(t)[2]]] = Torn] /\ struck' = struck
        /\ overlapped' \subseteq overlapped \cup {FileOf[Doing(t)[2]]}
        /\ DOMAIN copy' = Threads /\ UNCHANGED <<phase, mem, timer, mail>>
        /\ Doing(t)[1] = "open"
    BY <1>4 DEF Open, Meet, StoresOK, adapter, history
  <2>2. FileOf[Doing(t)[2]] \in Files
    BY <1>1, <2>1, StepShapes, FilesOfEntries
  <2> QED
    BY <1>2, <2>1, <2>2 DEF StoresOK
<1>5. CASE Dump(t)
  <2>1. PICK c \in {copy[t], Torn} :
          /\ file' = [file EXCEPT ![FileOf[Doing(t)[2]]] = c] /\ struck' = struck
          /\ overlapped' = overlapped
          /\ DOMAIN copy' = Threads /\ UNCHANGED <<phase, mem, timer, mail>>
          /\ Doing(t)[1] = "dump"
    BY <1>5 DEF Dump, StoresOK, adapter, history
  <2>2. FileOf[Doing(t)[2]] \in Files
    BY <1>1, <2>1, StepShapes, FilesOfEntries
  <2>3. copy[t] \in [InFile(FileOf[Doing(t)[2]]) -> Values]
    BY <2>1 DEF CopiesOK
  <2> QED
    BY <1>2, <2>1, <2>2, <2>3 DEF StoresOK
<1> QED
  BY <1>3, <1>4, <1>5

\* Actions that leave the files and the copies alone.
StillFiles == UNCHANGED <<file, copy, struck>>

LEMMA OtherTypes ==
  ASSUME StoresOK, ListsOK, DOMAIN todo' = Threads, StillFiles,
         phase' \in {"running", "closing", "exited"},
         mem' \in [Entries -> Values], timer' \subseteq {"adapter", "ui", "engine"},
         mail' \in Nat, overlapped' \subseteq Files
  PROVE  StoresOK'
BY DEF StoresOK, StillFiles

LEMMA MeetTyped ==
  ASSUME StoresOK, NEW t \in Threads, NEW f \in Files, Meet(t, f)
  PROVE  /\ overlapped' \subseteq Files /\ overlapped \subseteq overlapped'
         /\ (\E u \in Threads \ {t} : InSave(u, f)) => f \in overlapped'
BY DEF Meet, StoresOK

\* The steps of the handlers and of the main thread, with what they put before the rest: they
\* leave the files alone, and what they begin they begin.
LEMMA HandlerSteps ==
  ASSUME StoresOK, ListsOK, NEW t \in Threads, todo[t] # <<>>, NEW steps,
         Insertable(todo[t], steps), Then(t, steps), StillFiles,
         Doing(t)[1] \notin {"load", "open", "dump"},
         overlapped \subseteq overlapped'
  PROVE  Untouched
<1>1. Doing(t) = todo[t][1]
  BY HeadInSteps
<1>2. /\ \A u \in Threads \ {t} : todo'[u] = todo[u]
      /\ todo'[t] # <<>> /\ Doing(t)[1] \notin {"load", "open", "dump"} => Starts(Doing(t)')
  BY <1>1, Moved DEF Insertable, StoresOK
<1>3. \A f \in Files : ~Dumping(t, f)
  BY DEF Dumping
<1> QED
  BY <1>2, <1>3 DEF Untouched, StillFiles

LEMMA BegunSteps ==
  ASSUME StoresOK, ListsOK, NEW t \in Threads, todo[t] = <<>>, NEW steps, Task(steps),
         todo' = [todo EXCEPT ![t] = steps]
  PROVE  /\ DOMAIN todo' = Threads /\ todo'[t] = steps
         /\ \A u \in Threads \ {t} : todo'[u] = todo[u] /\ Ahead(u)' = Ahead(u)
         /\ \A x : x \in Ahead(t)' <=> x \in Members(steps)
         /\ \A u \in Threads : Linked(todo'[u]) /\ Ended(todo'[u])
         /\ \A u \in Threads : \/ todo'[u] = todo[u]
                               \/ /\ \A f \in Files : ~Dumping(u, f)
                                  /\ todo'[u] # <<>> => Starts(Doing(u)')
<1>1. /\ DOMAIN todo' = Threads /\ todo'[t] = steps
      /\ \A u \in Threads \ {t} : todo'[u] = todo[u]
  BY DEF StoresOK
<1>2. Linked(steps) /\ Ended(steps) /\ (steps # <<>> => Starts(steps[1]))
  BY DEF Task
<1>3. steps # <<>> => Head(steps) = steps[1]
  BY <1>2, TailLinked
<1>4. steps # <<>> => Starts(Doing(t)')
  BY <1>1, <1>2, <1>3 DEF Doing
<1>5. \A f \in Files : ~Dumping(t, f)
  BY DEF Dumping
<1>6. \A u \in Threads : Linked(todo'[u]) /\ Ended(todo'[u])
  BY <1>1, <1>2 DEF ListsOK
<1>7. \A u \in Threads \ {t} : Ahead(u)' = Ahead(u)
  BY <1>1 DEF Ahead
<1>8. \A x : x \in Ahead(t)' <=> x \in Members(steps)
  BY <1>1 DEF Ahead
<1> QED
  BY <1>1, <1>4, <1>5, <1>6, <1>7, <1>8

-------------------------------------------------------------------------------
(* Persistence: the steps of a save.                                         *)

\* A step of a save takes nothing but itself from the list.
LEMMA SaveMoved ==
  ASSUME StoresOK, ListsOK, NEW t \in Threads, todo[t] # <<>>, Then(t, <<>>)
  PROVE  /\ DOMAIN todo' = Threads
         /\ \A u \in Threads \ {t} : todo'[u] = todo[u] /\ Doing(u)' = Doing(u)
         /\ todo'[t] # <<>> => Links(Doing(t), Doing(t)')
         /\ Doing(t)[1] \in Unfinished => todo'[t] # <<>>
         /\ \A u \in Threads : \A x \in Ahead(u) : (u # t \/ x # Doing(t)) => x \in Ahead(u)'
         /\ \A u \in Threads : \A x \in Ahead(u)' : x \in Ahead(u)
<1>1. PICK steps : steps = <<>>
  OBVIOUS
<1>2. Then(t, steps)
  BY <1>1
<1>3. /\ DOMAIN todo' = Threads
      /\ \A u \in Threads \ {t} : todo'[u] = todo[u]
      /\ todo'[t] # <<>> => Links(Doing(t), Doing(t)')
      /\ Doing(t)[1] \in Unfinished => todo'[t] # <<>>
      /\ \A x \in Ahead(t) : x # Doing(t) => x \in Ahead(t)'
      /\ \A x \in Ahead(t)' : x \in Members(steps) \/ x \in Ahead(t)
  BY <1>1, <1>2, Moved DEF StoresOK
<1>4. \A x : x \notin Members(steps)
  BY <1>1, EmptyTask, Zenon
<1>5. \A u \in Threads \ {t} : Doing(u)' = Doing(u) /\ Ahead(u)' = Ahead(u)
  BY <1>3 DEF Doing, Ahead
<1> QED
  BY <1>3, <1>4, <1>5

LEMMA LoadFacts ==
  ASSUME StoresOK, ListsOK, NEW t \in Threads, todo[t] # <<>>, Load(t),
         NEW e, e = Doing(t)[2], NEW f, f = FileOf[e]
  PROVE  /\ Doing(t) = <<"load", e>> /\ e \in Entries /\ f \in Files
         /\ todo'[t] # <<>> /\ Doing(t)' = <<"open", e>>
         /\ \A u \in Threads \ {t} : todo'[u] = todo[u] /\ Doing(u)' = Doing(u) /\ copy'[u] = copy[u]
         /\ copy'[t] = LoadToml(f)
         /\ \A u \in Threads \ {t} : Holds(u, f) => f \in overlapped'
         /\ overlapped \subseteq overlapped'
         /\ file' = file /\ mem' = mem /\ struck' = struck /\ skipped' = skipped
<1>1. Doing(t) = <<"load", e>> /\ e \in Entries /\ f \in Files
  <2>1. Doing(t) \in Steps /\ Doing(t)[1] = "load"
    BY HeadInSteps DEF Load
  <2> QED
    BY <2>1, StepShapes, FilesOfEntries
<1>2. /\ \A u \in Threads \ {t} : todo'[u] = todo[u] /\ Doing(u)' = Doing(u)
      /\ todo'[t] # <<>> => Links(Doing(t), Doing(t)')
      /\ Doing(t)[1] \in Unfinished => todo'[t] # <<>>
  BY SaveMoved DEF Load
<1>3. todo'[t] # <<>> /\ Doing(t)' = <<"open", e>>
  BY <1>1, <1>2 DEF Unfinished, Links
<1>4. copy' = [copy EXCEPT ![t] = LoadToml(f)] /\ Meet(t, f)
  BY DEF Load
<1>5. \A u \in Threads \ {t} : Holds(u, f) => InSave(u, f)
  BY DEF Holds, InSave
<1>6. /\ file' = file /\ mem' = mem /\ struck' = struck /\ skipped' = skipped
  BY DEF Load
<1>7. /\ copy'[t] = LoadToml(f)
      /\ \A u \in Threads \ {t} : copy'[u] = copy[u]
  BY <1>4 DEF StoresOK
<1>8. /\ \A u \in Threads \ {t} : Holds(u, f) => f \in overlapped'
      /\ overlapped \subseteq overlapped'
  BY <1>1, <1>4, <1>5, MeetTyped
<1> QED
  BY <1>1, <1>2, <1>3, <1>6, <1>7, <1>8

LEMMA LoadFiles ==
  ASSUME StoresOK, ListsOK, FilesInvariant, NEW t \in Threads, todo[t] # <<>>, Load(t)
  PROVE  FilesInvariant'
<1>1. PICK e, f : e = Doing(t)[2] /\ f = FileOf[e]
  OBVIOUS
<1>2. /\ Doing(t) = <<"load", e>> /\ e \in Entries /\ f \in Files
      /\ todo'[t] # <<>> /\ Doing(t)' = <<"open", e>>
      /\ \A u \in Threads \ {t} : todo'[u] = todo[u] /\ Doing(u)' = Doing(u) /\ copy'[u] = copy[u]
      /\ copy'[t] = LoadToml(f)
      /\ \A u \in Threads \ {t} : Holds(u, f) => f \in overlapped'
      /\ overlapped \subseteq overlapped'
      /\ file' = file /\ mem' = mem /\ struck' = struck /\ skipped' = skipped
  BY <1>1, LoadFacts
<1>3. LoadToml(f)' = LoadToml(f) /\ LoadToml("config")' = LoadToml("config")
  BY <1>2 DEF LoadToml
<1>4. \A u \in Threads \ {t}, g \in Files : /\ Holds(u, g)' <=> Holds(u, g)
                                            /\ Dumping(u, g)' <=> Dumping(u, g)
  BY <1>2 DEF Holds, Dumping
<1>5. \A g \in Files : /\ Holds(t, g)' => g = f
                       /\ ~Dumping(t, g)' /\ ~Dumping(t, g)
  <2>1. \A g : ~Dumping(t, g)' /\ ~Dumping(t, g)
    BY <1>2 DEF Dumping
  <2>2. \A g : Holds(t, g)' => g = f
    BY <1>1, <1>2 DEF Holds
  <2> QED
    BY <2>1, <2>2
<1>6. CopiesOK'
  <2>1. ASSUME NEW u \in Threads \ {t}, todo'[u] # <<>>
        PROVE  /\ Doing(u)'[1] = "dump" => copy'[u] \in [InFile(FileOf[Doing(u)'[2]]) -> Values]
               /\ (Doing(u)'[1] = "open" /\ FileOf[Doing(u)'[2]] = "config") =>
                    /\ copy'[u] \in [InFile("config") -> Values]
                    /\ "config" \notin overlapped' => copy'[u] = LoadToml("config")
    BY <1>2, <2>1 DEF FilesInvariant, CopiesOK
  <2>2. /\ Doing(t)'[1] # "dump"
        /\ FileOf[Doing(t)'[2]] = "config" =>
             copy'[t] \in [InFile("config") -> Values] /\ copy'[t] = LoadToml("config")
    BY <1>1, <1>2, KeptValue
  <2> QED
    BY <1>3, <2>1, <2>2 DEF CopiesOK, InFile
<1>7. AloneInFile'
  BY <1>2, <1>4, <1>5 DEF FilesInvariant, AloneInFile
<1>8. TruncatedOK'
  BY <1>2, <1>4, <1>5 DEF FilesInvariant, TruncatedOK
<1>9. TornIsExplained'
  BY <1>2, <1>4, <1>5 DEF FilesInvariant, TornIsExplained
<1> QED
  BY <1>6, <1>7, <1>8, <1>9 DEF FilesInvariant

LEMMA LoadSaved ==
  ASSUME StoresOK, ListsOK, NEW t \in Threads, todo[t] # <<>>, Load(t),
         NEW x \in Entries, Saved(x)
  PROVE  Saved(x)'
<1>1. PICK e, f : e = Doing(t)[2] /\ f = FileOf[e]
  OBVIOUS
<1>2. /\ Doing(t) = <<"load", e>>
      /\ todo'[t] # <<>> /\ Doing(t)' = <<"open", e>>
      /\ \A u \in Threads \ {t} : todo'[u] = todo[u] /\ Doing(u)' = Doing(u) /\ copy'[u] = copy[u]
      /\ file' = file /\ mem' = mem
  BY <1>1, LoadFacts
<1>3. PICK g : g = FileOf[x]
  OBVIOUS
<1>4. \A u \in Threads \ {t} : Dumping(u, g)' <=> Dumping(u, g)
  BY <1>2 DEF Dumping
<1>5. ~Dumping(t, g)' /\ ~Dumping(t, g)
  BY <1>2 DEF Dumping
<1>6. Kept(x)' = Kept(x) /\ mem' = mem
  BY <1>2 DEF Kept, LoadToml
<1>7. Saved(x)' <=> IF \E u \in Threads : Dumping(u, g)'
                    THEN \E u \in Threads : Dumping(u, g)' /\ copy'[u][x] = mem'[x]
                    ELSE Kept(x)' = mem'[x]
  BY <1>3, Zenon DEF Saved, FileOf
<1>8. IF \E u \in Threads : Dumping(u, g)
      THEN \E u \in Threads : Dumping(u, g) /\ copy[u][x] = mem[x]
      ELSE Kept(x) = mem[x]
  BY <1>3, Zenon DEF Saved
<1> QED
  BY <1>2, <1>4, <1>5, <1>6, <1>7, <1>8

LEMMA OpenFacts ==
  ASSUME StoresOK, ListsOK, CopiesOK, NEW t \in Threads, todo[t] # <<>>, Open(t),
         NEW e, e = Doing(t)[2], NEW f, f = FileOf[e]
  PROVE  /\ Doing(t) = <<"open", e>> /\ e \in Entries /\ f \in Files
         /\ todo'[t] # <<>> /\ Doing(t)' = <<"dump", e>>
         /\ \A u \in Threads \ {t} : todo'[u] = todo[u] /\ Doing(u)' = Doing(u) /\ copy'[u] = copy[u]
         /\ copy'[t] \in [InFile(f) -> Values]
         /\ \A x \in InFile(f) : copy'[t][x] = IF x = e THEN mem[e] ELSE copy[t][x]
         /\ \A u \in Threads \ {t} : InSave(u, f) => f \in overlapped'
         /\ overlapped \subseteq overlapped'
         /\ file'[f] = Torn /\ \A g \in Files \ {f} : file'[g] = file[g]
         /\ mem' = mem /\ struck' = struck /\ skipped' = skipped
<1>1. Doing(t) = <<"open", e>> /\ e \in Entries /\ f \in Files
  <2>1. Doing(t) \in Steps /\ Doing(t)[1] = "open"
    BY HeadInSteps DEF Open
  <2> QED
    BY <2>1, StepShapes, FilesOfEntries
<1>2. /\ \A u \in Threads \ {t} : todo'[u] = todo[u] /\ Doing(u)' = Doing(u)
      /\ todo'[t] # <<>> => Links(Doing(t), Doing(t)')
      /\ Doing(t)[1] \in Unfinished => todo'[t] # <<>>
  BY SaveMoved DEF Open
<1>3. todo'[t] # <<>> /\ Doing(t)' = <<"dump", e>>
  BY <1>1, <1>2 DEF Unfinished, Links
<1>4. /\ copy' = [copy EXCEPT ![t] = [x \in InFile(f) |-> IF x = e THEN mem[e] ELSE copy[t][x]]]
      /\ file' = [file EXCEPT ![f] = Torn] /\ Meet(t, f)
  BY DEF Open
<1>5. /\ mem' = mem /\ struck' = struck /\ skipped' = skipped
  BY DEF Open
<1>6. /\ copy'[t] = [x \in InFile(f) |-> IF x = e THEN mem[e] ELSE copy[t][x]]
      /\ \A u \in Threads \ {t} : copy'[u] = copy[u]
  BY <1>4 DEF StoresOK
<1>7. file'[f] = Torn /\ \A g \in Files \ {f} : file'[g] = file[g]
  BY <1>1, <1>4 DEF StoresOK
<1>8. /\ \A u \in Threads \ {t} : InSave(u, f) => f \in overlapped'
      /\ overlapped \subseteq overlapped'
  BY <1>1, <1>4, MeetTyped
<1>9. ASSUME NEW x \in InFile(f), x # e PROVE copy[t][x] \in Values
  <2>1. x \in Entries /\ FileOf[x] = f
    BY <1>9 DEF InFile
  <2>2. f = "config"
    BY <1>1, <1>9, <2>1, FilesOfEntries DEF Files
  <2>3. copy[t] \in [InFile("config") -> Values]
    <3>1. Doing(t)[1] = "open" /\ FileOf[Doing(t)[2]] = "config"
      BY <1>1, <2>2
    <3> QED
      BY <3>1 DEF CopiesOK
  <2> QED
    BY <2>2, <2>3
<1>10. mem[e] \in Values
  BY <1>1 DEF StoresOK
<1>11. copy'[t] \in [InFile(f) -> Values]
  BY <1>6, <1>9, <1>10
<1> QED
  BY <1>1, <1>2, <1>3, <1>5, <1>6, <1>7, <1>8, <1>11

LEMMA OpenFiles ==
  ASSUME StoresOK, ListsOK, FilesInvariant, NEW t \in Threads, todo[t] # <<>>, Open(t)
  PROVE  FilesInvariant'
<1>1. PICK e, f : e = Doing(t)[2] /\ f = FileOf[e]
  OBVIOUS
<1>2. /\ Doing(t) = <<"open", e>> /\ e \in Entries /\ f \in Files
      /\ todo'[t] # <<>> /\ Doing(t)' = <<"dump", e>>
      /\ \A u \in Threads \ {t} : todo'[u] = todo[u] /\ Doing(u)' = Doing(u) /\ copy'[u] = copy[u]
      /\ copy'[t] \in [InFile(f) -> Values]
      /\ \A u \in Threads \ {t} : InSave(u, f) => f \in overlapped'
      /\ overlapped \subseteq overlapped'
      /\ file'[f] = Torn /\ \A g \in Files \ {f} : file'[g] = file[g]
      /\ struck' = struck
  BY <1>1, OpenFacts DEF FilesInvariant
<1>3. \A u \in Threads \ {t}, g \in Files : /\ Holds(u, g)' <=> Holds(u, g)
                                            /\ Dumping(u, g)' <=> Dumping(u, g)
                                            /\ Dumping(u, g) => Holds(u, g)
                                            /\ Holds(u, g) => InSave(u, g)
  BY <1>2 DEF Holds, Dumping, InSave
<1>4. \A g : /\ Holds(t, g)' => g = f
             /\ Dumping(t, g)' <=> g = f
             /\ ~Dumping(t, g)
  <2>1. \A g : ~Dumping(t, g)
    BY <1>2 DEF Dumping
  <2>2. \A g : Dumping(t, g)' <=> g = f
    BY <1>1, <1>2 DEF Dumping
  <2>3. \A g : Holds(t, g)' => g = f
    BY <1>1, <1>2 DEF Holds
  <2> QED
    BY <2>1, <2>2, <2>3
<1>5. CopiesOK'
  <2>1. ASSUME NEW u \in Threads \ {t}, todo'[u] # <<>>
        PROVE  /\ Doing(u)'[1] = "dump" => copy'[u] \in [InFile(FileOf[Doing(u)'[2]]) -> Values]
               /\ (Doing(u)'[1] = "open" /\ FileOf[Doing(u)'[2]] = "config") =>
                    /\ copy'[u] \in [InFile("config") -> Values]
                    /\ "config" \notin overlapped' => copy'[u] = LoadToml("config")'
    <3>1. todo[u] # <<>> /\ Doing(u)' = Doing(u) /\ copy'[u] = copy[u]
      BY <1>2, <2>1
    <3>2. /\ Doing(u)[1] = "dump" => copy[u] \in [InFile(FileOf[Doing(u)[2]]) -> Values]
          /\ (Doing(u)[1] = "open" /\ FileOf[Doing(u)[2]] = "config") =>
               /\ copy[u] \in [InFile("config") -> Values]
               /\ "config" \notin overlapped => copy[u] = LoadToml("config")
      BY <3>1 DEF FilesInvariant, CopiesOK
    <3>3. ASSUME Doing(u)[1] = "open", FileOf[Doing(u)[2]] = "config", "config" \notin overlapped'
          PROVE  copy[u] = LoadToml("config")'
      <4>1. InSave(u, "config")
        BY <3>1, <3>3 DEF InSave
      <4>2. f # "config"
        BY <1>2, <3>3, <4>1
      <4>3. file'["config"] = file["config"]
        BY <1>2, <4>2, EntriesAndThreads
      <4>4. LoadToml("config")' = LoadToml("config")
        BY <4>3 DEF LoadToml
      <4> QED
        BY <1>2, <3>2, <3>3, <4>4
    <3> QED
      BY <3>1, <3>2, <3>3
  <2>2. /\ Doing(t)'[1] = "dump" /\ FileOf[Doing(t)'[2]] = f
        /\ copy'[t] \in [InFile(f) -> Values]
    BY <1>1, <1>2
  <2> QED
    BY <2>1, <2>2 DEF CopiesOK, InFile
<1>6. AloneInFile'
  BY <1>2, <1>3, <1>4 DEF FilesInvariant, AloneInFile
<1>7. TruncatedOK'
  BY <1>2, <1>3, <1>4 DEF FilesInvariant, TruncatedOK
<1>8. TornIsExplained'
  <2>1. ASSUME NEW g \in Files, file'[g] = Torn
        PROVE  g \in struck \cup overlapped' \/ \E u \in Threads : Dumping(u, g)'
    <3>1. CASE g = f
      BY <1>4, <3>1
    <3>2. CASE g # f
      <4>1. g \in struck \cup overlapped \/ \E u \in Threads : Dumping(u, g)
        BY <1>2, <2>1, <3>2 DEF FilesInvariant, TornIsExplained
      <4> QED
        BY <1>2, <1>3, <1>4, <4>1
    <3> QED
      BY <3>1, <3>2
  <2> QED
    BY <1>2, <2>1 DEF TornIsExplained
<1> QED
  BY <1>5, <1>6, <1>7, <1>8 DEF FilesInvariant

\* Who opens a file writes what the memory has, and of the other entries what the file had.
LEMMA OpenSaved ==
  ASSUME StoresOK, ListsOK, FilesInvariant, NEW t \in Threads, todo[t] # <<>>, Open(t),
         NEW x \in Entries, FileOf[x] \notin overlapped', Saved(x) \/ x = Doing(t)[2]
  PROVE  Saved(x)'
<1>1. PICK e, f, g : e = Doing(t)[2] /\ f = FileOf[e] /\ g = FileOf[x]
  OBVIOUS
<1>2. /\ Doing(t) = <<"open", e>> /\ e \in Entries /\ f \in Files
      /\ todo'[t] # <<>> /\ Doing(t)' = <<"dump", e>>
      /\ \A u \in Threads \ {t} : todo'[u] = todo[u] /\ Doing(u)' = Doing(u) /\ copy'[u] = copy[u]
      /\ \A y \in InFile(f) : copy'[t][y] = IF y = e THEN mem[e] ELSE copy[t][y]
      /\ \A u \in Threads \ {t} : InSave(u, f) => f \in overlapped'
      /\ overlapped \subseteq overlapped'
      /\ \A h \in Files \ {f} : file'[h] = file[h]
      /\ mem' = mem
  BY <1>1, OpenFacts DEF FilesInvariant
<1>3. g \in Files /\ x \in InFile(g)
  BY <1>1, FilesOfEntries DEF InFile
<1>4. \A u \in Threads \ {t} : /\ Dumping(u, g)' <=> Dumping(u, g)
                               /\ Dumping(u, g) => InSave(u, g)
  BY <1>2 DEF Dumping, InSave
<1>5. Saved(x)' <=> IF \E u \in Threads : Dumping(u, g)'
                    THEN \E u \in Threads : Dumping(u, g)' /\ copy'[u][x] = mem'[x]
                    ELSE Kept(x)' = mem'[x]
  BY <1>1, Zenon DEF Saved, FileOf
<1>6. Saved(x) <=> IF \E u \in Threads : Dumping(u, g)
                   THEN \E u \in Threads : Dumping(u, g) /\ copy[u][x] = mem[x]
                   ELSE Kept(x) = mem[x]
  BY <1>1, Zenon DEF Saved
<1>7. ~Dumping(t, g) /\ (Dumping(t, g)' <=> g = f)
  BY <1>1, <1>2 DEF Dumping
<1>8. CASE g = f
  <2>1. \A u \in Threads \ {t} : ~Dumping(u, g)
    BY <1>1, <1>2, <1>4, <1>8
  <2>2. copy'[t][x] = mem[x]
    <3>1. CASE x = e
      BY <1>2, <1>3, <1>8, <3>1
    <3>2. CASE x # e
      <4>1. Kept(x) = mem[x]
        BY <1>1, <1>6, <1>7, <2>1, <3>2
      <4>2. f = "config"
        BY <1>1, <1>2, <1>8, <3>2, FilesOfEntries, ZenonT(40) DEF Files
      <4>3. copy[t] = LoadToml("config")
        <5>1. Doing(t)[1] = "open" /\ FileOf[Doing(t)[2]] = "config" /\ "config" \notin overlapped
          BY <1>1, <1>2, <1>8, <4>2
        <5> QED
          BY <5>1 DEF FilesInvariant, CopiesOK
      <4>4. copy[t][x] = Kept(x)
        BY <1>1, <1>8, <4>2, <4>3 DEF Kept
      <4> QED
        BY <1>2, <1>3, <1>8, <3>2, <4>1, <4>4
    <3> QED
      BY <3>1, <3>2
  <2> QED
    BY <1>2, <1>5, <1>7, <1>8, <2>2
<1>9. CASE g # f
  <2>1. Saved(x)
    BY <1>1, <1>9
  <2>2. LoadToml(g)' = LoadToml(g)
    <3>1. file'[g] = file[g]
      BY <1>2, <1>3, <1>9
    <3> QED
      BY <3>1 DEF LoadToml, InFile
  <2>3. Kept(x)' = Kept(x)
    BY <1>1, <2>2, Zenon DEF Kept, FileOf
  <2> QED
    BY <1>2, <1>4, <1>5, <1>6, <1>7, <1>9, <2>1, <2>3
<1> QED
  BY <1>8, <1>9

LEMMA DumpFacts ==
  ASSUME StoresOK, ListsOK, NEW t \in Threads, todo[t] # <<>>, Dump(t),
         NEW e, e = Doing(t)[2], NEW f, f = FileOf[e]
  PROVE  /\ Doing(t) = <<"dump", e>> /\ e \in Entries /\ f \in Files
         /\ todo'[t] # <<>> => /\ Doing(t)'[1] # "dump"
                               /\ ~(Doing(t)'[1] = "open" /\ FileOf[Doing(t)'[2]] = "config")
                               /\ (Doing(t)' = <<"throttle">> => e = "register")
         /\ \A u \in Threads \ {t} : todo'[u] = todo[u] /\ Doing(u)' = Doing(u) /\ copy'[u] = copy[u]
         /\ file'[f] = copy[t] \/ (file[f] # Torn /\ file'[f] = Torn)
         /\ \A g \in Files \ {f} : file'[g] = file[g]
         /\ overlapped' = overlapped /\ mem' = mem /\ struck' = struck
         /\ skipped' = (skipped /\ e # "device")
<1>1. Doing(t) = <<"dump", e>> /\ e \in Entries /\ f \in Files
  <2>1. Doing(t) \in Steps /\ Doing(t)[1] = "dump"
    BY HeadInSteps DEF Dump
  <2> QED
    BY <2>1, StepShapes, FilesOfEntries
<1>2. /\ \A u \in Threads \ {t} : todo'[u] = todo[u] /\ Doing(u)' = Doing(u)
      /\ todo'[t] # <<>> => Links(Doing(t), Doing(t)')
  BY SaveMoved DEF Dump
<1>3. ASSUME todo'[t] # <<>>
      PROVE  /\ Doing(t)'[1] # "dump"
             /\ ~(Doing(t)'[1] = "open" /\ FileOf[Doing(t)'[2]] = "config")
             /\ (Doing(t)' = <<"throttle">> => e = "register")
  <2>1. PICK x, y : x = Doing(t) /\ y = Doing(t)'
    OBVIOUS
  <2>2. Links(x, y) /\ x = <<"dump", e>>
    BY <1>1, <1>2, <1>3, <2>1
  <2>3. /\ y[1] = "dump" => x = <<"open", y[2]>>
        /\ y[1] = "open" /\ FileOf[y[2]] = "config" => x = <<"load", y[2]>>
        /\ y = <<"throttle">> => x = <<"dump", "register">>
    BY <2>2 DEF Links
  <2> QED
    BY <2>1, <2>2, <2>3
<1>4. PICK c : /\ file' = [file EXCEPT ![f] = c]
               /\ c = copy[t] \/ (file[f] # Torn /\ c = Torn)
  BY DEF Dump
<1>5. /\ file'[f] = copy[t] \/ (file[f] # Torn /\ file'[f] = Torn)
      /\ \A g \in Files \ {f} : file'[g] = file[g]
  BY <1>1, <1>4 DEF StoresOK
<1>6. /\ overlapped' = overlapped /\ mem' = mem /\ struck' = struck
      /\ skipped' = (skipped /\ e # "device")
  BY DEF Dump
<1>7. \A u \in Threads \ {t} : copy'[u] = copy[u]
  BY DEF Dump, StoresOK
<1> QED
  BY <1>1, <1>2, <1>3, <1>5, <1>6, <1>7

LEMMA DumpFiles ==
  ASSUME StoresOK, ListsOK, FilesInvariant, NEW t \in Threads, todo[t] # <<>>, Dump(t)
  PROVE  FilesInvariant'
<1>1. PICK e, f : e = Doing(t)[2] /\ f = FileOf[e]
  OBVIOUS
<1>2. /\ Doing(t) = <<"dump", e>> /\ e \in Entries /\ f \in Files
      /\ todo'[t] # <<>> => /\ Doing(t)'[1] # "dump"
                            /\ ~(Doing(t)'[1] = "open" /\ FileOf[Doing(t)'[2]] = "config")
                            /\ (Doing(t)' = <<"throttle">> => e = "register")
      /\ \A u \in Threads \ {t} : todo'[u] = todo[u] /\ Doing(u)' = Doing(u) /\ copy'[u] = copy[u]
      /\ file'[f] = copy[t] \/ (file[f] # Torn /\ file'[f] = Torn)
      /\ \A g \in Files \ {f} : file'[g] = file[g]
      /\ overlapped' = overlapped /\ struck' = struck
  BY <1>1, DumpFacts
<1>3. \A u \in Threads \ {t}, g \in Files : /\ Holds(u, g)' <=> Holds(u, g)
                                            /\ Dumping(u, g)' <=> Dumping(u, g)
                                            /\ Dumping(u, g) => Holds(u, g)
  BY <1>2 DEF Holds, Dumping
<1>4. \A g : /\ Holds(t, g)' => Holds(t, g)
             /\ ~Dumping(t, g)'
             /\ Dumping(t, g) <=> g = f
  <2>1. \A g : Dumping(t, g) <=> g = f
    BY <1>1, <1>2 DEF Dumping
  <2>2. \A g : ~Dumping(t, g)'
    BY <1>2 DEF Dumping
  <2>3. ASSUME NEW g, Holds(t, g)' PROVE Holds(t, g)
    <3>1. Doing(t)' = <<"throttle">> /\ g = "bandstack" /\ todo'[t] # <<>>
      BY <1>2, <2>3 DEF Holds
    <3>2. e = "register" /\ f = "bandstack"
      BY <1>1, <1>2, <3>1, FilesOfEntries
    <3> QED
      BY <1>1, <1>2, <3>1, <3>2 DEF Holds
  <2> QED
    BY <2>1, <2>2, <2>3
<1>5. Holds(t, f)
  BY <1>1, <1>2 DEF Holds
<1>6. \A u \in Threads \ {t} : Holds(u, f) => f \in overlapped
  BY <1>2, <1>5 DEF FilesInvariant, AloneInFile
<1>7. CopiesOK'
  <2>1. ASSUME NEW u \in Threads \ {t}, todo'[u] # <<>>
        PROVE  /\ Doing(u)'[1] = "dump" => copy'[u] \in [InFile(FileOf[Doing(u)'[2]]) -> Values]
               /\ (Doing(u)'[1] = "open" /\ FileOf[Doing(u)'[2]] = "config") =>
                    /\ copy'[u] \in [InFile("config") -> Values]
                    /\ "config" \notin overlapped' => copy'[u] = LoadToml("config")'
    <3>1. todo[u] # <<>> /\ Doing(u)' = Doing(u) /\ copy'[u] = copy[u]
      BY <1>2, <2>1
    <3>2. /\ Doing(u)[1] = "dump" => copy[u] \in [InFile(FileOf[Doing(u)[2]]) -> Values]
          /\ (Doing(u)[1] = "open" /\ FileOf[Doing(u)[2]] = "config") =>
               /\ copy[u] \in [InFile("config") -> Values]
               /\ "config" \notin overlapped => copy[u] = LoadToml("config")
      BY <3>1 DEF FilesInvariant, CopiesOK
    <3>3. ASSUME Doing(u)[1] = "open", FileOf[Doing(u)[2]] = "config", "config" \notin overlapped'
          PROVE  copy[u] = LoadToml("config")'
      <4>1. Holds(u, "config")
        BY <3>1, <3>3 DEF Holds
      <4>2. f # "config"
        BY <1>2, <1>6, <3>3, <4>1
      <4>3. file'["config"] = file["config"]
        BY <1>2, <4>2, EntriesAndThreads
      <4>4. LoadToml("config")' = LoadToml("config")
        BY <4>3 DEF LoadToml
      <4> QED
        BY <1>2, <3>2, <3>3, <4>4
    <3> QED
      BY <3>1, <3>2, <3>3
  <2> QED
    BY <1>2, <2>1 DEF CopiesOK, InFile
<1>8. AloneInFile'
  BY <1>2, <1>3, <1>4 DEF FilesInvariant, AloneInFile
<1>9. TruncatedOK'
  <2>1. ASSUME NEW g \in Files \ overlapped', NEW u \in Threads, Dumping(u, g)'
        PROVE  file'[g] = Torn
    <3>1. u # t /\ Dumping(u, g) /\ Holds(u, g)
      BY <1>3, <1>4, <2>1
    <3>2. g # f
      BY <1>2, <1>6, <2>1, <3>1
    <3> QED
      BY <1>2, <2>1, <3>1, <3>2 DEF FilesInvariant, TruncatedOK
  <2> QED
    BY <2>1 DEF TruncatedOK
<1>10. TornIsExplained'
  <2>1. ASSUME NEW g \in Files, file'[g] = Torn
        PROVE  g \in struck \cup overlapped' \/ \E u \in Threads : Dumping(u, g)'
    <3>1. CASE g = f
      <4>1. SUFFICES ASSUME f \notin overlapped PROVE FALSE
        BY <1>2, <3>1
      <4>2. file[f] = Torn
        BY <1>2, <1>4, <4>1 DEF FilesInvariant, TruncatedOK
      <4>3. copy[t] \in [InFile(f) -> Values]
        <5>1. Doing(t)[1] = "dump"
          BY <1>2
        <5> QED
          BY <1>1, <5>1 DEF FilesInvariant, CopiesOK
      <4> QED
        BY <1>2, <2>1, <3>1, <4>2, <4>3, TornAssumption
    <3>2. CASE g # f
      <4>1. g \in struck \cup overlapped \/ \E u \in Threads : Dumping(u, g)
        BY <1>2, <2>1, <3>2 DEF FilesInvariant, TornIsExplained
      <4> QED
        BY <1>2, <1>3, <1>4, <3>2, <4>1
    <3> QED
      BY <3>1, <3>2
  <2> QED
    BY <1>2, <2>1 DEF TornIsExplained
<1> QED
  BY <1>7, <1>8, <1>9, <1>10 DEF FilesInvariant

\* Who has written a file alone leaves in it what it was about to write.
LEMMA DumpSaved ==
  ASSUME StoresOK, ListsOK, FilesInvariant, NEW t \in Threads, todo[t] # <<>>, Dump(t),
         NEW x \in Entries, FileOf[x] \notin overlapped, Saved(x)
  PROVE  Saved(x)'
<1>1. PICK e, f, g : e = Doing(t)[2] /\ f = FileOf[e] /\ g = FileOf[x]
  OBVIOUS
<1>2. /\ Doing(t) = <<"dump", e>> /\ e \in Entries /\ f \in Files
      /\ todo'[t] # <<>> => Doing(t)'[1] # "dump"
      /\ \A u \in Threads \ {t} : todo'[u] = todo[u] /\ Doing(u)' = Doing(u) /\ copy'[u] = copy[u]
      /\ file'[f] = copy[t] \/ (file[f] # Torn /\ file'[f] = Torn)
      /\ \A h \in Files \ {f} : file'[h] = file[h]
      /\ mem' = mem
  BY <1>1, DumpFacts
<1>3. g \in Files /\ x \in InFile(g)
  BY <1>1, FilesOfEntries DEF InFile
<1>4. /\ \A u \in Threads \ {t} : /\ Dumping(u, g)' <=> Dumping(u, g)
                                  /\ Dumping(u, g) => Holds(u, g)
      /\ ~Dumping(t, g)' /\ (Dumping(t, g) <=> g = f) /\ (g = f => Holds(t, g))
  BY <1>1, <1>2 DEF Dumping, Holds
<1>5. Saved(x)' <=> IF \E u \in Threads : Dumping(u, g)'
                    THEN \E u \in Threads : Dumping(u, g)' /\ copy'[u][x] = mem'[x]
                    ELSE Kept(x)' = mem'[x]
  BY <1>1, Zenon DEF Saved, FileOf
<1>6. IF \E u \in Threads : Dumping(u, g)
      THEN \E u \in Threads : Dumping(u, g) /\ copy[u][x] = mem[x]
      ELSE Kept(x) = mem[x]
  BY <1>1, Zenon DEF Saved
<1>7. CASE g = f
  <2>1. \A u \in Threads \ {t} : ~Dumping(u, g)
    BY <1>1, <1>3, <1>4, <1>7 DEF FilesInvariant, AloneInFile
  <2>2. copy[t][x] = mem[x]
    BY <1>4, <1>6, <1>7, <2>1
  <2>3. file[f] = Torn
    BY <1>1, <1>3, <1>4, <1>7 DEF FilesInvariant, TruncatedOK
  <2>4. copy[t] \in [InFile(f) -> Values]
    <3>1. Doing(t)[1] = "dump"
      BY <1>2
    <3> QED
      BY <1>1, <3>1 DEF FilesInvariant, CopiesOK
  <2>5. file'[f] = copy[t] /\ copy[t] # Torn
    BY <1>2, <2>3, <2>4, TornAssumption
  <2>6. LoadToml(g)' = copy[t]
    BY <1>7, <2>5 DEF LoadToml
  <2>7. Kept(x)' = copy[t][x]
    <3>1. Kept(x)' = LoadToml(g)'[x]
      BY <1>1, Zenon DEF Kept, FileOf
    <3> QED
      BY <2>6, <3>1
  <2> QED
    BY <1>2, <1>4, <1>5, <2>1, <2>2, <2>7
<1>8. CASE g # f
  <2>1. LoadToml(g)' = LoadToml(g)
    <3>1. file'[g] = file[g]
      BY <1>2, <1>3, <1>8
    <3> QED
      BY <3>1 DEF LoadToml, InFile
  <2>2. Kept(x)' = Kept(x)
    BY <1>1, <2>1, Zenon DEF Kept, FileOf
  <2> QED
    BY <1>2, <1>4, <1>5, <1>6, <1>8, <2>2
<1> QED
  BY <1>7, <1>8

-------------------------------------------------------------------------------
(* Persistence: the other steps. They keep the types and the lists, and leave *)
(* the files alone.                                                          *)

InOrder == StoresOK' /\ ListsOK' /\ Untouched

LEMMA WritebackStep ==
  ASSUME StoresOK, ListsOK, NEW t \in Threads, todo[t] # <<>>, Writeback(t)
  PROVE  InOrder
<1>1. Doing(t) = todo[t][1] /\ Doing(t)[1] = "writeback"
  BY HeadInSteps DEF Writeback
<1>2. PICK steps : /\ Then(t, steps) /\ Insertable(todo[t], steps)
                   /\ mem' \in [Entries -> Values]
                   /\ overlapped \subseteq overlapped' /\ overlapped' \subseteq Files
  <2>1. CASE suspended \/ mem["device"] = Absent \/ mem["tuning"] = 0
    <3>1. Then(t, <<>>) /\ mem' = mem /\ overlapped' = overlapped
      BY <2>1 DEF Writeback
    <3> QED
      BY <3>1 DEF Insertable, StoresOK
  <2>2. CASE ~(suspended \/ mem["device"] = Absent \/ mem["tuning"] = 0) /\ ~inBand
    <3>1. /\ Then(t, Save("tuning")) /\ mem' = [mem EXCEPT !["tuning"] = 0]
          /\ overlapped' = overlapped
      BY <2>2 DEF Writeback
    <3>2. Piece(Save("tuning"))
      BY SavePiece, EntriesAndThreads
    <3> QED
      BY <1>1, <3>1, <3>2, EntriesAndThreads DEF Insertable, StoresOK
  <2>3. CASE ~(suspended \/ mem["device"] = Absent \/ mem["tuning"] = 0) /\ inBand
    <3>1. /\ Then(t, IF justSaved THEN <<>> ELSE SaveRegister) /\ Meet(t, "bandstack")
          /\ mem' = [mem EXCEPT !["register"] = Fresh("register")]
      BY <2>3 DEF Writeback
    <3>2. Insertable(todo[t], IF justSaved THEN <<>> ELSE SaveRegister)
      BY <1>1, RegisterPiece DEF Insertable
    <3>3. mem' \in [Entries -> Values]
      BY <3>1, BumpTyped, EntriesAndThreads
    <3>4. overlapped \subseteq overlapped' /\ overlapped' \subseteq Files
      BY <3>1, MeetTyped, EntriesAndThreads
    <3> QED
      BY <3>1, <3>2, <3>3, <3>4
  <2> QED
    BY <2>1, <2>2, <2>3
<1>3. StillFiles /\ phase' = phase /\ late' = late /\ subscribed' = subscribed
      /\ timer' = timer /\ mail' = mail
  BY DEF Writeback, StillFiles, adapter
<1>4. Untouched
  BY <1>1, <1>2, <1>3, HandlerSteps
<1>5. ListsOK'
  BY <1>1, <1>2, <1>3, MovedLists DEF Insertable, StoresOK
<1>6. StoresOK'
  <2>1. DOMAIN todo' = Threads
    BY <1>2 DEF Then, StoresOK
  <2> QED
    BY <1>2, <1>3, <2>1, OtherTypes DEF StoresOK
<1> QED
  BY <1>4, <1>5, <1>6 DEF InOrder

\* A step that puts nothing, or a list of saves, before the rest and changes at most a value.
LEMMA PlainStep ==
  ASSUME StoresOK, ListsOK, NEW t \in Threads, todo[t] # <<>>, NEW steps,
         steps = <<>> \/ Piece(steps), Then(t, steps), StillFiles,
         Doing(t)[1] \notin {"load", "open", "dump"},
         overlapped' = overlapped, phase' = phase, late => late',
         phase = "running" => subscribed' = subscribed,
         mem' \in [Entries -> Values], timer' \subseteq {"adapter", "ui", "engine"}, mail' \in Nat
  PROVE  InOrder
<1>1. Doing(t) = todo[t][1]
  BY HeadInSteps
<1>2. Insertable(todo[t], steps)
  BY <1>1 DEF Insertable
<1>3. Untouched
  BY <1>2, HandlerSteps
<1>4. ListsOK'
  BY MovedLists DEF StoresOK
<1>5. DOMAIN todo' = Threads
  BY DEF Then, StoresOK
<1>6. StoresOK'
  BY <1>5, OtherTypes DEF StoresOK
<1> QED
  BY <1>3, <1>4, <1>6 DEF InOrder

LEMMA ThrottleStep ==
  ASSUME StoresOK, ListsOK, NEW t \in Threads, todo[t] # <<>>, Throttle(t)
  PROVE  InOrder
<1>1. PICK steps : steps = <<>>
  OBVIOUS
<1>2. /\ Then(t, steps) /\ Doing(t)[1] = "throttle" /\ overlapped' = overlapped
      /\ phase' = phase /\ late' = late /\ subscribed' = subscribed
      /\ mem' = mem /\ timer' = timer /\ mail' = mail
  BY <1>1 DEF Throttle, adapter, history
<1>3. StillFiles
  BY DEF Throttle, StillFiles, history
<1> QED
  BY <1>1, <1>2, <1>3, PlainStep DEF StoresOK

LEMMA AdapterStep ==
  ASSUME StoresOK, ListsOK, NEW t \in Threads, todo[t] # <<>>, Adapter(t)
  PROVE  InOrder
<1>1. PICK steps : steps = <<>>
  OBVIOUS
<1>2. /\ Then(t, steps) /\ Doing(t)[1] = "adapter" /\ overlapped' = overlapped
      /\ phase' = phase /\ (late => late') /\ subscribed' = subscribed /\ mem' = mem
  BY <1>1 DEF Adapter
<1>3. StillFiles
  BY DEF Adapter, StillFiles
<1>4. timer' \subseteq {"adapter", "ui", "engine"} /\ mail' \in Nat
  <2>1. CASE recent
    BY <2>1 DEF Adapter, StoresOK
  <2>2. CASE ~recent
    <3>1. Post /\ timer' = timer
      BY <2>2 DEF Adapter
    <3>2. mail' = mail + 1
      BY <3>1 DEF Post
    <3> QED
      BY <3>1, <3>2 DEF StoresOK
  <2> QED
    BY <2>1, <2>2
<1> QED
  BY <1>1, <1>2, <1>3, <1>4, PlainStep DEF StoresOK

LEMMA RetuneStep ==
  ASSUME StoresOK, ListsOK, todo["main"] # <<>>, Retune \/ Resume \/ MakeCurrent
  PROVE  InOrder
<1>1. PICK t, steps : t = "main" /\ steps = <<>>
  OBVIOUS
<1>2. /\ Then(t, steps) /\ Doing(t)[1] \in {"retune", "resume", "current"}
      /\ overlapped' = overlapped
      /\ phase' = phase /\ late' = late /\ subscribed' = subscribed
      /\ timer' = timer /\ mail' = mail
  BY <1>1 DEF Retune, Resume, MakeCurrent, adapter, writeback, history
<1>3. StillFiles
  BY DEF Retune, Resume, MakeCurrent, StillFiles, writeback, history
<1>4. mem' \in [Entries -> Values]
  <2>1. CASE Retune
    BY <2>1, BumpTyped, EntriesAndThreads DEF Retune
  <2>2. CASE Resume
    BY <2>2 DEF Resume, StoresOK
  <2>3. CASE MakeCurrent
    BY <2>3, EntriesAndThreads DEF MakeCurrent, StoresOK
  <2> QED
    BY <2>1, <2>2, <2>3
<1>5. t \in Threads /\ todo[t] # <<>>
  BY <1>1, EntriesAndThreads
<1> QED
  BY <1>1, <1>2, <1>3, <1>4, <1>5, PlainStep DEF StoresOK

LEMMA ClosingStep ==
  ASSUME StoresOK, ListsOK, todo["main"] # <<>>,
         StopAdapter \/ FlushBands \/ CloseInterface \/ CloseEngine
  PROVE  InOrder
<1>1. PICK t : t = "main"
  OBVIOUS
<1>2. t \in Threads /\ todo[t] # <<>>
  BY <1>1, EntriesAndThreads
<1>3. PICK steps : steps \in {<<>>, SaveRegister, Save("ui"), SaveEngine} /\ Then(t, steps)
  BY <1>1 DEF StopAdapter, FlushBands, CloseInterface, CloseEngine, Close
<1>4. steps = <<>> \/ Piece(steps)
  BY <1>3, RegisterPiece, EnginePiece, SavePiece, EntriesAndThreads
<1>5. /\ Doing(t) = <<Doing(t)[1]>> /\ Doing(t)[1] \in ClosingOnly
      /\ overlapped' = overlapped /\ phase' = phase /\ (late => late')
      /\ mem' = mem /\ mail' = mail
      /\ timer' \subseteq timer
  <2>1. Doing(t)[1] \in ClosingOnly
    BY <1>1 DEF StopAdapter, FlushBands, CloseInterface, CloseEngine, Close, ClosingOnly
  <2>2. Doing(t) \in Steps
    BY <1>2, HeadInSteps
  <2>3. Doing(t) = <<Doing(t)[1]>>
    BY <2>1, <2>2, StepShapes DEF ClosingOnly, Singles
  <2>4. (late => late') /\ overlapped' = overlapped
    <3>1. CASE StopAdapter
      BY <3>1 DEF StopAdapter
    <3>2. CASE FlushBands \/ CloseInterface \/ CloseEngine
      BY <3>2 DEF FlushBands, CloseInterface, CloseEngine, Close, history
    <3> QED
      BY <3>1, <3>2
  <2>5. phase' = phase /\ mem' = mem /\ mail' = mail /\ timer' \subseteq timer
    BY DEF StopAdapter, FlushBands, CloseInterface, CloseEngine, Close
  <2> QED
    BY <2>1, <2>3, <2>4, <2>5
<1>6. StillFiles
  BY DEF StopAdapter, FlushBands, CloseInterface, CloseEngine, Close, StillFiles, history
<1>7. phase = "closing"
  <2>1. Doing(t) \in Ahead("main")
    BY <1>1, <1>2, HeadInSteps
  <2> QED
    BY <1>5, <2>1 DEF ListsOK
<1>8. Doing(t)[1] \notin {"load", "open", "dump"}
  BY <1>5 DEF ClosingOnly
<1> QED
  BY <1>2, <1>3, <1>4, <1>5, <1>6, <1>7, <1>8, PlainStep DEF StoresOK

\* A thread with nothing to do begins something.
LEMMA BegunStep ==
  ASSUME StoresOK, ListsOK, NEW t \in Threads, todo[t] = <<>>, NEW steps, Task(steps),
         todo' = [todo EXCEPT ![t] = steps], StillFiles, overlapped' = overlapped, late => late',
         phase' \in {"running", "closing"}, phase' = "running" => subscribed',
         phase = "closing" => phase' = "closing",
         \A x \in Members(steps) :
           IF t = "main" THEN /\ (x[1] \in RunningOnly => phase' = "running")
                              /\ (x[1] \in ClosingOnly => phase' = "closing")
                         ELSE x[1] \in {"writeback", "adapter"},
         t = "main" \/ phase' = phase,
         t = "agc" /\ steps # <<>> /\ steps[Len(steps)] = <<"writeback">> => late',
         mem' \in [Entries -> Values], timer' \subseteq {"adapter", "ui", "engine"}, mail' \in Nat
  PROVE  InOrder
<1>1. /\ DOMAIN todo' = Threads /\ todo'[t] = steps
      /\ \A u \in Threads \ {t} : todo'[u] = todo[u] /\ Ahead(u)' = Ahead(u)
      /\ \A x : x \in Ahead(t)' <=> x \in Members(steps)
      /\ \A u \in Threads : Linked(todo'[u]) /\ Ended(todo'[u])
      /\ \A u \in Threads : \/ todo'[u] = todo[u]
                            \/ /\ \A f \in Files : ~Dumping(u, f)
                               /\ todo'[u] # <<>> => Starts(Doing(u)')
  BY BegunSteps
<1>2. \A u \in Threads : u = "main" \/ u = "agc"
  BY DEF Threads
<1>3. Untouched
  BY <1>1 DEF Untouched, StillFiles
<1>4. StoresOK'
  BY <1>1, OtherTypes DEF StoresOK
<1>5. /\ \A x \in Ahead("main")' : /\ (x[1] \in RunningOnly => phase' = "running")
                                   /\ (x[1] \in ClosingOnly => phase' = "closing")
      /\ \A x \in Ahead("agc")' : x[1] \in SavingKinds \cup {"writeback", "adapter"}
      /\ (todo'["agc"] # <<>> /\ todo'["agc"][Len(todo'["agc"])] = <<"writeback">>) => late'
  <2>1. CASE t = "main"
    <3>1. "agc" \in Threads \ {t} /\ "agc" # t
      BY <2>1, EntriesAndThreads
    <3>2. \A x \in Ahead("agc")' : x[1] \in SavingKinds \cup {"writeback", "adapter"}
      BY <1>1, <3>1 DEF ListsOK
    <3>3. (todo'["agc"] # <<>> /\ todo'["agc"][Len(todo'["agc"])] = <<"writeback">>) => late'
      BY <1>1, <3>1 DEF ListsOK
    <3> QED
      BY <1>1, <2>1, <3>2, <3>3
  <2>2. CASE t = "agc"
    <3>1. "main" \in Threads \ {t} /\ t # "main" /\ phase' = phase
      BY <2>2, EntriesAndThreads
    <3>2. \A x \in Ahead("main")' : /\ (x[1] \in RunningOnly => phase' = "running")
                                   /\ (x[1] \in ClosingOnly => phase' = "closing")
      BY <1>1, <3>1 DEF ListsOK
    <3>3. \A x \in Ahead("agc")' : x[1] \in {"writeback", "adapter"}
      BY <1>1, <2>2, <3>1
    <3>4. (todo'["agc"] # <<>> /\ todo'["agc"][Len(todo'["agc"])] = <<"writeback">>) => late'
      BY <1>1, <2>2
    <3> QED
      BY <3>2, <3>3, <3>4
  <2> QED
    BY <1>2, <2>1, <2>2
<1>6. ListsOK'
  BY <1>1, <1>5 DEF ListsOK
<1> QED
  BY <1>3, <1>4, <1>6 DEF InOrder

\* The lists stay.
LEMMA IdleStep ==
  ASSUME StoresOK, ListsOK, todo' = todo, StillFiles, overlapped' = overlapped, late' = late,
         phase' = phase, subscribed' = subscribed,
         mem' \in [Entries -> Values], timer' \subseteq {"adapter", "ui", "engine"}, mail' \in Nat
  PROVE  InOrder
<1>1. StoresOK'
  BY OtherTypes DEF StoresOK
<1>2. Ahead("main")' = Ahead("main") /\ Ahead("agc")' = Ahead("agc")
  BY DEF Ahead
<1>3. ListsOK'
  BY <1>2 DEF ListsOK
<1>4. Untouched
  BY DEF Untouched, StillFiles
<1> QED
  BY <1>1, <1>3, <1>4 DEF InOrder

LEMMA UserStep ==
  ASSUME StoresOK, ListsOK, User
  PROVE  InOrder
<1>1. PICK t : t = "main"
  OBVIOUS
<1>2. /\ t \in Threads /\ todo[t] = <<>> /\ phase = "running" /\ phase' = phase /\ late' = late
      /\ subscribed' = subscribed /\ overlapped' = overlapped /\ StillFiles
      /\ subscribed
  <2>1. /\ todo["main"] = <<>> /\ phase = "running" /\ phase' = phase /\ late' = late
        /\ subscribed' = subscribed /\ overlapped' = overlapped /\ StillFiles
    BY DEF User, ChangeInterface, ChangeGlobal, ChangeDevice, AddDevice, RemoveDevice, RecallBand,
           Command, MainIdle, adapter, history, StillFiles
  <2> QED
    BY <1>1, <2>1, EntriesAndThreads DEF ListsOK
<1>3. mem' \in [Entries -> Values]
  <2>1. CASE \E e \in Entries : Bump(e)
    <3>1. PICK e \in Entries : mem' = [mem EXCEPT ![e] = Fresh(e)]
      BY <2>1 DEF Bump
    <3> QED
      BY <3>1, BumpTyped
  <2>2. CASE mem' = [mem EXCEPT !["device"] = Absent]
    BY <2>2, EntriesAndThreads DEF StoresOK, Absent
  <2>3. CASE mem' = mem
    BY <2>3 DEF StoresOK
  <2> QED
    BY <2>1, <2>2, <2>3, EntriesAndThreads
       DEF User, ChangeInterface, ChangeGlobal, ChangeDevice, AddDevice, RemoveDevice, RecallBand
<1>4. timer' \subseteq {"adapter", "ui", "engine"} /\ mail' \in Nat
  <2>1. timer' \subseteq timer \cup {"ui"} /\ (mail' = mail \/ mail' = mail + 1)
    BY DEF User, ChangeInterface, ChangeGlobal, ChangeDevice, AddDevice, RemoveDevice, RecallBand
  <2> QED
    BY <2>1 DEF StoresOK
<1>5. CASE todo' = todo
  BY <1>2, <1>3, <1>4, <1>5, IdleStep
<1>6. CASE \E steps \in {<<>>, ConfigChanged, <<<<"writeback">>>>, RecallSteps} : Begin(steps)
  <2>1. PICK steps \in {<<>>, ConfigChanged, <<<<"writeback">>>>, RecallSteps} : Begin(steps)
    BY <1>6
  <2>2. Task(steps) /\ \A x \in Members(steps) : x[1] \notin ClosingOnly
    <3>1. CASE steps = <<>>
      BY <3>1, EmptyTask, Zenon
    <3>2. CASE steps = ConfigChanged
      BY <3>2, ChangedTask DEF ClosingOnly
    <3>3. CASE steps = <<<<"writeback">>>>
      <4>1. Task(steps) /\ \A x \in Members(steps) : x = <<"writeback">>
        BY <3>3, WritebackTask, Zenon
      <4> QED
        BY <4>1 DEF ClosingOnly
    <3>4. CASE steps = RecallSteps
      BY <3>4, RecallTask, Zenon
    <3> QED
      BY <2>1, <3>1, <3>2, <3>3, <3>4
  <2>3. todo' = [todo EXCEPT ![t] = steps]
    BY <1>1, <2>1 DEF Begin
  <2>4. t # "agc"
    BY <1>1
  <2> QED
    BY <1>1, <1>2, <1>3, <1>4, <2>2, <2>3, <2>4, BegunStep
<1>7. todo' = todo \/ \E steps \in {<<>>, ConfigChanged, <<<<"writeback">>>>, RecallSteps} : Begin(steps)
  <2>1. CASE RecallBand
    <3>1. Begin(RecallSteps)
      BY <2>1 DEF RecallBand, RecallSteps, RetuneSteps
    <3> QED
      BY <3>1
  <2>2. CASE ChangeInterface \/ RemoveDevice
    BY <2>2 DEF ChangeInterface, RemoveDevice
  <2>3. CASE ChangeGlobal \/ ChangeDevice \/ AddDevice
    BY <2>3 DEF ChangeGlobal, ChangeDevice, AddDevice
  <2> QED
    BY <2>1, <2>2, <2>3 DEF User
<1> QED
  BY <1>5, <1>6, <1>7

LEMMA LoopStep ==
  ASSUME StoresOK, ListsOK, Loop \/ RefreshWindowEnds \/ SaveWindowEnds
  PROVE  InOrder
<1>1. CASE AdapterTimer \/ HandleMail \/ RefreshWindowEnds \/ SaveWindowEnds
  <2>1. /\ todo' = todo /\ StillFiles /\ overlapped' = overlapped /\ late' = late
        /\ phase' = phase /\ subscribed' = subscribed /\ mem' = mem
    BY <1>1 DEF AdapterTimer, HandleMail, RefreshWindowEnds, SaveWindowEnds, StillFiles, adapter,
                history
  <2>2. timer' \subseteq timer \cup {"engine"}
    BY <1>1 DEF AdapterTimer, HandleMail, RefreshWindowEnds, SaveWindowEnds
  <2>3. mail' \in Nat
    <3>1. CASE AdapterTimer
      <4>1. mail' = mail + 1 \/ mail' = mail
        BY <3>1 DEF AdapterTimer, Post
      <4> QED
        BY <4>1 DEF StoresOK
    <3>2. CASE HandleMail
      <4>1. mail' = mail - 1 /\ mail > 0
        BY <3>2 DEF HandleMail
      <4> QED
        BY <4>1 DEF StoresOK
    <3>3. CASE RefreshWindowEnds \/ SaveWindowEnds
      BY <3>3 DEF RefreshWindowEnds, SaveWindowEnds, StoresOK
    <3> QED
      BY <1>1, <3>1, <3>2, <3>3
  <2> QED
    BY <2>1, <2>2, <2>3, IdleStep DEF StoresOK
<1>2. CASE FlushInterface \/ FlushEngine
  <2>1. PICK which, steps : Flush(which, steps) /\ steps \in {Save("ui"), SaveEngine}
    BY <1>2 DEF FlushInterface, FlushEngine
  <2>2. PICK t : t = "main"
    OBVIOUS
  <2>3. /\ t \in Threads /\ todo[t] = <<>> /\ phase = "running" /\ phase' = phase /\ late' = late
        /\ subscribed' = subscribed /\ overlapped' = overlapped /\ StillFiles
        /\ mem' = mem /\ mail' = mail /\ timer' \subseteq timer
        /\ todo' = [todo EXCEPT ![t] = steps]
    BY <2>1, <2>2, EntriesAndThreads DEF Flush, MainIdle, Begin, adapter, history, StillFiles
  <2>4. Piece(steps)
    BY <2>1, SavePiece, EnginePiece, EntriesAndThreads
  <2>5. Task(steps) /\ \A x \in Members(steps) : x[1] \notin ClosingOnly
    BY <2>4, PieceIsTask, SavingIsNeither DEF Piece
  <2>6. subscribed /\ t # "agc"
    BY <2>2, <2>3 DEF ListsOK
  <2> QED
    BY <2>2, <2>3, <2>5, <2>6, BegunStep DEF StoresOK
<1> QED
  BY <1>1, <1>2 DEF Loop

LEMMA QuitStep ==
  ASSUME StoresOK, ListsOK, Quit
  PROVE  InOrder
<1>1. PICK t, steps : t = "main" /\ steps = QuitSteps
  OBVIOUS
<1>2. /\ t \in Threads /\ todo[t] = <<>> /\ phase = "running" /\ phase' = "closing" /\ late' = late
      /\ overlapped' = overlapped /\ StillFiles
      /\ mem' = mem /\ mail' = mail /\ timer' = timer
      /\ todo' = [todo EXCEPT ![t] = steps]
  BY <1>1, EntriesAndThreads DEF Quit, MainIdle, Begin, QuitSteps, history, StillFiles
<1>3. Task(steps) /\ \A x \in Members(steps) : x[1] \in ClosingOnly
  <2>1. Task(steps) /\ \A x \in Members(steps) : x \in {<<k>> : k \in ClosingOnly}
    BY <1>1, QuitTask, Zenon
  <2> QED
    BY <2>1
<1>4. \A k \in ClosingOnly : k \notin RunningOnly
  BY DEF ClosingOnly, RunningOnly
<1>5. t # "agc"
  BY <1>1
<1> QED
  BY <1>1, <1>2, <1>3, <1>4, <1>5, BegunStep DEF StoresOK

LEMMA GainStep ==
  ASSUME StoresOK, ListsOK, ChangeGain
  PROVE  InOrder
<1>1. PICK t, steps : /\ t = "agc"
                      /\ steps = IF subscribed THEN ConfigChanged ELSE <<<<"writeback">>>>
  OBVIOUS
<1>2. /\ t \in Threads /\ todo[t] = <<>> /\ phase # "exited" /\ phase' = phase
      /\ overlapped' = overlapped /\ StillFiles /\ subscribed' = subscribed
      /\ mail' = mail /\ timer' = timer
      /\ todo' = [todo EXCEPT ![t] = steps]
  BY <1>1, EntriesAndThreads DEF ChangeGain, adapter, StillFiles
<1>3. /\ Task(steps) /\ \A x \in Members(steps) : x[1] \in {"writeback", "adapter"}
      /\ subscribed => steps[Len(steps)] = <<"adapter">>
  <2>1. CASE subscribed
    <3>1. /\ Task(steps) /\ steps[Len(steps)] = <<"adapter">>
          /\ \A x \in Members(steps) : x = <<"writeback">> \/ x = <<"adapter">>
      BY <1>1, <2>1, ChangedTask, Zenon
    <3> QED
      BY <3>1
  <2>2. CASE ~subscribed
    <3>1. /\ Task(steps)
          /\ \A x \in Members(steps) : x = <<"writeback">>
      BY <1>1, <2>2, WritebackTask, Zenon
    <3> QED
      BY <2>2, <3>1
  <2> QED
    BY <2>1, <2>2
<1>4. (late => late') /\ (~subscribed => late')
  BY DEF ChangeGain
<1>5. mem' \in [Entries -> Values]
  BY BumpTyped, EntriesAndThreads DEF ChangeGain
<1>6. steps # <<>> /\ steps[Len(steps)] = <<"writeback">> => late'
  <2>1. <<"writeback">> # <<"adapter">>
    OBVIOUS
  <2> QED
    BY <1>3, <1>4, <2>1
<1>7. phase \in {"running", "closing"} /\ (phase = "running" => subscribed) /\ t # "main"
  BY <1>1, <1>2 DEF StoresOK, ListsOK
<1> QED
  BY <1>2, <1>3, <1>4, <1>5, <1>6, <1>7, BegunStep DEF StoresOK

-------------------------------------------------------------------------------
(* Persistence: no file is torn without a reason.                            *)

CoreInv == StoresOK /\ ListsOK /\ FilesInvariant

\* Every thread has nothing to do, or begins with something that is not a save.
LEMMA Rested ==
  ASSUME \A t \in Threads : todo[t] # <<>> => Starts(Doing(t))
  PROVE  /\ \A t \in Threads, f \in Files : ~Holds(t, f) /\ ~Dumping(t, f)
         /\ CopiesOK /\ AloneInFile /\ TruncatedOK
<1>1. ASSUME NEW t \in Threads, todo[t] # <<>>
      PROVE  /\ Doing(t)[1] # "dump" /\ Doing(t) # <<"throttle">>
             /\ ~(Doing(t)[1] = "open" /\ FileOf[Doing(t)[2]] = "config")
  BY <1>1 DEF Starts
<1>2. \A t \in Threads, f \in Files : ~Holds(t, f) /\ ~Dumping(t, f)
  BY <1>1 DEF Holds, Dumping
<1>3. CopiesOK
  BY <1>1 DEF CopiesOK
<1> QED
  BY <1>2, <1>3 DEF AloneInFile, TruncatedOK

LEMMA EmptyLists ==
  ASSUME todo = [t \in Threads |-> <<>>]
  PROVE  /\ DOMAIN todo = Threads /\ \A t \in Threads : todo[t] = <<>>
         /\ \A t \in Threads : Linked(todo[t]) /\ Ended(todo[t])
         /\ \A t \in Threads : \A x : x \notin Ahead(t)
<1>1. DOMAIN todo = Threads /\ \A t \in Threads : todo[t] = <<>>
  OBVIOUS
<1>2. Linked(<<>>) /\ Ended(<<>>)
  BY EmptyTask DEF Task
<1>3. \A t \in Threads : Linked(todo[t]) /\ Ended(todo[t])
  BY <1>1, <1>2
<1>4. ASSUME NEW t \in Threads, NEW x PROVE x \notin Ahead(t)
  <2>1. Ahead(t) = Members(<<>>)
    BY <1>1 DEF Ahead
  <2> QED
    BY <2>1, EmptyTask
<1> QED
  BY <1>1, <1>3, <1>4

LEMMA CoreInit == Init => CoreInv
<1>. SUFFICES ASSUME Init PROVE CoreInv
  OBVIOUS
<1>1. /\ DOMAIN todo = Threads /\ \A t \in Threads : todo[t] = <<>>
      /\ \A t \in Threads : Linked(todo[t]) /\ Ended(todo[t])
      /\ \A t \in Threads : \A x : x \notin Ahead(t)
  <2>1. todo = [t \in Threads |-> <<>>]
    BY DEF Init
  <2> QED
    BY <2>1, EmptyLists
<1>2. mem \in [Entries -> Values]
  <2>1. {0, 1} \subseteq Values
    BY DEF Values
  <2> QED
    BY <2>1 DEF Init
<1>3. /\ DOMAIN file = Files /\ \A f \in Files : file[f] \in [InFile(f) -> Values]
  BY <1>2 DEF Init, InFile
<1>4. StoresOK
  BY <1>1, <1>2, <1>3 DEF Init, StoresOK
<1>5. ListsOK
  BY <1>1, EntriesAndThreads DEF ListsOK, Init
<1>6. CopiesOK /\ AloneInFile /\ TruncatedOK
  BY <1>1, Rested
<1>7. TornIsExplained
  BY <1>3, TornAssumption DEF TornIsExplained
<1> QED
  BY <1>4, <1>5, <1>6, <1>7 DEF CoreInv, FilesInvariant

LEMMA ExitCore ==
  ASSUME CoreInv, todo["main"] # <<>>, Exit
  PROVE  CoreInv'
<1>1. /\ DOMAIN todo' = Threads /\ \A t \in Threads : todo'[t] = <<>>
      /\ \A t \in Threads : Linked(todo'[t]) /\ Ended(todo'[t])
      /\ \A t \in Threads : \A x : x \notin Ahead(t)'
  <2>1. DOMAIN todo' = Threads /\ \A t \in Threads : todo'[t] = <<>>
    BY DEF Exit
  <2>2. Linked(<<>>) /\ Ended(<<>>)
    BY EmptyTask DEF Task
  <2>3. ASSUME NEW t \in Threads PROVE \A x : x \notin Ahead(t)'
    <3>1. Ahead(t)' = Members(<<>>)
      BY <2>1 DEF Ahead
    <3> QED
      BY <3>1, EmptyTask
  <2> QED
    BY <2>1, <2>2, <2>3
<1>2. /\ StillFiles /\ overlapped' = overlapped /\ phase' = "exited" /\ mem' = mem
      /\ timer' = timer /\ mail' = mail
  BY DEF Exit, StillFiles
<1>3. StoresOK'
  BY <1>1, <1>2, OtherTypes DEF CoreInv, StoresOK
<1>4. ListsOK'
  BY <1>1, <1>2, EntriesAndThreads DEF ListsOK
<1>5. \A t \in Threads, f \in Files : ~Dumping(t, f)
  <2>1. Doing("main") = <<"exit">> /\ todo["agc"] = <<>>
    <3>1. Doing("main") \in Steps /\ Doing("main")[1] = "exit"
      BY HeadInSteps, EntriesAndThreads DEF CoreInv, Exit
    <3>2. Doing("main") = <<"exit">>
      BY <3>1, StepShapes DEF Singles
    <3> QED
      BY <3>2 DEF Exit
  <2> QED
    BY <2>1 DEF Dumping, Threads
<1>6. Untouched
  BY <1>1, <1>2, <1>5 DEF Untouched, StillFiles
<1>7. FilesInvariant'
  BY <1>6, UntouchedFiles DEF CoreInv
<1> QED
  BY <1>3, <1>4, <1>7 DEF CoreInv

LEMMA StartTodo ==
  ASSUME Start
  PROVE  /\ DOMAIN todo' = Threads /\ todo'["agc"] = <<>>
         /\ todo'["main"] \in {<<>>, <<<<"writeback">>>>}
<1>1. PICK restored \in BOOLEAN :
        todo' = [t \in Threads |-> IF t = "main" /\ mem'["device"] # Absent
                                   THEN <<<<"writeback">>>> ELSE <<>>]
  BY DEF Start
<1> QED
  BY <1>1, EntriesAndThreads

LEMMA StartCore ==
  ASSUME CoreInv, Start
  PROVE  CoreInv'
<1>1. /\ DOMAIN todo' = Threads
      /\ \A t \in Threads : Linked(todo'[t]) /\ Ended(todo'[t])
      /\ \A t \in Threads : todo'[t] # <<>> => Starts(Doing(t)')
      /\ \A x \in Ahead("main")' : x = <<"writeback">>
      /\ \A x : x \notin Ahead("agc")'
      /\ todo'["agc"] = <<>>
  <2>1. /\ DOMAIN todo' = Threads /\ todo'["agc"] = <<>>
        /\ todo'["main"] \in {<<>>, <<<<"writeback">>>>}
    BY StartTodo
  <2>2. /\ Task(<<>>) /\ (\A x : x \notin Members(<<>>)) /\ Task(<<<<"writeback">>>>)
        /\ \A x : x \in Members(<<<<"writeback">>>>) <=> x = <<"writeback">>
    BY EmptyTask, WritebackTask, Zenon
  <2>3. PICK w : w = <<<<"writeback">>>>
    OBVIOUS
  <2>4. /\ Task(w) /\ \A x : x \in Members(w) <=> x = <<"writeback">>
    BY <2>2, <2>3, Zenon
  <2>5. todo'["main"] = <<>> \/ todo'["main"] = w
    BY <2>1, <2>3
  <2>6. \A t \in Threads : Task(todo'[t])
    BY <2>1, <2>2, <2>4, <2>5 DEF Threads
  <2>7. \A t \in Threads : todo'[t] # <<>> => Head(todo'[t]) = todo'[t][1]
    BY <2>6, TailLinked DEF Task
  <2>8. \A t \in Threads : todo'[t] # <<>> => Starts(Doing(t)')
    BY <2>6, <2>7 DEF Task, Doing
  <2>9. (\A x \in Ahead("main")' : x = <<"writeback">>) /\ \A x : x \notin Ahead("agc")'
    BY <2>1, <2>2, <2>4, <2>5 DEF Ahead
  <2> QED
    BY <2>1, <2>6, <2>8, <2>9 DEF Task
<1>2. /\ file' = file /\ DOMAIN copy' = Threads /\ phase' = "running" /\ subscribed'
      /\ timer' = {} /\ overlapped' = {}
      /\ struck' = struck \cup overlapped \cup {f \in Files : \E t \in Threads : Dumping(t, f)}
  BY DEF Start
<1>3. mem' \in [Entries -> Values] /\ mail' \in Nat
  <2>1. PICK restored \in BOOLEAN :
          /\ mem' = [e \in Entries |-> IF e = "device" /\ ~restored THEN Absent ELSE Kept(e)]
          /\ mail' = IF mem'["device"] = Absent THEN 0 ELSE 1
    BY DEF Start
  <2>2. \A e \in Entries : Kept(e) \in Values
    BY KeptValue DEF CoreInv
  <2>3. mem' \in [Entries -> Values]
    BY <2>1, <2>2, EntriesAndThreads DEF Absent
  <2> QED
    BY <2>1, <2>3
<1>4. StoresOK'
  BY <1>1, <1>2, <1>3 DEF CoreInv, StoresOK, InFile
<1>5. ListsOK'
  <2>1. <<"writeback">>[1] \notin ClosingOnly
    BY DEF ClosingOnly
  <2> QED
    BY <1>1, <1>2, <2>1 DEF ListsOK
<1>6. CopiesOK' /\ AloneInFile' /\ TruncatedOK'
  <2>1. ASSUME NEW t \in Threads, todo'[t] # <<>>
        PROVE  /\ Doing(t)'[1] # "dump" /\ Doing(t)' # <<"throttle">>
               /\ ~(Doing(t)'[1] = "open" /\ FileOf[Doing(t)'[2]] = "config")
    BY <1>1, <2>1 DEF Starts
  <2>2. \A t \in Threads : \A f : ~Holds(t, f)' /\ ~Dumping(t, f)'
    BY <2>1 DEF Holds, Dumping
  <2>3. CopiesOK'
    BY <2>1 DEF CopiesOK
  <2> QED
    BY <2>2, <2>3 DEF AloneInFile, TruncatedOK
<1>7. TornIsExplained'
  BY <1>2 DEF CoreInv, FilesInvariant, TornIsExplained
<1> QED
  BY <1>4, <1>5, <1>6, <1>7 DEF CoreInv, FilesInvariant

\* A step is one of a save, an exit, a start, or one that keeps the lists and leaves the files.
Saving(t) == todo[t] # <<>> /\ (Load(t) \/ Open(t) \/ Dump(t))
Leaving == todo["main"] # <<>> /\ Exit

LEMMA OtherSteps ==
  ASSUME StoresOK, ListsOK, [Next]_vars
  PROVE  InOrder \/ (\E t \in Threads : Saving(t)) \/ Leaving \/ Start
<1>1. CASE UNCHANGED vars
  <2>1. InOrder
    <3>1. /\ todo' = todo /\ StillFiles /\ overlapped' = overlapped /\ late' = late
          /\ phase' = phase /\ subscribed' = subscribed
          /\ mem' = mem /\ timer' = timer /\ mail' = mail
      BY <1>1 DEF vars, adapter, history, StillFiles
    <3> QED
      BY <3>1, IdleStep DEF StoresOK
  <2> QED
    BY <2>1
<1>2. CASE \E t \in Threads : Step(t)
  <2>1. PICK t \in Threads : Step(t)
    BY <1>2
  <2>2. CASE Load(t) \/ Open(t) \/ Dump(t)
    BY <2>1, <2>2 DEF Step, Saving
  <2>3. CASE Writeback(t)
    BY <2>1, <2>3, WritebackStep DEF Step
  <2>4. CASE Throttle(t)
    BY <2>1, <2>4, ThrottleStep DEF Step
  <2>5. CASE Adapter(t)
    BY <2>1, <2>5, AdapterStep DEF Step
  <2> QED
    BY <2>1, <2>2, <2>3, <2>4, <2>5 DEF Step
<1>3. CASE MainStep
  <2>1. CASE Retune \/ Resume \/ MakeCurrent
    BY <1>3, <2>1, RetuneStep DEF MainStep
  <2>2. CASE StopAdapter \/ FlushBands \/ CloseInterface \/ CloseEngine
    BY <1>3, <2>2, ClosingStep DEF MainStep
  <2>3. CASE Exit
    BY <1>3, <2>3 DEF MainStep, Leaving
  <2> QED
    BY <1>3, <2>1, <2>2, <2>3 DEF MainStep
<1>4. CASE User
  BY <1>4, UserStep
<1>5. CASE Loop \/ RefreshWindowEnds \/ SaveWindowEnds
  BY <1>5, LoopStep
<1>6. CASE Quit
  BY <1>6, QuitStep
<1>7. CASE ChangeGain
  BY <1>7, GainStep
<1> QED
  BY <1>1, <1>2, <1>3, <1>4, <1>5, <1>6, <1>7 DEF Next

LEMMA SavingCore ==
  ASSUME CoreInv, NEW t \in Threads, Saving(t)
  PROVE  CoreInv'
<1>1. StoresOK /\ ListsOK /\ FilesInvariant /\ CopiesOK
  BY DEF CoreInv, FilesInvariant
<1>2. todo[t] # <<>> /\ (Load(t) \/ Open(t) \/ Dump(t))
  BY DEF Saving
<1>3. StoresOK'
  BY <1>1, <1>2, SaveTypes
<1>4. FilesInvariant'
  <2>1. CASE Load(t)
    BY <1>1, <1>2, <2>1, LoadFiles
  <2>2. CASE Open(t)
    BY <1>1, <1>2, <2>2, OpenFiles
  <2>3. CASE Dump(t)
    BY <1>1, <1>2, <2>3, DumpFiles
  <2> QED
    BY <1>2, <2>1, <2>2, <2>3
<1>5. ListsOK'
  <2>1. PICK steps : steps = <<>>
    OBVIOUS
  <2>2. Then(t, steps) /\ phase' = phase /\ late' = late /\ subscribed' = subscribed
    BY <1>2, <2>1 DEF Load, Open, Dump, adapter
  <2> QED
    BY <1>1, <1>2, <2>1, <2>2, MovedLists DEF StoresOK
<1> QED
  BY <1>3, <1>4, <1>5 DEF CoreInv

LEMMA CoreStep ==
  ASSUME CoreInv, [Next]_vars
  PROVE  CoreInv'
<1>1. StoresOK /\ ListsOK /\ FilesInvariant
  BY DEF CoreInv
<1>2. CASE InOrder
  BY <1>1, <1>2, UntouchedFiles DEF CoreInv, InOrder
<1>3. CASE \E t \in Threads : Saving(t)
  BY <1>3, SavingCore
<1>4. CASE Leaving
  BY <1>4, ExitCore DEF Leaving
<1>5. CASE Start
  BY <1>5, StartCore
<1> QED
  BY <1>1, <1>2, <1>3, <1>4, <1>5, OtherSteps

\* A file that cannot be read is one that a thread is writing, that two threads met in, or that
\* a thread was writing when a program was killed: save_toml truncates, but no exit and no
\* orderly sequence of saves leaves the file like that.
THEOREM TornHasAReason == Spec => []TornIsExplained
<1>1. Init => CoreInv
  BY CoreInit
<1>2. CoreInv /\ [Next]_vars => CoreInv'
  BY CoreStep
<1>3. CoreInv => TornIsExplained
  BY DEF CoreInv, FilesInvariant
<1> QED
  BY <1>1, <1>2, <1>3, PTL DEF Spec

-------------------------------------------------------------------------------
(* Persistence: nothing is lost on the way to the files.                     *)

Opening(e) == \E t \in Threads : <<"open", e>> \in Ahead(t)

\* The program runs, or on_unmount has still to come to this step.
Ongoing(x) == phase = "running" \/ <<x>> \in Ahead("main")

\* A value that is not on disk will be: its file is going to be opened, a timer or a message
\* that leads to that is on its way and on_unmount has not gone past it, or the program is
\* leaving and the adapter, stopped, has dropped the event or is going to.
ToCome(e) ==
  \/ Opening(e)
  \/ e = "ui" /\ "ui" \in timer /\ Ongoing("closeUi")
  \/ e = "register" /\ unsaved /\ Ongoing("bands")
  \/ /\ e \in {"device", "engine"}
     /\ \/ phase = "running" /\ (mail > 0 \/ <<"adapter">> \in Ahead("main"))
        \/ <<"adapter">> \in Ahead("agc")
        \/ waiting /\ Ongoing("stop")
        \/ "engine" \in timer /\ Ongoing("closeEngine")
        \/ e = "engine" /\ mem["device"] = Absent
  \/ /\ e \in {"device", "engine", "register"} /\ phase # "running"
     /\ late \/ <<"adapter">> \in Ahead("agc")

SkippedDevice(e) ==
  e = "device" /\ skipped /\ ~\E t \in Threads : Dumping(t, "devices")

NothingLost ==
  \A e \in Entries : FileOf[e] \in overlapped \/ SkippedDevice(e) \/ Saved(e) \/ ToCome(e)

\* What a throttled save ends by calling saved is saved.
BandsOK ==
  ("bandstack" \notin overlapped /\ \E t \in Threads : Holds(t, "bandstack"))
    => Saved("register") \/ Opening("register")

MailOK == (phase # "running" /\ mail > 0) => late

LostInv == NothingLost /\ BandsOK /\ MailOK

WaitedFor == {<<"adapter">>, <<"stop">>, <<"bands">>, <<"closeUi">>, <<"closeEngine">>}

LEMMA WaitedSteps ==
  /\ <<"adapter">> \in WaitedFor /\ <<"stop">> \in WaitedFor /\ <<"bands">> \in WaitedFor
  /\ <<"closeUi">> \in WaitedFor /\ <<"closeEngine">> \in WaitedFor
BY DEF WaitedFor

LEMMA ToComeStays ==
  ASSUME phase' = phase, timer \subseteq timer', mail > 0 => mail' > 0, waiting => waiting',
         late => late',
         \A t \in Threads : \A x \in Ahead(t) : x \in WaitedFor => x \in Ahead(t)',
         NEW e, Opening(e) => Opening(e)', ToCome(e),
         (e = "register" /\ unsaved) => unsaved',
         (e = "engine" /\ mem["device"] = Absent) => mem'["device"] = Absent
  PROVE  ToCome(e)'
<1>1. \A x : <<x>> \in WaitedFor /\ Ongoing(x) => Ongoing(x)'
  BY EntriesAndThreads DEF Ongoing
<1>2. /\ Ongoing("stop") => Ongoing("stop")'
      /\ Ongoing("bands") => Ongoing("bands")'
      /\ Ongoing("closeUi") => Ongoing("closeUi")'
      /\ Ongoing("closeEngine") => Ongoing("closeEngine")'
  BY <1>1, WaitedSteps
<1>3. /\ <<"adapter">> \in Ahead("agc") => <<"adapter">> \in Ahead("agc")'
      /\ <<"adapter">> \in Ahead("main") => <<"adapter">> \in Ahead("main")'
  BY WaitedSteps, EntriesAndThreads
<1>4. CASE Opening(e)
  BY <1>4 DEF ToCome
<1>5. CASE e = "ui" /\ "ui" \in timer /\ Ongoing("closeUi")
  BY <1>2, <1>5 DEF ToCome
<1>6. CASE e = "register" /\ unsaved /\ Ongoing("bands")
  BY <1>2, <1>6 DEF ToCome
<1>7. CASE /\ e \in {"device", "engine"}
           /\ \/ phase = "running" /\ (mail > 0 \/ <<"adapter">> \in Ahead("main"))
              \/ <<"adapter">> \in Ahead("agc")
              \/ waiting /\ Ongoing("stop")
              \/ "engine" \in timer /\ Ongoing("closeEngine")
              \/ e = "engine" /\ mem["device"] = Absent
  <2>1. \/ phase' = "running" /\ (mail' > 0 \/ <<"adapter">> \in Ahead("main")')
        \/ <<"adapter">> \in Ahead("agc")'
        \/ waiting' /\ Ongoing("stop")'
        \/ "engine" \in timer' /\ Ongoing("closeEngine")'
        \/ e = "engine" /\ mem'["device"] = Absent
    BY <1>2, <1>3, <1>7
  <2> QED
    BY <1>7, <2>1 DEF ToCome, Absent
<1>8. CASE /\ e \in {"device", "engine", "register"} /\ phase # "running"
           /\ late \/ <<"adapter">> \in Ahead("agc")
  BY <1>3, <1>8 DEF ToCome
<1> QED
  BY <1>4, <1>5, <1>6, <1>7, <1>8 DEF ToCome

\* What remains ahead when a thread has made a step.
LEMMA PoppedAhead ==
  ASSUME StoresOK, ListsOK, NEW t \in Threads, todo[t] # <<>>, NEW steps,
         steps = <<>> \/ (Piece(steps) /\ Doing(t)[1] \notin {"load", "open", "dump"}),
         Then(t, steps)
  PROVE  /\ \A u \in Threads : \A x \in Ahead(u) : x \in Ahead(u)' \/ (u = t /\ x = Doing(t))
         /\ \A x \in Members(steps) : x \in Ahead(t)'
         /\ \A e : <<"open", e>> \in Members(steps) => Opening(e)'
         /\ \A e : Opening(e) /\ Doing(t) # <<"open", e>> => Opening(e)'
<1>1. /\ \A u \in Threads \ {t} : todo'[u] = todo[u]
      /\ \A x \in Ahead(t) : x # Doing(t) => x \in Ahead(t)'
      /\ \A x \in Members(steps) : x \in Ahead(t)'
  BY Moved DEF StoresOK
<1>2. \A u \in Threads \ {t} : Ahead(u)' = Ahead(u)
  BY <1>1 DEF Ahead
<1>3. \A u \in Threads : \A x \in Ahead(u) : x \in Ahead(u)' \/ (u = t /\ x = Doing(t))
  BY <1>1, <1>2
<1> QED
  BY <1>1, <1>3 DEF Opening

\* When no step of a save is made, only values that change and promises that end matter.
LEMMA UntouchedLost ==
  ASSUME LostInv, Untouched, skipped => skipped',
         \A e \in Entries : mem'[e] = mem[e] \/ ToCome(e)',
         \A e \in Entries : ToCome(e) => ToCome(e)' \/ Saved(e)' \/ FileOf[e] \in overlapped',
         Opening("register") => Opening("register")',
         \/ mem'["register"] = mem["register"] \/ Opening("register")'
         \/ "bandstack" \in overlapped'
         \/ ~\E t \in Threads : Holds(t, "bandstack")',
         (phase' # "running" /\ mail' > 0) => late'
  PROVE  LostInv'
<1>1. /\ \A t \in Threads, f \in Files : Dumping(t, f)' <=> Dumping(t, f)
      /\ \A t \in Threads, f \in Files : Holds(t, f)' => Holds(t, f)
      /\ overlapped \subseteq overlapped'
  BY UntouchedThreads DEF Untouched
<1>2. ASSUME NEW e \in Entries
      PROVE  FileOf[e] \in overlapped' \/ SkippedDevice(e)' \/ Saved(e)' \/ ToCome(e)'
  <2>1. CASE FileOf[e] \in overlapped
    BY <1>1, <2>1
  <2>2. CASE SkippedDevice(e)
    BY <1>1, <2>2, EntriesAndThreads DEF SkippedDevice
  <2>3. CASE Saved(e)
    BY <2>3, UntouchedSaved
  <2>4. CASE ToCome(e)
    BY <2>4
  <2> QED
    BY <2>1, <2>2, <2>3, <2>4 DEF LostInv, NothingLost
<1>3. NothingLost'
  BY <1>2 DEF NothingLost, FileOf
<1>4. BandsOK'
  <2>1. SUFFICES ASSUME "bandstack" \notin overlapped', \E t \in Threads : Holds(t, "bandstack")'
                 PROVE  Saved("register")' \/ Opening("register")'
    BY DEF BandsOK
  <2>2. Saved("register") \/ Opening("register")
    BY <1>1, <2>1, EntriesAndThreads DEF LostInv, BandsOK
  <2> QED
    BY <2>1, <2>2, UntouchedSaved, EntriesAndThreads
<1>5. MailOK'
  BY DEF MailOK
<1> QED
  BY <1>3, <1>4, <1>5 DEF LostInv

\* The steps of a save.
LEMMA OpeningStays ==
  ASSUME StoresOK, ListsOK, NEW t \in Threads, Saving(t), NEW e, Doing(t) # <<"open", e>>, Opening(e)
  PROVE  Opening(e)'
<1>1. todo[t] # <<>> /\ Then(t, <<>>)
  BY DEF Saving, Load, Open, Dump
<1>2. \A u \in Threads : \A x \in Ahead(u) : (u # t \/ x # Doing(t)) => x \in Ahead(u)'
  BY <1>1, SaveMoved
<1> QED
  BY <1>2 DEF Opening

LEMMA SavingToCome ==
  ASSUME StoresOK, ListsOK, NEW t \in Threads, Saving(t),
         NEW e, ToCome(e), Doing(t) # <<"open", e>>
  PROVE  ToCome(e)'
<1>1. /\ todo[t] # <<>> /\ Then(t, <<>>) /\ Doing(t)[1] \in {"load", "open", "dump"}
      /\ UNCHANGED <<phase, mem, timer, mail, unsaved, waiting, late>>
  BY DEF Saving, Load, Open, Dump, adapter, writeback
<1>2. \A u \in Threads : \A x \in Ahead(u) : (u # t \/ x # Doing(t)) => x \in Ahead(u)'
  BY <1>1, SaveMoved
<1>3. \A x \in WaitedFor : x[1] \notin {"load", "open", "dump"}
  BY DEF WaitedFor
<1>4. \A u \in Threads : \A x \in Ahead(u) : x \in WaitedFor => x \in Ahead(u)'
  BY <1>1, <1>2, <1>3
<1>5. Opening(e) => Opening(e)'
  BY <1>2 DEF Opening
<1> QED
  BY <1>1, <1>4, <1>5, ToComeStays

LEMMA LoadLost ==
  ASSUME CoreInv, LostInv, NEW t \in Threads, todo[t] # <<>>, Load(t)
  PROVE  LostInv'
<1>0. StoresOK /\ ListsOK /\ Saving(t)
  BY DEF CoreInv, Saving
<1>1. PICK e, f : e = Doing(t)[2] /\ f = FileOf[e]
  OBVIOUS
<1>2. /\ Doing(t) = <<"load", e>> /\ todo'[t] # <<>> /\ Doing(t)' = <<"open", e>>
      /\ \A u \in Threads \ {t} : todo'[u] = todo[u] /\ Doing(u)' = Doing(u)
      /\ overlapped \subseteq overlapped' /\ skipped' = skipped
  BY <1>0, <1>1, LoadFacts
<1>3. \A x : ToCome(x) => ToCome(x)'
  BY <1>0, <1>2, SavingToCome
<1>4. \A u \in Threads : Dumping(u, "devices")' <=> Dumping(u, "devices")
  BY <1>2 DEF Dumping
<1>5. \A u \in Threads : Holds(u, "bandstack")' => Holds(u, "bandstack")
  BY <1>2 DEF Holds
<1>6. ASSUME NEW x \in Entries
      PROVE  FileOf[x] \in overlapped' \/ SkippedDevice(x)' \/ Saved(x)' \/ ToCome(x)'
  <2>1. CASE FileOf[x] \in overlapped
    BY <1>2, <2>1
  <2>2. CASE SkippedDevice(x)
    BY <1>2, <1>4, <2>2 DEF SkippedDevice
  <2>3. CASE Saved(x)
    BY <1>0, <2>3, LoadSaved
  <2>4. CASE ToCome(x)
    BY <1>3, <2>4
  <2> QED
    BY <2>1, <2>2, <2>3, <2>4 DEF LostInv, NothingLost
<1>7. NothingLost'
  BY <1>6 DEF NothingLost, FileOf
<1>8. BandsOK'
  <2>1. Saved("register") => Saved("register")'
    BY <1>0, LoadSaved, EntriesAndThreads
  <2>2. Opening("register") => Opening("register")'
    BY <1>0, <1>2, OpeningStays
  <2> QED
    BY <1>2, <1>5, <2>1, <2>2 DEF LostInv, BandsOK
<1>9. MailOK'
  BY DEF LostInv, MailOK, Load
<1> QED
  BY <1>7, <1>8, <1>9 DEF LostInv

LEMMA OpenLost ==
  ASSUME CoreInv, LostInv, NEW t \in Threads, todo[t] # <<>>, Open(t)
  PROVE  LostInv'
<1>0. StoresOK /\ ListsOK /\ Saving(t) /\ FilesInvariant /\ CopiesOK
  BY DEF CoreInv, Saving, FilesInvariant
<1>1. PICK e, f : e = Doing(t)[2] /\ f = FileOf[e]
  OBVIOUS
<1>2. /\ Doing(t) = <<"open", e>> /\ e \in Entries
      /\ todo'[t] # <<>> /\ Doing(t)' = <<"dump", e>>
      /\ \A u \in Threads \ {t} : todo'[u] = todo[u] /\ Doing(u)' = Doing(u)
      /\ overlapped \subseteq overlapped' /\ skipped' = skipped
  BY <1>0, <1>1, OpenFacts
<1>3. \A x \in Entries : x # e /\ ToCome(x) => ToCome(x)'
  <2>1. ASSUME NEW x \in Entries, x # e, ToCome(x) PROVE ToCome(x)'
    <3>1. Doing(t) # <<"open", x>>
      BY <1>2, <2>1
    <3> QED
      BY <1>0, <2>1, <3>1, SavingToCome
  <2> QED
    BY <2>1
<1>4. \A x \in Entries : FileOf[x] \notin overlapped' /\ (Saved(x) \/ x = e) => Saved(x)'
  BY <1>0, <1>1, OpenSaved
<1>5. \A u \in Threads, x \in Entries :
        x # e /\ x \in {"device", "register"} =>
          /\ Dumping(u, FileOf[x])' => Dumping(u, FileOf[x])
          /\ Holds(u, FileOf[x])' => Holds(u, FileOf[x])
  <2>1. ASSUME NEW x \in Entries, x # e, x \in {"device", "register"}
        PROVE  ~Dumping(t, FileOf[x])' /\ ~Holds(t, FileOf[x])'
    <3>1. FileOf[x] # FileOf[e]
      BY <1>2, <2>1, FilesOfEntries
    <3> QED
      BY <1>2, <3>1 DEF Dumping, Holds
  <2>2. \A u \in Threads \ {t} : \A g : /\ Dumping(u, g)' <=> Dumping(u, g)
                                       /\ Holds(u, g)' <=> Holds(u, g)
    BY <1>2 DEF Dumping, Holds
  <2>3. ASSUME NEW u \in Threads, NEW x \in Entries, x # e, x \in {"device", "register"}
        PROVE  /\ Dumping(u, FileOf[x])' => Dumping(u, FileOf[x])
               /\ Holds(u, FileOf[x])' => Holds(u, FileOf[x])
    <3>1. CASE u = t
      <4>1. ~Dumping(t, FileOf[x])' /\ ~Holds(t, FileOf[x])'
        BY <2>1, <2>3, Zenon
      <4> QED
        BY <3>1, <4>1, Zenon
    <3>2. CASE u # t
      BY <1>2, <2>3, <3>2 DEF Dumping, Holds
    <3> QED
      BY <3>1, <3>2
  <2> QED
    BY <2>3, Zenon
<1>6. ASSUME NEW x \in Entries
      PROVE  FileOf[x] \in overlapped' \/ SkippedDevice(x)' \/ Saved(x)' \/ ToCome(x)'
  <2>1. CASE FileOf[x] \in overlapped
    BY <1>2, <2>1
  <2>2. CASE SkippedDevice(x)
    <3>1. CASE x = e
      BY <1>4, <3>1
    <3>2. CASE x # e
      BY <1>2, <1>5, <2>2, <3>2, FilesOfEntries DEF SkippedDevice
    <3> QED
      BY <3>1, <3>2
  <2>3. CASE Saved(x)
    BY <1>4, <2>3
  <2>4. CASE ToCome(x)
    BY <1>3, <1>4, <2>4
  <2> QED
    BY <2>1, <2>2, <2>3, <2>4 DEF LostInv, NothingLost
<1>7. NothingLost'
  BY <1>6 DEF NothingLost, FileOf
<1>8. BandsOK'
  <2>1. SUFFICES ASSUME "bandstack" \notin overlapped', \E u \in Threads : Holds(u, "bandstack")'
                 PROVE  Saved("register")' \/ Opening("register")'
    BY DEF BandsOK
  <2>2. "register" \in Entries /\ FileOf["register"] = "bandstack"
    BY EntriesAndThreads, FilesOfEntries
  <2>3. CASE e = "register"
    BY <1>4, <2>1, <2>2, <2>3
  <2>4. CASE e # "register"
    <3>1. \E u \in Threads : Holds(u, "bandstack")
      BY <1>5, <2>1, <2>2, <2>4
    <3>2. Saved("register") \/ Opening("register")
      BY <1>2, <2>1, <3>1 DEF LostInv, BandsOK
    <3>3. Doing(t) # <<"open", "register">>
      BY <1>2, <2>4
    <3>4. Opening("register") => Opening("register")'
      BY <1>0, <3>3, OpeningStays
    <3> QED
      BY <1>4, <2>1, <2>2, <3>2, <3>4
  <2> QED
    BY <2>3, <2>4
<1>9. MailOK'
  BY DEF LostInv, MailOK, Open
<1> QED
  BY <1>7, <1>8, <1>9 DEF LostInv

LEMMA DumpLost ==
  ASSUME CoreInv, LostInv, NEW t \in Threads, todo[t] # <<>>, Dump(t)
  PROVE  LostInv'
<1>0. StoresOK /\ ListsOK /\ Saving(t) /\ FilesInvariant
  BY DEF CoreInv, Saving
<1>1. PICK e, f : e = Doing(t)[2] /\ f = FileOf[e]
  OBVIOUS
<1>2. /\ Doing(t) = <<"dump", e>> /\ e \in Entries
      /\ todo'[t] # <<>> => /\ Doing(t)'[1] # "dump"
                            /\ ~(Doing(t)'[1] = "open" /\ FileOf[Doing(t)'[2]] = "config")
                            /\ (Doing(t)' = <<"throttle">> => e = "register")
      /\ \A u \in Threads \ {t} : todo'[u] = todo[u] /\ Doing(u)' = Doing(u)
      /\ overlapped' = overlapped /\ skipped' = (skipped /\ e # "device")
  BY <1>0, <1>1, DumpFacts
<1>3. \A x : ToCome(x) => ToCome(x)'
  BY <1>0, <1>2, SavingToCome
<1>4. \A u \in Threads : Dumping(u, "devices")' => Dumping(u, "devices")
  BY <1>2 DEF Dumping
<1>5. \A u \in Threads : Holds(u, "bandstack")' => Holds(u, "bandstack")
  <2>1. ASSUME Holds(t, "bandstack")' PROVE Holds(t, "bandstack")
    <3>1. Doing(t)' = <<"throttle">> /\ todo'[t] # <<>>
      BY <1>2, <2>1 DEF Holds
    <3>2. FileOf[e] = "bandstack"
      BY <1>2, <3>1, FilesOfEntries
    <3> QED
      BY <1>2, <3>2 DEF Holds
  <2>2. \A u \in Threads \ {t} : Holds(u, "bandstack")' => Holds(u, "bandstack")
    BY <1>2 DEF Holds
  <2> QED
    BY <2>1, <2>2
<1>6. ASSUME NEW x \in Entries
      PROVE  FileOf[x] \in overlapped' \/ SkippedDevice(x)' \/ Saved(x)' \/ ToCome(x)'
  <2>1. CASE FileOf[x] \in overlapped
    BY <1>2, <2>1
  <2>2. CASE SkippedDevice(x)
    <3>1. e # "device"
      <4>1. ~Dumping(t, "devices")
        BY <2>2 DEF SkippedDevice
      <4> QED
        BY <1>2, <4>1, FilesOfEntries DEF Dumping
    <3> QED
      BY <1>2, <1>4, <2>2, <3>1 DEF SkippedDevice
  <2>3. CASE Saved(x) /\ FileOf[x] \notin overlapped
    BY <1>0, <2>3, DumpSaved
  <2>4. CASE ToCome(x)
    BY <1>3, <2>4
  <2> QED
    BY <2>1, <2>2, <2>3, <2>4 DEF LostInv, NothingLost
<1>7. NothingLost'
  BY <1>6 DEF NothingLost, FileOf
<1>8. BandsOK'
  <2>1. "register" \in Entries /\ FileOf["register"] = "bandstack"
    BY EntriesAndThreads, FilesOfEntries
  <2>2. "bandstack" \notin overlapped /\ Saved("register") => Saved("register")'
    BY <1>0, <2>1, DumpSaved
  <2>3. Opening("register") => Opening("register")'
    BY <1>0, <1>2, OpeningStays
  <2> QED
    BY <1>2, <1>5, <2>2, <2>3 DEF LostInv, BandsOK
<1>9. MailOK'
  BY DEF LostInv, MailOK, Dump
<1> QED
  BY <1>7, <1>8, <1>9 DEF LostInv

\* The other steps of a list.
LEMMA WritebackFollowed ==
  ASSUME ListsOK, NEW t \in Threads, todo[t] # <<>>, Doing(t) = <<"writeback">>
  PROVE  /\ t = "main" => phase = "running"
         /\ t = "agc" => <<"adapter">> \in Ahead("agc") \/ late
<1>1. PICK s : s = todo[t]
  OBVIOUS
<1>2. Linked(s) /\ Ended(s) /\ s # <<>> /\ s[1] = <<"writeback">> /\ Doing(t) \in Ahead(t)
  BY <1>1, HeadInSteps DEF ListsOK
<1>3. ASSUME t = "main" PROVE phase = "running"
  <2>1. Doing(t)[1] \in RunningOnly
    BY DEF RunningOnly
  <2> QED
    BY <1>2, <1>3, <2>1 DEF ListsOK
<1>4. ASSUME t = "agc" PROVE <<"adapter">> \in Ahead("agc") \/ late
  <2>1. CASE Tail(s) = <<>>
    <3>1. s[Len(s)] = <<"writeback">>
      BY <1>2, <2>1, TailLinked
    <3> QED
      BY <1>1, <1>2, <1>4, <3>1 DEF ListsOK
  <2>2. CASE Tail(s) # <<>>
    <3>1. Links(s[1], Tail(s)[1]) /\ Linked(Tail(s)) /\ Ended(Tail(s))
      BY <1>2, <2>2, TailLinked
    <3>2. Tail(s)[1] = <<"adapter">>
      BY <1>2, <3>1 DEF Links
    <3>3. Head(Tail(s)) = Tail(s)[1]
      BY <2>2, <3>1, TailLinked
    <3>4. <<"adapter">> \in Members(Tail(s))
      BY <2>2, <3>1, <3>2, <3>3, TailMembers DEF Linked
    <3>5. <<"adapter">> \in Members(s)
      BY <1>2, <3>4, TailMembers DEF Linked
    <3> QED
      BY <1>1, <1>4, <3>5 DEF Ahead
  <2> QED
    BY <2>1, <2>2
<1> QED
  BY <1>3, <1>4

LEMMA WritebackLost ==
  ASSUME CoreInv, LostInv, NEW t \in Threads, todo[t] # <<>>, Writeback(t)
  PROVE  LostInv'
<1>0. StoresOK /\ ListsOK /\ Untouched
  BY WritebackStep DEF CoreInv, InOrder
<1>1. Doing(t) = <<"writeback">>
  <2>1. Doing(t) \in Steps /\ Doing(t)[1] = "writeback"
    BY <1>0, HeadInSteps DEF Writeback
  <2> QED
    BY <2>1, StepShapes DEF Singles
<1>2. /\ UNCHANGED <<phase, timer, mail, waiting, late, skipped>>
      /\ unsaved => unsaved'
  BY DEF Writeback, adapter
<1>3. PICK steps :
        /\ steps = <<>> \/ Piece(steps)
        /\ Then(t, steps)
        /\ \A e \in Entries : mem'[e] = mem[e] \/ <<"open", e>> \in Members(steps)
                              \/ (e = "register" /\ unsaved')
        /\ mem'["device"] = mem["device"]
        /\ \/ mem'["register"] = mem["register"] \/ <<"open", "register">> \in Members(steps)
           \/ Meet(t, "bandstack")
  <2>1. CASE suspended \/ mem["device"] = Absent \/ mem["tuning"] = 0
    <3>1. Then(t, <<>>) /\ mem' = mem
      BY <2>1 DEF Writeback
    <3> QED
      BY <3>1
  <2>2. CASE ~(suspended \/ mem["device"] = Absent \/ mem["tuning"] = 0) /\ ~inBand
    <3>1. Then(t, Save("tuning")) /\ mem' = [mem EXCEPT !["tuning"] = 0]
      BY <2>2 DEF Writeback
    <3>2. Piece(Save("tuning")) /\ <<"open", "tuning">> \in Members(Save("tuning"))
      BY SavePiece, EntriesAndThreads
    <3>3. \A e \in Entries \ {"tuning"} : mem'[e] = mem[e]
      BY <1>0, <3>1 DEF StoresOK
    <3>4. mem'["device"] = mem["device"] /\ mem'["register"] = mem["register"]
      BY <3>3, EntriesAndThreads
    <3> QED
      BY <3>1, <3>2, <3>3, <3>4
  <2>3. CASE ~(suspended \/ mem["device"] = Absent \/ mem["tuning"] = 0) /\ inBand
    <3>1. /\ Then(t, IF justSaved THEN <<>> ELSE SaveRegister) /\ Meet(t, "bandstack")
          /\ mem' = [mem EXCEPT !["register"] = Fresh("register")]
          /\ justSaved => unsaved'
      BY <2>3 DEF Writeback
    <3>2. \A e \in Entries \ {"register"} : mem'[e] = mem[e]
      BY <1>0, <3>1 DEF StoresOK
    <3>3. mem'["device"] = mem["device"]
      BY <3>2, EntriesAndThreads
    <3>4. CASE justSaved
      <4>1. Then(t, <<>>) /\ unsaved'
        BY <3>1, <3>4
      <4> QED
        BY <3>1, <3>2, <3>3, <4>1
    <3>5. CASE ~justSaved
      <4>1. Then(t, SaveRegister)
        BY <3>1, <3>5
      <4>2. Piece(SaveRegister) /\ <<"open", "register">> \in Members(SaveRegister)
        BY RegisterPiece
      <4> QED
        BY <3>2, <3>3, <4>1, <4>2
    <3> QED
      BY <3>4, <3>5
  <2> QED
    BY <2>1, <2>2, <2>3
<1>4. /\ \A u \in Threads : \A x \in Ahead(u) : x \in Ahead(u)' \/ (u = t /\ x = Doing(t))
      /\ \A e : <<"open", e>> \in Members(steps) => Opening(e)'
      /\ \A e : Opening(e) /\ Doing(t) # <<"open", e>> => Opening(e)'
  <2>1. Doing(t)[1] \notin {"load", "open", "dump"}
    BY <1>1
  <2> QED
    BY <1>0, <1>3, <2>1, PoppedAhead
<1>5. \A e : Opening(e) => Opening(e)'
  BY <1>1, <1>4
<1>6. \A u \in Threads : \A x \in Ahead(u) : x \in WaitedFor => x \in Ahead(u)'
  BY <1>1, <1>4 DEF WaitedFor
<1>7. \A e \in Entries : ToCome(e) => ToCome(e)'
  <2>1. ASSUME NEW e \in Entries, ToCome(e) PROVE ToCome(e)'
    BY <1>2, <1>3, <1>5, <1>6, <2>1, ToComeStays
  <2> QED
    BY <2>1
<1>8. ASSUME unsaved' PROVE ToCome("register")'
  <2>1. CASE phase = "running"
    BY <1>2, <1>8, <2>1 DEF ToCome, Ongoing
  <2>2. CASE phase # "running"
    <3>1. t = "agc" /\ (<<"adapter">> \in Ahead("agc") \/ late)
      BY <1>0, <1>1, <2>2, WritebackFollowed DEF Threads
    <3>2. <<"adapter">> \in Ahead("agc")' \/ late'
      BY <1>2, <1>6, <3>1, WaitedSteps
    <3> QED
      BY <1>2, <2>2, <3>2 DEF ToCome
  <2> QED
    BY <2>1, <2>2
<1>9. \A e \in Entries : mem'[e] = mem[e] \/ ToCome(e)'
  <2>1. \A e : Opening(e)' => ToCome(e)'
    BY DEF ToCome
  <2> QED
    BY <1>3, <1>4, <1>8, <2>1
<1>10. \/ mem'["register"] = mem["register"] \/ Opening("register")'
       \/ "bandstack" \in overlapped'
       \/ ~\E u \in Threads : Holds(u, "bandstack")'
  <2>1. SUFFICES ASSUME Meet(t, "bandstack"), NEW u \in Threads, Holds(u, "bandstack")'
                 PROVE  "bandstack" \in overlapped'
    BY <1>3, <1>4
  <2>2. Holds(u, "bandstack")
    BY <1>0, <2>1, UntouchedThreads, EntriesAndThreads
  <2>3. u # t
    BY <1>1, <2>2 DEF Holds
  <2>4. InSave(u, "bandstack")
    BY <2>2 DEF Holds, InSave
  <2> QED
    BY <1>0, <2>1, <2>3, <2>4, MeetTyped, EntriesAndThreads
<1>11. (phase' # "running" /\ mail' > 0) => late'
  BY <1>2 DEF LostInv, MailOK
<1> QED
  BY <1>0, <1>2, <1>5, <1>7, <1>9, <1>10, <1>11, UntouchedLost

\* What a step pops that puts nothing before the rest.
LEMMA PoppedSingle ==
  ASSUME StoresOK, ListsOK, NEW t \in Threads, todo[t] # <<>>, Doing(t)[1] \in Singles,
         Then(t, <<>>)
  PROVE  /\ Doing(t) = <<Doing(t)[1]>>
         /\ \A u \in Threads : \A x \in Ahead(u) : x \in Ahead(u)' \/ (u = t /\ x = Doing(t))
         /\ \A e : Opening(e) => Opening(e)'
<1>1. Doing(t) \in Steps
  BY HeadInSteps
<1>2. Doing(t) = <<Doing(t)[1]>>
  BY <1>1, StepShapes
<1>3. \A u \in Threads : \A x \in Ahead(u) : (u # t \/ x # Doing(t)) => x \in Ahead(u)'
  BY SaveMoved
<1>4. \A e : <<"open", e>>[1] \notin Singles
  BY DEF Singles
<1> QED
  BY <1>2, <1>3, <1>4 DEF Opening

LEMMA ThrottleLost ==
  ASSUME CoreInv, LostInv, NEW t \in Threads, todo[t] # <<>>, Throttle(t)
  PROVE  LostInv'
<1>0. StoresOK /\ ListsOK /\ Untouched
  BY ThrottleStep DEF CoreInv, InOrder
<1>1. /\ UNCHANGED <<phase, mem, timer, mail, waiting, late, skipped, overlapped>>
      /\ Then(t, <<>>) /\ Doing(t)[1] = "throttle" /\ Doing(t)[1] \in Singles
  BY DEF Throttle, adapter, history, Singles
<1>2. /\ Doing(t) = <<Doing(t)[1]>>
      /\ \A u \in Threads : \A x \in Ahead(u) : x \in Ahead(u)' \/ (u = t /\ x = Doing(t))
      /\ \A e : Opening(e) => Opening(e)'
  BY <1>0, <1>1, PoppedSingle
<1>3. Doing(t) = <<"throttle">>
  BY <1>1, <1>2
<1>4. \A u \in Threads : \A x \in Ahead(u) : x \in WaitedFor => x \in Ahead(u)'
  BY <1>2, <1>3 DEF WaitedFor
<1>5. ASSUME NEW e \in Entries, ToCome(e)
      PROVE  ToCome(e)' \/ Saved(e)' \/ FileOf[e] \in overlapped'
  <2>1. CASE e = "register"
    <3>1. Holds(t, "bandstack") /\ FileOf[e] = "bandstack"
      BY <1>3, <2>1, FilesOfEntries DEF Holds
    <3>2. "bandstack" \in overlapped \/ Saved("register") \/ Opening("register")
      BY <3>1 DEF LostInv, BandsOK
    <3>3. Opening("register")' => ToCome("register")'
      BY DEF ToCome
    <3>4. Saved("register") => Saved("register")'
      BY <1>0, <1>1, UntouchedSaved, EntriesAndThreads
    <3> QED
      BY <1>1, <1>2, <2>1, <3>1, <3>2, <3>3, <3>4
  <2>2. CASE e # "register"
    BY <1>1, <1>2, <1>4, <1>5, <2>2, ToComeStays
  <2> QED
    BY <2>1, <2>2
<1>6. (phase' # "running" /\ mail' > 0) => late'
  BY <1>1 DEF LostInv, MailOK
<1> QED
  BY <1>0, <1>1, <1>2, <1>5, <1>6, UntouchedLost

LEMMA AdapterLost ==
  ASSUME CoreInv, LostInv, NEW t \in Threads, todo[t] # <<>>, Adapter(t)
  PROVE  LostInv'
<1>0. StoresOK /\ ListsOK /\ Untouched
  BY AdapterStep DEF CoreInv, InOrder
<1>1. /\ UNCHANGED <<phase, mem, unsaved, skipped, overlapped>>
      /\ Then(t, <<>>) /\ Doing(t)[1] = "adapter" /\ Doing(t)[1] \in Singles
      /\ timer \subseteq timer'
  BY DEF Adapter, writeback, Singles
<1>2. /\ Doing(t) = <<Doing(t)[1]>>
      /\ \A u \in Threads : \A x \in Ahead(u) : x \in Ahead(u)' \/ (u = t /\ x = Doing(t))
      /\ \A e : Opening(e) => Opening(e)'
  BY <1>0, <1>1, PoppedSingle
<1>3. waiting' \/ mail' > 0
  <2>1. CASE recent
    BY <2>1 DEF Adapter
  <2>2. CASE ~recent
    <3>1. mail' = mail + 1
      BY <2>2 DEF Adapter, Post
    <3> QED
      BY <1>0, <3>1 DEF StoresOK
  <2> QED
    BY <2>1, <2>2
<1>4. phase # "running" => late'
  BY DEF Adapter
<1>5. <<"closeUi">> \in Ahead("main") => <<"closeUi">> \in Ahead("main")'
  BY <1>1, <1>2, EntriesAndThreads
<1>6. ASSUME NEW e \in Entries, ToCome(e) PROVE ToCome(e)'
  <2>1. CASE phase = "running"
    BY <1>1, <1>2, <1>3, <1>6, <2>1 DEF ToCome, Ongoing
  <2>2. CASE phase # "running"
    BY <1>1, <1>2, <1>4, <1>5, <1>6, <2>2 DEF ToCome, Ongoing
  <2> QED
    BY <2>1, <2>2
<1>7. (phase' # "running" /\ mail' > 0) => late'
  BY <1>1, <1>4
<1> QED
  BY <1>0, <1>1, <1>2, <1>6, <1>7, UntouchedLost

LEMMA RecallLost ==
  ASSUME CoreInv, LostInv, todo["main"] # <<>>, Retune \/ Resume \/ MakeCurrent
  PROVE  LostInv'
<1>0. StoresOK /\ ListsOK /\ Untouched
  BY RetuneStep DEF CoreInv, InOrder
<1>1. /\ UNCHANGED <<phase, timer, mail, waiting, unsaved, late, skipped, overlapped>>
      /\ Then("main", <<>>) /\ Doing("main")[1] \in {"retune", "resume", "current"}
  BY DEF Retune, Resume, MakeCurrent, adapter, history, writeback
<1>2. PICK t : t = "main" /\ t \in Threads
  BY EntriesAndThreads
<1>3. Doing(t)[1] \in Singles
  BY <1>1, <1>2 DEF Singles
<1>4. /\ Doing(t) = <<Doing(t)[1]>>
      /\ \A u \in Threads : \A x \in Ahead(u) : x \in Ahead(u)' \/ (u = t /\ x = Doing(t))
      /\ \A e : Opening(e) => Opening(e)'
  BY <1>0, <1>1, <1>2, <1>3, PoppedSingle
<1>5. \A u \in Threads : \A x \in Ahead(u) : x \in WaitedFor => x \in Ahead(u)'
  BY <1>1, <1>2, <1>4 DEF WaitedFor
<1>6. /\ Doing(t) = <<"retune">> => <<"adapter">> \in Ahead("main")'
      /\ Doing(t) = <<"current">> => <<"open", "tuning">> \in Ahead("main")'
  <2>1. PICK steps : steps = <<>>
    OBVIOUS
  <2>2. Then(t, steps)
    BY <1>1, <1>2, <2>1
  <2>3. /\ Doing(t) = <<"retune">> => <<"adapter">> \in Ahead(t)'
        /\ Doing(t) = <<"current">> => <<"open", "tuning">> \in Ahead(t)'
    BY <1>0, <1>2, <2>1, <2>2, Moved DEF StoresOK
  <2> QED
    BY <1>2, <2>3
<1>7. (phase' # "running" /\ mail' > 0) => late'
  BY <1>1 DEF LostInv, MailOK
<1>8. Opening("tuning")' => ToCome("tuning")'
  BY DEF ToCome
<1>9. CASE Retune
  <2>1. /\ Doing(t) = <<"retune">> /\ mem' = [mem EXCEPT !["device"] = Fresh("device")]
    BY <1>2, <1>4, <1>9 DEF Retune
  <2>2. phase = "running"
    <3>1. Doing(t) \in Ahead("main") /\ Doing(t)[1] \in RunningOnly
      BY <1>0, <1>2, <2>1, HeadInSteps DEF RunningOnly
    <3> QED
      BY <3>1, <1>0 DEF ListsOK
  <2>3. ToCome("device")' /\ ToCome("engine")'
    BY <1>1, <1>6, <2>1, <2>2 DEF ToCome
  <2>4. \A e \in Entries \ {"device"} : mem'[e] = mem[e]
    BY <1>0, <2>1 DEF StoresOK
  <2>5. ASSUME NEW e \in Entries, ToCome(e) PROVE ToCome(e)'
    <3>1. CASE e = "engine"
      BY <2>3, <3>1
    <3>2. CASE e # "engine"
      BY <1>1, <1>4, <1>5, <2>5, <3>2, ToComeStays
    <3> QED
      BY <3>1, <3>2
  <2>6. mem'["register"] = mem["register"]
    BY <2>4, EntriesAndThreads
  <2> QED
    BY <1>0, <1>1, <1>4, <1>7, <2>3, <2>4, <2>5, <2>6, UntouchedLost
<1>10. CASE Resume \/ MakeCurrent
  <2>1. /\ \A e \in Entries : mem'[e] = mem[e] \/ (e = "tuning" /\ MakeCurrent)
        /\ mem'["device"] = mem["device"] /\ mem'["register"] = mem["register"]
    BY <1>0, <1>10, EntriesAndThreads DEF Resume, MakeCurrent, StoresOK
  <2>2. ASSUME MakeCurrent PROVE ToCome("tuning")'
    <3>1. Doing(t) = <<"current">>
      BY <1>2, <1>4, <2>2 DEF MakeCurrent
    <3> QED
      BY <1>6, <1>8, <3>1, EntriesAndThreads DEF Opening
  <2>3. ASSUME NEW e \in Entries, ToCome(e) PROVE ToCome(e)'
    BY <1>1, <1>4, <1>5, <2>1, <2>3, ToComeStays
  <2> QED
    BY <1>0, <1>1, <1>4, <1>7, <2>1, <2>2, <2>3, UntouchedLost
<1> QED
  BY <1>9, <1>10

LEMMA LeavingPhase ==
  ASSUME StoresOK, ListsOK, todo["main"] # <<>>, Doing("main")[1] \in ClosingOnly
  PROVE  /\ phase = "closing" /\ Doing("main") = <<Doing("main")[1]>>
         /\ Doing("main")[1] \notin {"load", "open", "dump"}
<1>1. Doing("main") \in Steps /\ Doing("main") \in Ahead("main")
  BY HeadInSteps, EntriesAndThreads
<1>2. phase = "closing"
  BY <1>1 DEF ListsOK
<1>3. Doing("main")[1] \in Singles /\ Doing("main")[1] \notin {"load", "open", "dump"}
  BY DEF ClosingOnly, Singles
<1> QED
  BY <1>1, <1>2, <1>3, StepShapes

LEMMA ClosingLost ==
  ASSUME CoreInv, LostInv, todo["main"] # <<>>,
         StopAdapter \/ FlushBands \/ CloseInterface \/ CloseEngine
  PROVE  LostInv'
<1>0. StoresOK /\ ListsOK /\ Untouched
  BY ClosingStep DEF CoreInv, InOrder
<1>1. PICK t : t = "main" /\ t \in Threads
  BY EntriesAndThreads
<1>2. PICK steps : /\ Then(t, steps)
                   /\ steps \in {<<>>, SaveRegister, Save("ui"), SaveEngine}
                   /\ FlushBands /\ unsaved => steps = SaveRegister
                   /\ CloseInterface /\ "ui" \in timer => steps = Save("ui")
                   /\ CloseEngine /\ "engine" \in timer => steps = SaveEngine
  <2>1. CASE StopAdapter
    <3>1. ~FlushBands /\ ~CloseInterface /\ ~CloseEngine /\ Then(t, <<>>)
      BY <1>1, <2>1 DEF StopAdapter, FlushBands, CloseInterface, CloseEngine, Close
    <3> QED
      BY <3>1
  <2>2. CASE FlushBands
    <3>1. /\ ~CloseInterface /\ ~CloseEngine
          /\ Then(t, IF unsaved THEN SaveRegister ELSE <<>>)
      BY <1>1, <2>2 DEF FlushBands, CloseInterface, CloseEngine, Close
    <3> QED
      BY <3>1
  <2>3. CASE CloseInterface
    <3>1. /\ ~FlushBands /\ ~CloseEngine
          /\ Then(t, IF "ui" \in timer THEN Save("ui") ELSE <<>>)
      BY <1>1, <2>3 DEF FlushBands, CloseInterface, CloseEngine, Close
    <3> QED
      BY <3>1
  <2>4. CASE CloseEngine
    <3>1. /\ ~FlushBands /\ ~CloseInterface
          /\ Then(t, IF "engine" \in timer THEN SaveEngine ELSE <<>>)
      BY <1>1, <2>4 DEF FlushBands, CloseInterface, CloseEngine, Close
    <3> QED
      BY <3>1
  <2> QED
    BY <2>1, <2>2, <2>3, <2>4
<1>3. steps = <<>> \/ Piece(steps)
  BY <1>2, RegisterPiece, EnginePiece, SavePiece, EntriesAndThreads
<1>4. /\ UNCHANGED <<phase, mem, mail, unsaved, skipped, overlapped>> /\ (late => late')
      /\ Doing("main")[1] \in ClosingOnly
  <2>1. Doing("main")[1] \in ClosingOnly
    BY DEF StopAdapter, FlushBands, CloseInterface, CloseEngine, Close, ClosingOnly
  <2>2. CASE StopAdapter
    BY <2>1, <2>2 DEF StopAdapter, writeback
  <2>3. CASE FlushBands \/ CloseInterface \/ CloseEngine
    BY <2>1, <2>3 DEF FlushBands, CloseInterface, CloseEngine, Close, writeback, history
  <2> QED
    BY <2>1, <2>2, <2>3
<1>5. /\ phase = "closing" /\ Doing(t) = <<Doing(t)[1]>>
      /\ Doing(t)[1] \notin {"load", "open", "dump"}
  BY <1>0, <1>1, <1>4, LeavingPhase
<1>6. /\ \A u \in Threads : \A x \in Ahead(u) : x \in Ahead(u)' \/ (u = t /\ x = Doing(t))
      /\ \A e : <<"open", e>> \in Members(steps) => Opening(e)'
      /\ \A e : Opening(e) /\ Doing(t) # <<"open", e>> => Opening(e)'
  BY <1>0, <1>1, <1>2, <1>3, <1>5, PoppedAhead
<1>7. \A e : Opening(e) => Opening(e)'
  BY <1>5, <1>6
<1>8. /\ <<"adapter">> \in Ahead("agc") => <<"adapter">> \in Ahead("agc")'
      /\ \A x \in Ahead("main") : x \in Ahead("main")' \/ x = Doing(t)
  BY <1>1, <1>6, EntriesAndThreads
<1>9. (phase' # "running" /\ mail' > 0) => late'
  BY <1>4 DEF LostInv, MailOK
<1>10. ASSUME NEW e \in Entries, ToCome(e) PROVE ToCome(e)'
  <2>1. CASE StopAdapter
    <3>1. /\ Doing(t) = <<"stop">> /\ (waiting => late')
          /\ timer' = timer \ {"adapter"}
      BY <1>1, <1>5, <2>1 DEF StopAdapter
    <3> QED
      BY <1>4, <1>5, <1>7, <1>8, <1>10, <3>1 DEF ToCome, Ongoing
  <2>2. CASE FlushBands
    <3>1. Doing(t) = <<"bands">> /\ timer' = timer /\ waiting' = waiting
      BY <1>1, <1>5, <2>2 DEF FlushBands, adapter
    <3>2. unsaved => Opening("register")'
      BY <1>2, <1>6, <2>2, RegisterPiece
    <3> QED
      BY <1>4, <1>5, <1>7, <1>8, <1>10, <3>1, <3>2 DEF ToCome, Ongoing
  <2>3. CASE CloseInterface
    <3>1. Doing(t) = <<"closeUi">> /\ timer' = timer \ {"ui"} /\ waiting' = waiting
      BY <1>1, <1>5, <2>3 DEF CloseInterface, Close, adapter
    <3>2. "ui" \in timer => Opening("ui")'
      BY <1>2, <1>6, <2>3, SavePiece, EntriesAndThreads
    <3> QED
      BY <1>4, <1>5, <1>7, <1>8, <1>10, <3>1, <3>2 DEF ToCome, Ongoing
  <2>4. CASE CloseEngine
    <3>1. Doing(t) = <<"closeEngine">> /\ timer' = timer \ {"engine"} /\ waiting' = waiting
      BY <1>1, <1>5, <2>4 DEF CloseEngine, Close, adapter
    <3>2. "engine" \in timer => Opening("engine")' /\ Opening("device")'
      BY <1>2, <1>6, <2>4, EnginePiece
    <3> QED
      BY <1>4, <1>5, <1>7, <1>8, <1>10, <3>1, <3>2 DEF ToCome, Ongoing
  <2> QED
    BY <2>1, <2>2, <2>3, <2>4
<1> QED
  BY <1>0, <1>4, <1>7, <1>9, <1>10, UntouchedLost

\* Nothing is taken from the lists.
AheadGrows == \A t \in Threads : \A x \in Ahead(t) : x \in Ahead(t)'

LEMMA GrownAhead ==
  ASSUME AheadGrows
  PROVE  /\ \A e : Opening(e) => Opening(e)'
         /\ \A t \in Threads : \A x \in Ahead(t) : x \in WaitedFor => x \in Ahead(t)'
BY DEF AheadGrows, Opening

LEMMA BegunAhead ==
  ASSUME StoresOK, ListsOK, NEW t \in Threads, todo[t] = <<>>, NEW steps, Task(steps),
         todo' = [todo EXCEPT ![t] = steps]
  PROVE  /\ AheadGrows
         /\ \A x : x \in Ahead(t)' <=> x \in Members(steps)
         /\ \A u \in Threads \ {t} : Ahead(u)' = Ahead(u)
         /\ \A e : <<"open", e>> \in Members(steps) => Opening(e)'
<1>1. /\ \A u \in Threads \ {t} : Ahead(u)' = Ahead(u)
      /\ \A x : x \in Ahead(t)' <=> x \in Members(steps)
  BY BegunSteps
<1>2. \A x : x \notin Ahead(t)
  BY EmptyTask DEF Ahead
<1> QED
  BY <1>1, <1>2 DEF AheadGrows, Opening

LEMMA SameAhead ==
  ASSUME todo' = todo
  PROVE  AheadGrows
<1>1. \A t \in Threads : Ahead(t)' = Ahead(t)
  BY DEF Ahead
<1> QED
  BY <1>1 DEF AheadGrows

\* What a command of the user changes leads to a save.
UserChange ==
  /\ UNCHANGED <<phase, waiting, unsaved, late, skipped, overlapped>> /\ phase = "running"
  /\ timer \subseteq timer' /\ (mail > 0 => mail' > 0)
  /\ AheadGrows
  /\ \A e \in Entries :
       \/ mem'[e] = mem[e]
       \/ e = "ui" /\ "ui" \in timer'
       \/ /\ e \in {"device", "engine"}
          /\ mail' > 0 \/ <<"adapter">> \in Ahead("main")' \/ (e = "engine" /\ mem'["device"] = Absent)
  /\ mem["device"] = Absent => mem'["device"] = Absent \/ mail' > 0

LEMMA UserChanges ==
  ASSUME StoresOK, ListsOK, User
  PROVE  UserChange
<1>1. PICK t : t = "main" /\ t \in Threads
  BY EntriesAndThreads
<1>2. /\ UNCHANGED <<phase, waiting, unsaved, late, skipped, overlapped>> /\ phase = "running"
      /\ todo[t] = <<>>
  BY <1>1 DEF User, ChangeInterface, ChangeGlobal, ChangeDevice, AddDevice, RemoveDevice, RecallBand,
              Command, MainIdle, adapter, writeback, history
<1>3. mail + 1 > 0
  BY DEF StoresOK
<1>4. CASE ChangeInterface
  <2>1. /\ todo' = todo /\ mail' = mail /\ timer' = timer \cup {"ui"}
        /\ mem' = [mem EXCEPT !["ui"] = Fresh("ui")]
    BY <1>4 DEF ChangeInterface, Bump
  <2>2. /\ \A e \in Entries : mem'[e] = mem[e] \/ e = "ui"
        /\ mem'["device"] = mem["device"]
    BY <2>1, EntriesAndThreads DEF StoresOK
  <2> QED
    BY <1>2, <2>1, <2>2, SameAhead DEF UserChange
<1>5. CASE ChangeGlobal
  <2>1. PICK steps : /\ steps = IF mem["device"] = Absent THEN <<>> ELSE ConfigChanged
                     /\ todo' = [todo EXCEPT ![t] = steps]
    BY <1>1, <1>5 DEF ChangeGlobal, Begin
  <2>2. /\ mail' = mail /\ timer' = timer
        /\ mem' = [mem EXCEPT !["engine"] = Fresh("engine")]
    BY <1>5 DEF ChangeGlobal, Bump
  <2>3. /\ \A e \in Entries : mem'[e] = mem[e] \/ e = "engine"
        /\ mem'["device"] = mem["device"]
    BY <2>2, EntriesAndThreads DEF StoresOK
  <2>4. Task(steps) /\ (mem["device"] # Absent => <<"adapter">> \in Members(steps))
    BY <2>1, EmptyTask, ChangedTask, Zenon
  <2>5. AheadGrows /\ (mem["device"] # Absent => <<"adapter">> \in Ahead("main")')
    BY <1>1, <1>2, <2>1, <2>4, BegunAhead
  <2> QED
    BY <1>2, <2>2, <2>3, <2>5 DEF UserChange, Absent
<1>6. CASE ChangeDevice
  <2>1. PICK steps : /\ steps = ConfigChanged /\ todo' = [todo EXCEPT ![t] = steps]
    BY <1>1, <1>6 DEF ChangeDevice, Begin
  <2>2. /\ mail' = mail /\ timer' = timer /\ mem["device"] # Absent
        /\ mem' = [mem EXCEPT !["device"] = Fresh("device")]
    BY <1>6 DEF ChangeDevice, Bump
  <2>3. \A e \in Entries : mem'[e] = mem[e] \/ e = "device"
    BY <2>2, EntriesAndThreads DEF StoresOK
  <2>4. Task(steps) /\ <<"adapter">> \in Members(steps)
    BY <2>1, ChangedTask, Zenon
  <2>5. AheadGrows /\ <<"adapter">> \in Ahead("main")'
    BY <1>1, <1>2, <2>1, <2>4, BegunAhead
  <2> QED
    BY <1>2, <2>2, <2>3, <2>5 DEF UserChange
<1>7. CASE AddDevice
  <2>1. PICK steps : /\ steps = <<<<"writeback">>>> /\ todo' = [todo EXCEPT ![t] = steps]
    BY <1>1, <1>7 DEF AddDevice, Begin
  <2>2. /\ mail' = mail + 1 /\ timer' = timer
        /\ mem' = [mem EXCEPT !["device"] = Fresh("device")]
    BY <1>7 DEF AddDevice, Bump
  <2>3. \A e \in Entries : mem'[e] = mem[e] \/ e = "device"
    BY <2>2, EntriesAndThreads DEF StoresOK
  <2>4. Task(steps)
    BY <2>1, WritebackTask, Zenon
  <2>5. AheadGrows
    BY <1>1, <1>2, <2>1, <2>4, BegunAhead
  <2> QED
    BY <1>2, <1>3, <2>2, <2>3, <2>5 DEF UserChange
<1>8. CASE RemoveDevice
  <2>1. /\ todo' = todo /\ mail' = mail + 1 /\ timer' = timer
        /\ mem' = [mem EXCEPT !["device"] = Absent]
    BY <1>8 DEF RemoveDevice
  <2>2. \A e \in Entries : mem'[e] = mem[e] \/ e = "device"
    BY <2>1, EntriesAndThreads DEF StoresOK
  <2> QED
    BY <1>2, <1>3, <2>1, <2>2, SameAhead DEF UserChange
<1>9. CASE RecallBand
  <2>1. PICK steps : /\ steps = RecallSteps /\ todo' = [todo EXCEPT ![t] = steps]
    BY <1>1, <1>9 DEF RecallBand, Begin, RecallSteps, RetuneSteps
  <2>2. mail' = mail /\ timer' = timer /\ mem' = mem
    BY <1>9 DEF RecallBand
  <2>3. Task(steps)
    BY <2>1, RecallTask, Zenon
  <2>4. AheadGrows
    BY <1>1, <1>2, <2>1, <2>3, BegunAhead
  <2> QED
    BY <1>2, <2>2, <2>4 DEF UserChange, Absent
<1> QED
  BY <1>4, <1>5, <1>6, <1>7, <1>8, <1>9 DEF User

LEMMA UserLost ==
  ASSUME CoreInv, LostInv, User
  PROVE  LostInv'
<1>0. StoresOK /\ ListsOK /\ Untouched /\ UserChange
  BY UserStep, UserChanges DEF CoreInv, InOrder
<1>1. /\ UNCHANGED <<phase, waiting, unsaved, late, skipped, overlapped>> /\ phase = "running"
      /\ timer \subseteq timer' /\ (mail > 0 => mail' > 0)
      /\ mem["device"] = Absent => mem'["device"] = Absent \/ mail' > 0
  BY <1>0 DEF UserChange
<1>2. /\ \A e : Opening(e) => Opening(e)'
      /\ \A t \in Threads : \A x \in Ahead(t) : x \in WaitedFor => x \in Ahead(t)'
  BY <1>0, GrownAhead DEF UserChange
<1>3. ASSUME NEW e \in Entries PROVE mem'[e] = mem[e] \/ ToCome(e)'
  <2>1. \/ mem'[e] = mem[e]
        \/ e = "ui" /\ "ui" \in timer'
        \/ /\ e \in {"device", "engine"}
           /\ mail' > 0 \/ <<"adapter">> \in Ahead("main")' \/ (e = "engine" /\ mem'["device"] = Absent)
    BY <1>0 DEF UserChange
  <2> QED
    BY <1>1, <2>1 DEF ToCome, Ongoing, Absent
<1>4. ASSUME NEW e \in Entries, ToCome(e) PROVE ToCome(e)'
  <2>1. CASE e = "engine" /\ mail' > 0
    BY <1>1, <2>1 DEF ToCome
  <2>2. CASE ~(e = "engine" /\ mail' > 0)
    BY <1>1, <1>2, <1>4, <2>2, ToComeStays
  <2> QED
    BY <2>1, <2>2
<1>5. mem'["register"] = mem["register"]
  BY <1>0, EntriesAndThreads DEF UserChange
<1> QED
  BY <1>0, <1>1, <1>2, <1>3, <1>4, <1>5, UntouchedLost

\* The event loop: a message becomes a timer, and a timer a save.
LEMMA TimerLost ==
  ASSUME CoreInv, LostInv, AdapterTimer \/ HandleMail \/ RefreshWindowEnds \/ SaveWindowEnds
  PROVE  LostInv'
<1>0. StoresOK /\ ListsOK /\ Untouched
  BY LoopStep DEF CoreInv, InOrder, Loop
<1>1. /\ UNCHANGED <<phase, mem, unsaved, late, skipped, overlapped, todo>>
  BY DEF AdapterTimer, HandleMail, RefreshWindowEnds, SaveWindowEnds, adapter, writeback, history
<1>2. /\ \A e : Opening(e) => Opening(e)'
      /\ \A t \in Threads : \A x \in Ahead(t) : x \in WaitedFor => x \in Ahead(t)'
  BY <1>1, SameAhead, GrownAhead
<1>3. CASE RefreshWindowEnds \/ SaveWindowEnds
  <2>1. UNCHANGED <<timer, mail, waiting>>
    BY <1>3 DEF RefreshWindowEnds, SaveWindowEnds, adapter
  <2>2. ASSUME NEW e \in Entries, ToCome(e) PROVE ToCome(e)'
    BY <1>1, <1>2, <2>1, <2>2, ToComeStays
  <2>3. (phase' # "running" /\ mail' > 0) => late'
    BY <1>1, <2>1 DEF LostInv, MailOK
  <2> QED
    BY <1>0, <1>1, <1>2, <2>2, <2>3, UntouchedLost
<1>4. CASE AdapterTimer \/ HandleMail
  <2>1. phase = "running"
    BY <1>4 DEF AdapterTimer, HandleMail, MainIdle
  <2>2. /\ "ui" \in timer => "ui" \in timer'
        /\ "engine" \in timer => "engine" \in timer'
        /\ mail > 0 => mail' > 0 \/ "engine" \in timer'
        /\ waiting => waiting' \/ mail' > 0
    <3>1. CASE AdapterTimer
      <4>1. timer' = timer \ {"adapter"} /\ (IF waiting THEN Post ELSE mail' = mail)
        BY <3>1 DEF AdapterTimer
      <4>2. waiting => mail' > 0
        BY <1>0, <4>1 DEF Post, StoresOK
      <4> QED
        BY <4>1, <4>2
    <3>2. CASE HandleMail
      BY <3>2 DEF HandleMail
    <3> QED
      BY <1>4, <3>1, <3>2
  <2>3. <<"adapter">> \in Ahead("agc") => <<"adapter">> \in Ahead("agc")'
    BY <1>2, WaitedSteps, EntriesAndThreads
  <2>4. <<"adapter">> \in Ahead("main") => <<"adapter">> \in Ahead("main")'
    BY <1>2, WaitedSteps, EntriesAndThreads
  <2>5. ASSUME NEW e \in Entries, ToCome(e) PROVE ToCome(e)'
    BY <1>1, <1>2, <2>1, <2>2, <2>3, <2>4, <2>5 DEF ToCome, Ongoing, Absent
  <2> QED
    BY <1>0, <1>1, <1>2, <2>1, <2>5, UntouchedLost
<1> QED
  BY <1>3, <1>4

LEMMA FlushLost ==
  ASSUME CoreInv, LostInv, FlushInterface \/ FlushEngine
  PROVE  LostInv'
<1>0. StoresOK /\ ListsOK /\ Untouched
  BY LoopStep DEF CoreInv, InOrder, Loop
<1>1. PICK which, steps : /\ Flush(which, steps)
                          /\ \/ which = "ui" /\ steps = Save("ui")
                             \/ which = "engine" /\ steps = SaveEngine
  BY DEF FlushInterface, FlushEngine
<1>2. PICK t : t = "main" /\ t \in Threads
  BY EntriesAndThreads
<1>3. /\ UNCHANGED <<phase, mem, mail, waiting, unsaved, late, skipped, overlapped>>
      /\ phase = "running" /\ timer' = timer \ {which}
      /\ todo[t] = <<>> /\ todo' = [todo EXCEPT ![t] = steps]
  BY <1>1, <1>2 DEF Flush, MainIdle, Begin, adapter, writeback, history
<1>4. /\ Task(steps)
      /\ which = "ui" => <<"open", "ui">> \in Members(steps)
      /\ which = "engine" => /\ <<"open", "device">> \in Members(steps)
                             /\ <<"open", "engine">> \in Members(steps)
  <2>1. CASE which = "ui" /\ steps = Save("ui")
    BY <2>1, SavePiece, PieceIsTask, EntriesAndThreads
  <2>2. CASE which = "engine" /\ steps = SaveEngine
    BY <2>2, EnginePiece, PieceIsTask
  <2> QED
    BY <1>1, <2>1, <2>2
<1>5. /\ AheadGrows
      /\ \A e : <<"open", e>> \in Members(steps) => Opening(e)'
  BY <1>0, <1>2, <1>3, <1>4, BegunAhead
<1>6. /\ \A e : Opening(e) => Opening(e)'
      /\ \A u \in Threads : \A x \in Ahead(u) : x \in WaitedFor => x \in Ahead(u)'
  BY <1>5, GrownAhead
<1>7. /\ <<"adapter">> \in Ahead("agc") => <<"adapter">> \in Ahead("agc")'
      /\ <<"adapter">> \in Ahead("main") => <<"adapter">> \in Ahead("main")'
  BY <1>6, WaitedSteps, EntriesAndThreads
<1>8. /\ "ui" \in timer => "ui" \in timer' \/ Opening("ui")'
      /\ "engine" \in timer => "engine" \in timer' \/ (Opening("device")' /\ Opening("engine")')
  BY <1>1, <1>3, <1>4, <1>5
<1>9. ASSUME NEW e \in Entries, ToCome(e) PROVE ToCome(e)'
  BY <1>3, <1>6, <1>7, <1>8, <1>9 DEF ToCome, Ongoing, Absent
<1> QED
  BY <1>0, <1>3, <1>6, <1>9, UntouchedLost

LEMMA QuitLost ==
  ASSUME CoreInv, LostInv, Quit
  PROVE  LostInv'
<1>0. StoresOK /\ ListsOK /\ Untouched
  BY QuitStep DEF CoreInv, InOrder
<1>1. PICK t, steps : t = "main" /\ t \in Threads /\ steps = QuitSteps
  BY EntriesAndThreads
<1>2. /\ UNCHANGED <<mem, timer, mail, waiting, unsaved, late, skipped, overlapped>>
      /\ phase = "running" /\ mail = 0
      /\ todo[t] = <<>> /\ todo' = [todo EXCEPT ![t] = steps]
  BY <1>1 DEF Quit, MainIdle, Begin, QuitSteps, adapter, writeback, history
<1>3. Task(steps) /\ \A x : x \in Members(steps) <=> x \in {<<k>> : k \in ClosingOnly}
  BY <1>1, QuitTask, Zenon
<1>4. AheadGrows /\ \A x : x \in Ahead(t)' <=> x \in Members(steps)
  BY <1>0, <1>1, <1>2, <1>3, BegunAhead
<1>5. /\ \A e : Opening(e) => Opening(e)'
      /\ \A u \in Threads : \A x \in Ahead(u) : x \in WaitedFor => x \in Ahead(u)'
  BY <1>4, GrownAhead
<1>6. /\ Ongoing("stop")' /\ Ongoing("bands")' /\ Ongoing("closeUi")' /\ Ongoing("closeEngine")'
  <2>1. \A k \in ClosingOnly : <<k>> \in Ahead("main")'
    BY <1>1, <1>3, <1>4
  <2> QED
    BY <2>1 DEF Ongoing, ClosingOnly
<1>7. <<"adapter">> \in Ahead("agc") => <<"adapter">> \in Ahead("agc")'
  BY <1>5, WaitedSteps, EntriesAndThreads
<1>8. \A x : x \notin Ahead("main")
  BY <1>1, <1>2, EmptyTask DEF Ahead
<1>9. ~(mail > 0)
  BY <1>2
<1>10. ASSUME NEW e \in Entries, ToCome(e) PROVE ToCome(e)'
  BY <1>2, <1>5, <1>6, <1>7, <1>8, <1>9, <1>10 DEF ToCome, Absent
<1>11. ~(mail' > 0)
  BY <1>2
<1> QED
  BY <1>0, <1>2, <1>5, <1>10, <1>11, UntouchedLost

LEMMA GainLost ==
  ASSUME CoreInv, LostInv, ChangeGain
  PROVE  LostInv'
<1>0. StoresOK /\ ListsOK /\ Untouched
  BY GainStep DEF CoreInv, InOrder
<1>1. PICK t, steps : /\ t = "agc" /\ t \in Threads
                      /\ steps = IF subscribed THEN ConfigChanged ELSE <<<<"writeback">>>>
  BY EntriesAndThreads
<1>2. /\ UNCHANGED <<phase, timer, mail, waiting, unsaved, skipped, overlapped>>
      /\ mem["device"] # Absent /\ late' = (late \/ ~subscribed)
      /\ mem' = [mem EXCEPT !["device"] = Fresh("device")]
      /\ todo[t] = <<>> /\ todo' = [todo EXCEPT ![t] = steps]
  BY <1>1 DEF ChangeGain, adapter, writeback
<1>3. Task(steps) /\ (subscribed => <<"adapter">> \in Members(steps))
  BY <1>1, ChangedTask, WritebackTask, Zenon
<1>4. AheadGrows /\ (subscribed => <<"adapter">> \in Ahead("agc")')
  BY <1>0, <1>1, <1>2, <1>3, BegunAhead
<1>5. /\ \A e : Opening(e) => Opening(e)'
      /\ \A u \in Threads : \A x \in Ahead(u) : x \in WaitedFor => x \in Ahead(u)'
  BY <1>4, GrownAhead
<1>6. ToCome("device")'
  <2>1. CASE subscribed
    BY <1>4, <2>1 DEF ToCome
  <2>2. CASE ~subscribed
    <3>1. phase # "running"
      BY <1>0, <2>2 DEF ListsOK
    <3> QED
      BY <1>2, <2>2, <3>1 DEF ToCome
  <2> QED
    BY <2>1, <2>2
<1>7. \A e \in Entries : mem'[e] = mem[e] \/ ToCome(e)'
  BY <1>0, <1>2, <1>6 DEF StoresOK
<1>8. ASSUME NEW e \in Entries, ToCome(e) PROVE ToCome(e)'
  BY <1>2, <1>5, <1>8, ToComeStays
<1>9. (phase' # "running" /\ mail' > 0) => late'
  BY <1>2 DEF LostInv, MailOK
<1>10. mem'["register"] = mem["register"]
  BY <1>0, <1>2, EntriesAndThreads DEF StoresOK
<1> QED
  BY <1>0, <1>2, <1>5, <1>7, <1>8, <1>9, <1>10, UntouchedLost

\* When the program exits the main thread has nothing else to do, and the pipeline's nothing.
LEMMA ExitAlone ==
  ASSUME StoresOK, ListsOK, todo["main"] # <<>>, Exit
  PROVE  /\ phase = "closing" /\ todo["agc"] = <<>> /\ Doing("main") = <<"exit">>
         /\ \A x \in Ahead("main") : x = <<"exit">>
         /\ \A x : x \notin Ahead("agc")
<1>1. phase = "closing" /\ Doing("main") = <<"exit">>
  <2>1. Doing("main")[1] = "exit"
    BY DEF Exit
  <2> QED
    BY <2>1, LeavingPhase DEF ClosingOnly
<1>2. PICK s : s = todo["main"]
  OBVIOUS
<1>3. Linked(s) /\ Ended(s) /\ s # <<>> /\ s[1] = <<"exit">>
  BY <1>1, <1>2, HeadInSteps, EntriesAndThreads DEF ListsOK
<1>4. Tail(s) = <<>>
  <2>1. SUFFICES ASSUME Tail(s) # <<>> PROVE FALSE
    OBVIOUS
  <2>2. Links(s[1], Tail(s)[1])
    BY <1>3, <2>1, TailLinked
  <2> QED
    BY <1>3, <2>2 DEF Links
<1>5. \A x \in Members(s) : x = Head(s)
  <2>1. \A x : x \notin Members(Tail(s))
    BY <1>4, EmptyTask
  <2> QED
    BY <1>3, <2>1, TailMembers DEF Linked
<1>6. todo["agc"] = <<>>
  BY DEF Exit
<1>7. \A x : x \notin Ahead("agc")
  BY <1>6, EmptyTask DEF Ahead
<1>8. Head(s) = <<"exit">>
  BY <1>3, TailLinked
<1> QED
  BY <1>1, <1>2, <1>5, <1>6, <1>7, <1>8 DEF Ahead

LEMMA ExitLost ==
  ASSUME CoreInv, LostInv, todo["main"] # <<>>, Exit
  PROVE  LostInv'
<1>0. StoresOK /\ ListsOK
  BY DEF CoreInv
<1>1. /\ phase = "closing" /\ todo["agc"] = <<>> /\ Doing("main") = <<"exit">>
      /\ \A x \in Ahead("main") : x = <<"exit">>
      /\ \A x : x \notin Ahead("agc")
  BY <1>0, ExitAlone
<1>2. /\ UNCHANGED <<mem, file, copy, struck, mail, skipped, overlapped>>
      /\ phase' = "exited" /\ (late => late') /\ (mail > 0 => late')
      /\ \A t \in Threads : todo'[t] = <<>>
  BY DEF Exit
<1>3. Untouched
  <2>1. \A t \in Threads, f \in Files : ~Dumping(t, f)
    BY <1>1 DEF Dumping, Threads
  <2> QED
    BY <1>2, <2>1 DEF Untouched
<1>4. \A e : ~Opening(e)
  BY <1>1 DEF Opening, Threads
<1>5. /\ <<"stop">> \notin Ahead("main") /\ <<"bands">> \notin Ahead("main")
      /\ <<"closeUi">> \notin Ahead("main") /\ <<"closeEngine">> \notin Ahead("main")
  BY <1>1
<1>6. ASSUME NEW e \in Entries, ToCome(e) PROVE ToCome(e)'
  BY <1>1, <1>2, <1>4, <1>5, <1>6 DEF ToCome, Ongoing, Absent
<1>7. mem'["register"] = mem["register"] /\ (phase' # "running" /\ mail' > 0 => late')
  BY <1>2
<1> QED
  BY <1>2, <1>3, <1>4, <1>6, <1>7, UntouchedLost

\* A start reads what is in the files.
LEMMA StartLost ==
  ASSUME CoreInv, Start
  PROVE  LostInv'
<1>1. \A t \in Threads : todo'[t] # <<>> => Doing(t)' = <<"writeback">>
  <2>1. /\ todo'["agc"] = <<>> /\ todo'["main"] \in {<<>>, <<<<"writeback">>>>}
    BY StartTodo
  <2>2. PICK w : w = <<<<"writeback">>>>
    OBVIOUS
  <2>3. Head(w) = <<"writeback">>
    BY <2>2
  <2>4. todo'["main"] = <<>> \/ todo'["main"] = w
    BY <2>1, <2>2
  <2> QED
    BY <2>1, <2>3, <2>4 DEF Doing, Threads
<1>2. \A t \in Threads : \A f : ~Dumping(t, f)' /\ ~Holds(t, f)'
  BY <1>1 DEF Dumping, Holds
<1>3. PICK restored \in BOOLEAN :
        /\ mem' = [e \in Entries |-> IF e = "device" /\ ~restored THEN Absent ELSE Kept(e)]
        /\ skipped' = (~restored /\ Kept("device") # Absent)
  BY DEF Start
<1>4. file' = file /\ phase' = "running"
  BY DEF Start
<1>5. ASSUME NEW e \in Entries, mem'[e] = Kept(e) PROVE Saved(e)'
  <2>1. Kept(e)' = Kept(e)
    BY <1>4 DEF Kept, LoadToml
  <2>2. PICK g : g = FileOf[e]
    OBVIOUS
  <2>3. Saved(e)' <=> IF \E t \in Threads : Dumping(t, g)'
                      THEN \E t \in Threads : Dumping(t, g)' /\ copy'[t][e] = mem'[e]
                      ELSE Kept(e)' = mem'[e]
    BY <2>2, Zenon DEF Saved, FileOf
  <2> QED
    BY <1>2, <1>5, <2>1, <2>3
<1>6. ASSUME NEW e \in Entries PROVE SkippedDevice(e)' \/ Saved(e)'
  <2>1. CASE e = "device" /\ ~restored /\ Kept("device") # Absent
    BY <1>2, <1>3, <2>1 DEF SkippedDevice
  <2>2. CASE ~(e = "device" /\ ~restored /\ Kept("device") # Absent)
    <3>1. mem'[e] = Kept(e)
      BY <1>3, <2>2
    <3> QED
      BY <1>5, <3>1
  <2> QED
    BY <2>1, <2>2
<1>7. NothingLost'
  BY <1>6 DEF NothingLost
<1> QED
  BY <1>2, <1>4, <1>7 DEF LostInv, BandsOK, MailOK

LEMMA LostInit == Init => LostInv
<1>. SUFFICES ASSUME Init PROVE LostInv
  OBVIOUS
<1>1. \A t \in Threads : todo[t] = <<>>
  BY DEF Init
<1>2. \A t \in Threads : \A f : ~Dumping(t, f) /\ ~Holds(t, f)
  BY <1>1 DEF Dumping, Holds
<1>3. ASSUME NEW e \in Entries PROVE Saved(e)
  <2>1. PICK g \in Files : g = FileOf[e] /\ e \in InFile(g)
    BY FilesOfEntries DEF InFile
  <2>2. mem \in [Entries -> Values]
    <3>1. {0, 1} \subseteq Values
      BY DEF Values
    <3> QED
      BY <3>1 DEF Init
  <2>3. file[g] = [x \in InFile(g) |-> mem[x]] /\ file[g] \in [InFile(g) -> Values]
    BY <2>2 DEF Init, InFile
  <2>4. file[g] # Torn
    BY <2>3, TornAssumption
  <2>5. Kept(e) = mem[e]
    BY <2>1, <2>3, <2>4 DEF Kept, LoadToml
  <2> QED
    BY <1>2, <2>5 DEF Saved
<1>4. phase = "running"
  BY DEF Init
<1> QED
  BY <1>2, <1>3, <1>4 DEF LostInv, NothingLost, BandsOK, MailOK

LEMMA LostStep ==
  ASSUME CoreInv, LostInv, [Next]_vars
  PROVE  LostInv'
<1>1. CASE UNCHANGED vars
  <2>1. /\ UNCHANGED <<phase, mem, file, todo, copy, timer, mail, unsaved, waiting, late, skipped,
                       overlapped, struck>>
    BY <1>1 DEF vars, adapter, writeback, history
  <2>2. Untouched
    BY <2>1 DEF Untouched
  <2>3. /\ \A e : Opening(e) => Opening(e)'
        /\ \A t \in Threads : \A x \in Ahead(t) : x \in WaitedFor => x \in Ahead(t)'
    BY <2>1, SameAhead, GrownAhead
  <2>4. ASSUME NEW e \in Entries, ToCome(e) PROVE ToCome(e)'
    BY <2>1, <2>3, <2>4, ToComeStays
  <2>5. (phase' # "running" /\ mail' > 0) => late'
    BY <2>1 DEF LostInv, MailOK
  <2> QED
    BY <2>1, <2>2, <2>3, <2>4, <2>5, UntouchedLost
<1>2. CASE \E t \in Threads : Step(t)
  <2>1. PICK t \in Threads : Step(t)
    BY <1>2
  <2>2. todo[t] # <<>>
    BY <2>1 DEF Step
  <2>3. CASE Load(t)
    BY <2>2, <2>3, LoadLost
  <2>4. CASE Open(t)
    BY <2>2, <2>4, OpenLost
  <2>5. CASE Dump(t)
    BY <2>2, <2>5, DumpLost
  <2>6. CASE Writeback(t)
    BY <2>2, <2>6, WritebackLost
  <2>7. CASE Throttle(t)
    BY <2>2, <2>7, ThrottleLost
  <2>8. CASE Adapter(t)
    BY <2>2, <2>8, AdapterLost
  <2> QED
    BY <2>1, <2>3, <2>4, <2>5, <2>6, <2>7, <2>8 DEF Step
<1>3. CASE MainStep
  <2>1. CASE Retune \/ Resume \/ MakeCurrent
    BY <1>3, <2>1, RecallLost DEF MainStep
  <2>2. CASE StopAdapter \/ FlushBands \/ CloseInterface \/ CloseEngine
    BY <1>3, <2>2, ClosingLost DEF MainStep
  <2>3. CASE Exit
    BY <1>3, <2>3, ExitLost DEF MainStep
  <2> QED
    BY <1>3, <2>1, <2>2, <2>3 DEF MainStep
<1>4. CASE User
  BY <1>4, UserLost
<1>5. CASE AdapterTimer \/ HandleMail \/ RefreshWindowEnds \/ SaveWindowEnds
  BY <1>5, TimerLost
<1>6. CASE FlushInterface \/ FlushEngine
  BY <1>6, FlushLost
<1>7. CASE Quit
  BY <1>7, QuitLost
<1>8. CASE ChangeGain
  BY <1>8, GainLost
<1>9. CASE Start
  BY <1>9, StartLost
<1> QED
  BY <1>1, <1>2, <1>3, <1>4, <1>5, <1>6, <1>7, <1>8, <1>9 DEF Next, Loop

\* While the program runs, a value that is not in its file is on its way there: a thread is going
\* to write it, a timer runs (PrefsSync._on_change, EnginePrefsSync.mark_dirty), a message is
\* queued, an event is pending in the adapter or a register waits for the throttle. The two
\* things left for later are named, as are the files two threads met in.
THEOREM UnsavedIsOnItsWay == Spec => []UnsavedIsScheduled
<1>1. ASSUME CoreInv, LostInv PROVE UnsavedIsScheduled
  <2>1. SUFFICES ASSUME phase = "running", NEW e \in Entries
                 PROVE  Saved(e) \/ Scheduled(e) \/ LeftForLater(e) \/ Excused(e)
    BY DEF UnsavedIsScheduled
  <2>2. ASSUME NEW x, Opening(x) PROVE \E t \in Threads : Writing(t, x)
    <3>1. PICK t \in Threads : <<"open", x>> \in Ahead(t)
      BY <2>2 DEF Opening
    <3>2. PICK i \in 1 .. Len(todo[t]) : todo[t][i] = <<"open", x>>
      BY <3>1 DEF Ahead, Members
    <3> QED
      BY <3>2 DEF Writing
  <2>3. ASSUME NEW t \in Threads, <<"adapter">> \in Ahead(t) PROVE Coming(t, "adapter")
    <3>1. PICK i \in 1 .. Len(todo[t]) : todo[t][i] = <<"adapter">>
      BY <2>3 DEF Ahead, Members
    <3>2. todo[t][i][1] = "adapter"
      BY <3>1
    <3> QED
      BY <3>2 DEF Coming
  <2>4. ASSUME ToCome(e) PROVE Scheduled(e) \/ LeftForLater(e)
    BY <2>1, <2>2, <2>3, <2>4, EntriesAndThreads DEF ToCome, Scheduled, LeftForLater
  <2> QED
    BY <1>1, <2>1, <2>4 DEF LostInv, NothingLost, SkippedDevice, Excused
<1>2. Init => CoreInv /\ LostInv
  BY CoreInit, LostInit
<1>3. CoreInv /\ LostInv /\ [Next]_vars => (CoreInv /\ LostInv)'
  BY CoreStep, LostStep
<1> QED
  BY <1>1, <1>2, <1>3, PTL DEF Spec

\* When on_unmount is through and the program has exited, what it had in memory is on disk, but
\* for a change whose event the adapter dropped when it was stopped, the volume while there was
\* no device, and what is excused.
THEOREM ExitHasSaved == Spec => []ExitSaves
<1>1. ASSUME CoreInv, LostInv PROVE ExitSaves
  <2>1. SUFFICES ASSUME phase = "exited", NEW e \in Entries
                 PROVE  \/ Saved(e) \/ Excused(e)
                        \/ late /\ e \in {"device", "engine", "register"}
                        \/ e = "engine" /\ mem["device"] = Absent
    BY DEF ExitSaves
  <2>2. \A t \in Threads : \A x : x \notin Ahead(t)
    <3>1. \A t \in Threads : todo[t] = <<>>
      BY <1>1, <2>1 DEF CoreInv, ListsOK
    <3> QED
      BY <3>1, EmptyTask DEF Ahead
  <2>3. ASSUME ToCome(e)
        PROVE  \/ late /\ e \in {"device", "engine", "register"}
               \/ e = "engine" /\ mem["device"] = Absent
    <3>1. \A x : ~Opening(x)
      BY <2>2 DEF Opening
    <3>2. \A x : x \notin Ahead("main") /\ x \notin Ahead("agc")
      BY <2>2, EntriesAndThreads
    <3> QED
      BY <2>1, <2>3, <3>1, <3>2 DEF ToCome, Ongoing
  <2> QED
    BY <1>1, <2>1, <2>3 DEF LostInv, NothingLost, SkippedDevice, Excused
<1>2. Init => CoreInv /\ LostInv
  BY CoreInit, LostInit
<1>3. CoreInv /\ LostInv /\ [Next]_vars => (CoreInv /\ LostInv)'
  BY CoreStep, LostStep
<1> QED
  BY <1>1, <1>2, <1>3, PTL DEF Spec
=============================================================================
