----------------------------- MODULE Persistence -----------------------------
(* What the program keeps between two runs, and the writers that keep it:    *)
(* config.toml with its tables, devices.toml and the band stack's file       *)
(* (core/storage.py, core/preferences.py, core/devices.py), the two          *)
(* throttled writers of the user interface (tui/events/prefs_sync.py,        *)
(* tui/events/engine_prefs_sync.py), the event adapter that stands before    *)
(* the second (tui/textual_adapter.py), the band-stack writeback             *)
(* (core/tuning.py), and the order in which the application closes them      *)
(* (tui/app.py).                                                             *)
(*                                                                           *)
(* An event is delivered on the thread that publishes it, so that a          *)
(* pipeline's gain control (thread "agc") runs the writeback and the         *)
(* adapter beside the main thread. Each thread has a list of the steps it    *)
(* still has to make; between two of them the other may run, or the process  *)
(* may be killed.                                                            *)
EXTENDS Naturals, Sequences

CONSTANTS
  GainControl,   \* TRUE: the pipeline has an AGC stage
  MaxEvents,     \* bound: commands of the user, gain changes and further starts together
  Torn           \* the contents of a file that has been truncated, or overwritten in part

ASSUME PersistenceAssumption == GainControl \in BOOLEAN /\ MaxEvents \in Nat

Threads == {"main", "agc"}

\* What is kept. Tables of config.toml: the interface, volume and denoiser, the
\* current band. The device with its tuning, and the band's register.
Entries == {"ui", "engine", "tuning", "device", "register"}
Files == {"config", "devices", "bandstack"}
FileOf == [e \in Entries |-> IF e \in {"ui", "engine", "tuning"} THEN "config"
                             ELSE IF e = "device" THEN "devices" ELSE "bandstack"]

\* A value is a number: 0 is the default, of a device its absence, and the tuning table is 1
\* while a band is current. A change gives a value that nothing holds yet.
Absent == 0
Values == 0..5

VARIABLES
  phase,      \* "running", "closing" (on_unmount) or "exited"
  mem,        \* the values in memory
  file,       \* the contents of each file: the values of its entries, or Torn
  todo,       \* per thread, the steps it has begun and not made
  copy,       \* per thread, the dictionary it is about to write
  inBand,     \* the device is tuned inside the current band
  suspended,  \* band_stack._writeback_suspended
  subscribed, \* the adapter has its subscriptions
  recent,     \* less than CONFIG_REFRESH_MIN_INTERVAL since _last_config_post_ts
  younger,    \* that interval began after the timer of EnginePrefsSync, which is longer
  waiting,    \* TextualEventAdapter._pending_config_event is not None
  timer,      \* the timers that run: "adapter", "ui", "engine"
  mail,       \* messages to the application that mark the engine's preferences dirty
  justSaved,  \* less than _WRITEBACK_SAVE_MIN_INTERVAL since _writeback_last_save_ts
  unsaved,    \* tuning._writeback_pending
  events,     \* counter of the bound
  overlapped, \* history: files that two threads were in at once
  late,       \* history: a change whose event the adapter dropped when it stopped, or never got
  skipped,    \* history: the device was in the file, but was not restored
  struck      \* history: files overlapped or being written when a program ended

adapter == <<subscribed, recent, younger, waiting>>
writeback == <<suspended, justSaved, unsaved>>
history == <<overlapped, late, skipped, struck>>
vars == <<phase, mem, file, todo, copy, inBand, adapter, timer, mail, writeback, events, history>>

------------------------------------------------------------------------------
(* Reading and writing files                                                 *)

InFile(f) == {e \in Entries : FileOf[e] = f}

\* What a torn file holds is not what a save writes.
ASSUME TornAssumption == \A f \in Files : Torn \notin [InFile(f) -> Values]

\* load_toml: a file that cannot be parsed is an empty dictionary.
LoadToml(f) == IF file[f] = Torn THEN [e \in InFile(f) |-> 0] ELSE file[f]

\* What the next start would read of an entry.
Kept(e) == LoadToml(FileOf[e])[e]

\* The writers of config.toml replace one table of what they load; the others write everything.
Save(e) == IF FileOf[e] = "config" THEN <<<<"load", e>>, <<"open", e>>, <<"dump", e>>>>
           ELSE <<<<"open", e>>, <<"dump", e>>>>

SaveRegister == Save("register") \o <<<<"throttle">>>>
SaveEngine == Save("device") \o Save("engine")    \* EnginePrefsSync._write

Doing(t) == Head(todo[t])
Then(t, steps) == todo' = [todo EXCEPT ![t] = steps \o Tail(@)]

Dumping(t, f) == todo[t] # <<>> /\ Doing(t)[1] = "dump" /\ FileOf[Doing(t)[2]] = f

\* Inside a save: between reading or truncating a file and the end of the save
InSave(t, f) ==
  todo[t] # <<>> /\ \/ Doing(t)[1] \in {"open", "dump"} /\ FileOf[Doing(t)[2]] = f
                    \/ Doing(t)[1] = "throttle" /\ f = "bandstack"
Meet(t, f) == IF \E u \in Threads \ {t} : InSave(u, f)
              THEN overlapped' = overlapped \cup {f} ELSE UNCHANGED overlapped

Load(t) ==
  /\ Doing(t)[1] = "load"
  /\ LET f == FileOf[Doing(t)[2]]
     IN /\ copy' = [copy EXCEPT ![t] = LoadToml(f)]
        /\ Meet(t, f)
  /\ Then(t, <<>>)
  /\ UNCHANGED <<phase, mem, file, inBand, adapter, timer, mail, writeback, events, late,
                 skipped, struck>>

\* The table, or the whole snapshot, is taken from memory; open(path, "wb") truncates.
Open(t) ==
  /\ Doing(t)[1] = "open"
  /\ LET e == Doing(t)[2]
         f == FileOf[e]
     IN /\ copy' = [copy EXCEPT ![t] = [x \in InFile(f) |-> IF x = e THEN mem[e] ELSE @[x]]]
        /\ file' = [file EXCEPT ![f] = Torn]
        /\ Meet(t, f)
  /\ Then(t, <<>>)
  /\ UNCHANGED <<phase, mem, inBand, adapter, timer, mail, writeback, events, late, skipped,
                 struck>>

\* If somebody has written since this thread opened the file, a longer text may stick out behind.
Dump(t) ==
  /\ Doing(t)[1] = "dump"
  /\ LET e == Doing(t)[2]
         f == FileOf[e]
     IN /\ \/ file' = [file EXCEPT ![f] = copy[t]]
           \/ file[f] # Torn /\ file' = [file EXCEPT ![f] = Torn]
        /\ skipped' = (skipped /\ e # "device")
  /\ copy' = [copy EXCEPT ![t] = <<>>]
  /\ Then(t, <<>>)
  /\ UNCHANGED <<phase, mem, inBand, adapter, timer, mail, writeback, events, overlapped, late,
                 struck>>

\* A value of the entry that neither memory, nor its file, nor a copy on its way there has
Fresh(e) ==
  CHOOSE v \in Values \ {0} :
    /\ v \notin {mem[e], Kept(e)}
    /\ \A t \in Threads : e \in DOMAIN copy[t] => copy[t][e] # v

------------------------------------------------------------------------------
(* The handlers of a ConfigChangedEvent, in the order of their subscription  *)

ConfigChanged == <<<<"writeback">>, <<"adapter">>>>

\* _on_writeback_trigger, which a FocusChangedEvent runs too
Writeback(t) ==
  /\ Doing(t)[1] = "writeback"
  /\ IF suspended \/ mem["device"] = Absent \/ mem["tuning"] = 0
     THEN Then(t, <<>>) /\ UNCHANGED <<mem, unsaved, overlapped>>
     ELSE IF ~inBand
     THEN /\ mem' = [mem EXCEPT !["tuning"] = 0]
          /\ Then(t, Save("tuning"))
          /\ UNCHANGED <<unsaved, overlapped>>
     ELSE /\ mem' = [mem EXCEPT !["register"] = Fresh("register")]
          /\ Then(t, IF justSaved THEN <<>> ELSE SaveRegister)
          /\ unsaved' = (unsaved \/ justSaved)
          /\ Meet(t, "bandstack")
  /\ UNCHANGED <<phase, file, copy, inBand, adapter, timer, mail, suspended, justSaved, events,
                 late, skipped, struck>>

\* The end of a throttled save
Throttle(t) ==
  /\ Doing(t)[1] = "throttle"
  /\ justSaved' = TRUE
  /\ unsaved' = FALSE
  /\ Then(t, <<>>)
  /\ UNCHANGED <<phase, mem, file, copy, inBand, adapter, timer, mail, suspended, events, history>>

Post == mail' = mail + 1 /\ recent' = TRUE /\ younger' = ("engine" \in timer)

\* TextualEventAdapter._on_config_changed. A timer can only be started on the main thread:
\* elsewhere set_timer raises, the bus logs it, and the event waits for the next one.
Adapter(t) ==
  /\ Doing(t)[1] = "adapter"
  /\ Then(t, <<>>)
  /\ IF recent
     THEN /\ waiting' = TRUE
          /\ timer' = IF t = "main" THEN timer \cup {"adapter"} ELSE timer
          /\ UNCHANGED <<recent, younger, mail>>
     ELSE Post /\ UNCHANGED <<waiting, timer>>
  /\ late' = (late \/ phase # "running")
  /\ UNCHANGED <<phase, mem, file, copy, inBand, subscribed, writeback, events, overlapped,
                 skipped, struck>>

------------------------------------------------------------------------------
(* The main thread                                                           *)

MainIdle == phase = "running" /\ todo["main"] = <<>>

Event == events < MaxEvents /\ events' = events + 1
Command == MainIdle /\ Event
Bump(e) == mem' = [mem EXCEPT ![e] = Fresh(e)]
Begin(steps) == todo' = [todo EXCEPT !["main"] = steps]

\* UIStore._commit with a field of PREFS_FIELDS, and PrefsSync._on_change
ChangeInterface ==
  /\ Command
  /\ Bump("ui")
  /\ timer' = timer \cup {"ui"}
  /\ UNCHANGED <<phase, file, todo, copy, inBand, adapter, mail, writeback, history>>

\* SDREngine.update_global_config: one event for each device
ChangeGlobal ==
  /\ Command
  /\ Bump("engine")
  /\ Begin(IF mem["device"] = Absent THEN <<>> ELSE ConfigChanged)
  /\ UNCHANGED <<phase, file, copy, inBand, adapter, timer, mail, writeback, history>>

\* SDREngine.update_device_config, for instance a frequency inside or outside of the band
ChangeDevice ==
  /\ Command
  /\ mem["device"] # Absent
  /\ Bump("device")
  /\ inBand' \in BOOLEAN
  /\ Begin(ConfigChanged)
  /\ UNCHANGED <<phase, file, copy, adapter, timer, mail, writeback, history>>

\* SDREngine.add_device: DeviceAddedEvent, FocusChangedEvent
AddDevice ==
  /\ Command
  /\ mem["device"] = Absent
  /\ Bump("device")
  /\ inBand' \in BOOLEAN
  /\ mail' = mail + 1
  /\ Begin(<<<<"writeback">>>>)
  /\ UNCHANGED <<phase, file, copy, adapter, timer, writeback, history>>

\* SDREngine.remove_device
RemoveDevice ==
  /\ Command
  /\ mem["device"] # Absent
  /\ mem' = [mem EXCEPT !["device"] = Absent]
  /\ mail' = mail + 1
  /\ UNCHANGED <<phase, file, todo, copy, inBand, adapter, timer, writeback, history>>

\* TuningMixin._recall_band: the previous tuning is saved, the register tuned to with the
\* writeback suspended, and the band and its register made current.
RecallBand ==
  /\ Command
  /\ mem["device"] # Absent
  /\ Begin(Save("tuning") \o <<<<"retune">>, <<"writeback">>, <<"adapter">>, <<"resume">>>>
           \o Save("register") \o <<<<"current">>>> \o Save("tuning"))
  /\ UNCHANGED <<phase, mem, file, copy, inBand, adapter, timer, mail, writeback, history>>

\* The steps of _recall_band between the saves and the events
Retune ==
  /\ Doing("main")[1] = "retune"
  /\ suspended' = TRUE
  /\ mem' = [mem EXCEPT !["device"] = Fresh("device")]
  /\ inBand' = TRUE
  /\ Then("main", <<>>)
  /\ UNCHANGED <<phase, file, copy, adapter, timer, mail, justSaved, unsaved, events, history>>

Resume ==
  /\ Doing("main")[1] = "resume"
  /\ suspended' = FALSE
  /\ Then("main", <<>>)
  /\ UNCHANGED <<phase, mem, file, copy, inBand, adapter, timer, mail, justSaved, unsaved, events,
                 history>>

MakeCurrent ==
  /\ Doing("main")[1] = "current"
  /\ mem' = [mem EXCEPT !["tuning"] = 1]
  /\ Then("main", <<>>)
  /\ UNCHANGED <<phase, file, copy, inBand, adapter, timer, mail, writeback, events, history>>

\* Mutant: the pending event is forgotten when the timer fires.
AdapterTimerForgets ==
  /\ MainIdle
  /\ "adapter" \in timer
  /\ timer' = timer \ {"adapter"}
  /\ waiting' = FALSE
  /\ UNCHANGED <<mail, recent, younger>>
  /\ UNCHANGED <<phase, mem, file, todo, copy, inBand, subscribed, writeback, events, history>>

\* TextualEventAdapter._flush_pending_config
AdapterTimer ==
  /\ MainIdle
  /\ "adapter" \in timer
  /\ timer' = timer \ {"adapter"}
  /\ waiting' = FALSE
  /\ IF waiting THEN Post ELSE UNCHANGED <<mail, recent, younger>>
  /\ UNCHANGED <<phase, mem, file, todo, copy, inBand, subscribed, writeback, events, history>>

\* Mutant: the handler does not mark the preferences dirty while the interface's timer runs.
HandleMailOnce ==
  /\ MainIdle
  /\ mail > 0
  /\ mail' = mail - 1
  /\ timer' = IF "ui" \in timer THEN timer ELSE timer \cup {"engine"}
  /\ younger' = (younger /\ "engine" \in timer)
  /\ UNCHANGED <<phase, mem, file, todo, copy, inBand, subscribed, recent, waiting, writeback,
                 events, history>>

\* EventRouter.handle_config_changed and its like, which end in EnginePrefsSync.mark_dirty
HandleMail ==
  /\ MainIdle
  /\ mail > 0
  /\ mail' = mail - 1
  /\ timer' = timer \cup {"engine"}
  /\ younger' = (younger /\ "engine" \in timer)
  /\ UNCHANGED <<phase, mem, file, todo, copy, inBand, subscribed, recent, waiting, writeback,
                 events, history>>

\* PrefsSync._flush and EnginePrefsSync._flush
Flush(which, steps) ==
  /\ MainIdle
  /\ which \in timer
  /\ timer' = timer \ {which}
  /\ Begin(steps)
  /\ UNCHANGED <<phase, mem, file, copy, inBand, adapter, mail, writeback, events, history>>

FlushInterface == Flush("ui", Save("ui"))
FlushEngine == (recent => younger) /\ Flush("engine", SaveEngine)

\* The 50 ms and the 250 ms of the throttles:
\* time.perf_counter() and time.monotonic() move on.
RefreshWindowEnds == recent /\ recent' = FALSE /\ UNCHANGED <<phase, mem, file, todo, copy, inBand,
  subscribed, younger, waiting, timer, mail, writeback, events, history>>
SaveWindowEnds == justSaved /\ justSaved' = FALSE /\ UNCHANGED <<phase, mem, file, todo, copy,
  inBand, adapter, timer, mail, suspended, unsaved, events, history>>

------------------------------------------------------------------------------
(* Leaving                                                                   *)

\* TSDRApp.on_unmount. What was posted before the command to exit has been handled by then.
Quit ==
  /\ MainIdle
  /\ mail = 0
  /\ phase' = "closing"
  /\ Begin(<<<<"stop">>, <<"bands">>, <<"closeUi">>, <<"closeEngine">>, <<"exit">>>>)
  /\ UNCHANGED <<mem, file, copy, inBand, adapter, timer, mail, writeback, events, history>>

\* TextualEventAdapter.stop
StopAdapter ==
  /\ Doing("main")[1] = "stop"
  /\ subscribed' = FALSE
  /\ timer' = timer \ {"adapter"}
  /\ waiting' = FALSE
  /\ late' = (late \/ waiting)
  /\ Then("main", <<>>)
  /\ UNCHANGED <<phase, mem, file, copy, inBand, recent, younger, mail, writeback, events,
                 overlapped, skipped, struck>>

\* flush_band_stack_writeback
FlushBands ==
  /\ Doing("main")[1] = "bands"
  /\ Then("main", IF unsaved THEN SaveRegister ELSE <<>>)
  /\ UNCHANGED <<phase, mem, file, copy, inBand, adapter, timer, mail, writeback, events, history>>

\* Mutant: the timer is stopped and nothing is written.
CloseStopsTimer(step, which, steps) ==
  /\ Doing("main")[1] = step
  /\ timer' = timer \ {which}
  /\ Then("main", <<>>)
  /\ UNCHANGED <<phase, mem, file, copy, inBand, adapter, mail, writeback, events, history>>

\* PrefsSync.close and EnginePrefsSync.close
Close(step, which, steps) ==
  /\ Doing("main")[1] = step
  /\ timer' = timer \ {which}
  /\ Then("main", IF which \in timer THEN steps ELSE <<>>)
  /\ UNCHANGED <<phase, mem, file, copy, inBand, adapter, mail, writeback, events, history>>

CloseInterface == Close("closeUi", "ui", Save("ui"))
CloseEngine == Close("closeEngine", "engine", SaveEngine)

\* Mutant: the program does not wait for the pipeline thread.
ExitAtOnce ==
  /\ Doing("main")[1] = "exit"
  /\ phase' = "exited"
  /\ todo' = [t \in Threads |-> <<>>]
  /\ late' = (late \/ mail > 0)
  /\ UNCHANGED <<mem, file, copy, inBand, adapter, timer, mail, writeback, events, overlapped,
                 skipped, struck>>

\* SDREngine.shutdown waits for the pipeline thread, which leaves between two batches.
Exit ==
  /\ Doing("main")[1] = "exit"
  /\ todo["agc"] = <<>>
  /\ phase' = "exited"
  /\ todo' = [t \in Threads |-> <<>>]
  /\ late' = (late \/ mail > 0)
  /\ UNCHANGED <<mem, file, copy, inBand, adapter, timer, mail, writeback, events, overlapped,
                 skipped, struck>>

------------------------------------------------------------------------------
(* The pipeline thread, and the next start                                   *)

\* SDREngine._on_agc_gain_change
ChangeGain ==
  /\ phase # "exited"
  /\ todo["agc"] = <<>>
  /\ mem["device"] # Absent
  /\ GainControl
  /\ Event
  /\ mem' = [mem EXCEPT !["device"] = Fresh("device")]
  /\ todo' = [todo EXCEPT !["agc"] = IF subscribed THEN ConfigChanged ELSE <<<<"writeback">>>>]
  /\ late' = (late \/ ~subscribed)
  /\ UNCHANGED <<phase, file, copy, inBand, adapter, timer, mail, writeback,
                 overlapped, skipped, struck>>

\* The next start, after an exit or after the process was killed wherever it was:
\* TSDRApp.__init__ and restore_devices, which skips a device of a type _build_params does not know.
Start ==
  /\ Event
  /\ phase' = "running"
  /\ \E restored \in BOOLEAN :
       /\ mem' = [e \in Entries |-> IF e = "device" /\ ~restored THEN Absent ELSE Kept(e)]
       /\ skipped' = (~restored /\ Kept("device") # Absent)
       /\ mail' = IF mem'["device"] = Absent THEN 0 ELSE 1
       /\ todo' = [t \in Threads |-> IF t = "main" /\ mem'["device"] # Absent
                                     THEN <<<<"writeback">>>> ELSE <<>>]
  /\ copy' = [t \in Threads |-> <<>>]
  /\ inBand' \in BOOLEAN
  /\ subscribed' = TRUE /\ recent' = FALSE /\ younger' = FALSE /\ waiting' = FALSE
  /\ timer' = {}
  /\ suspended' = FALSE /\ justSaved' = FALSE /\ unsaved' = FALSE
  /\ overlapped' = {} /\ late' = FALSE
  /\ struck' = struck \cup overlapped \cup {f \in Files : \E t \in Threads : Dumping(t, f)}
  /\ UNCHANGED file

\* A program that has been started on the files of an earlier one and has restored its device,
\* on a band or not.
Init ==
  /\ phase = "running"
  /\ mem \in [Entries -> {0, 1}]
  /\ mem["ui"] = 0 /\ mem["engine"] = 0 /\ mem["register"] = 0 /\ mem["device"] = 1
  /\ file = [f \in Files |-> [e \in InFile(f) |-> mem[e]]]
  /\ todo = [t \in Threads |-> <<>>]
  /\ copy = [t \in Threads |-> <<>>]
  /\ inBand = (mem["tuning"] = 1)
  /\ subscribed = TRUE /\ recent = FALSE /\ younger = FALSE /\ waiting = FALSE
  /\ timer = {}
  /\ mail = 0
  /\ suspended = FALSE /\ justSaved = FALSE /\ unsaved = FALSE
  /\ events = 0
  /\ overlapped = {} /\ late = FALSE /\ skipped = FALSE /\ struck = {}

Step(t) == todo[t] # <<>> /\ (Load(t) \/ Open(t) \/ Dump(t) \/ Writeback(t) \/ Throttle(t)
                             \/ Adapter(t))
MainStep == todo["main"] # <<>> /\ (\/ Retune \/ Resume \/ MakeCurrent
                                    \/ StopAdapter \/ FlushBands \/ CloseInterface \/ CloseEngine
                                    \/ Exit)
User == ChangeInterface \/ ChangeGlobal \/ ChangeDevice \/ AddDevice \/ RemoveDevice \/ RecallBand
Loop == AdapterTimer \/ HandleMail \/ FlushInterface \/ FlushEngine

Next ==
  \/ \E t \in Threads : Step(t)
  \/ MainStep \/ User \/ Loop
  \/ RefreshWindowEnds \/ SaveWindowEnds
  \/ Quit \/ ChangeGain \/ Start

Spec == Init /\ [][Next]_vars

\* Threads go on, and the event loop serves its timers and its messages.
FairSpec ==
  /\ Spec
  /\ \A t \in Threads : WF_vars(Step(t))
  /\ WF_vars(MainStep) /\ WF_vars(RefreshWindowEnds)
  /\ WF_vars(AdapterTimer) /\ WF_vars(HandleMail) /\ WF_vars(FlushInterface) /\ WF_vars(FlushEngine)

------------------------------------------------------------------------------
(* Properties                                                                *)

Steps == {<<x>> : x \in {"writeback", "throttle", "adapter", "retune", "resume", "current",
                         "stop", "bands", "closeUi", "closeEngine", "exit"}}
         \cup {<<x, e>> : x \in {"load", "open", "dump"}, e \in Entries}

\* Types.
TypeOK ==
  /\ phase \in {"running", "closing", "exited"}
  /\ mem \in [Entries -> Values]
  /\ \A f \in Files : file[f] = Torn \/ file[f] \in [InFile(f) -> Values]
  /\ \A t \in Threads : \A i \in 1..Len(todo[t]) : todo[t][i] \in Steps
  /\ timer \subseteq {"adapter", "ui", "engine"}
  /\ mail \in Nat
  /\ {inBand, suspended, subscribed, recent, younger, waiting, justSaved, unsaved,
      late, skipped} \subseteq BOOLEAN
  /\ overlapped \subseteq Files /\ struck \subseteq Files

\* The file has the value of the memory, or gets it when the thread in the file has written.
Saved(e) == IF \E t \in Threads : Dumping(t, FileOf[e])
            THEN \E t \in Threads : Dumping(t, FileOf[e]) /\ copy[t][e] = mem[e]
            ELSE Kept(e) = mem[e]

\* Thread t still has a step of this kind to make.
Coming(t, kind) == \E i \in 1..Len(todo[t]) : todo[t][i][1] = kind
Writing(t, e) == \E i \in 1..Len(todo[t]) : todo[t][i] \in {<<"open", e>>, <<"dump", e>>}

\* Something is under way that will write the entry.
Scheduled(e) ==
  \/ \E t \in Threads : Writing(t, e)
  \/ e = "ui" /\ "ui" \in timer
  \/ e = "register" /\ unsaved
  \/ /\ e \in {"device", "engine"}
     /\ \/ "engine" \in timer
        \/ mail > 0
        \/ waiting /\ "adapter" \in timer
        \/ \E t \in Threads : Coming(t, "adapter")

\* What the code leaves unsaved until some later change: a gain change that found the
\* adapter's window open, and the volume while there is no device.
LeftForLater(e) ==
  \/ e \in {"device", "engine"} /\ waiting /\ "adapter" \notin timer
  \/ e = "engine" /\ mem["device"] = Absent

Excused(e) ==
  \/ FileOf[e] \in overlapped
  \/ e = "device" /\ skipped

\* While the program runs, whatever differs from its file is on its way there: a timer
\* runs, a message is queued or a thread is writing (mark_dirty, _on_change, _pending_config_event,
\* _writeback_pending), but for what LeftForLater names. Files two threads met in are excused.
UnsavedIsScheduled ==
  phase = "running" => \A e \in Entries : Saved(e) \/ Scheduled(e) \/ LeftForLater(e) \/ Excused(e)

\* After on_unmount everything is on disk, but for a change whose event the adapter dropped
\* when it was stopped, and for the volume while there is no device.
ExitSaves ==
  phase = "exited" => \A e \in Entries :
    \/ Saved(e) \/ Excused(e)
    \/ late /\ e \in {"device", "engine", "register"}
    \/ e = "engine" /\ mem["device"] = Absent

\* A file that cannot be read, and costs the next start every table it held, is one that a
\* thread is writing, that two threads met in, or that a thread was writing when a program
\* was killed: neither an exit nor an orderly sequence of saves leaves one.
TornIsExplained ==
  \A f \in Files : file[f] = Torn =>
    f \in struck \cup overlapped \/ \E t \in Threads : Dumping(t, f)

\* Under fairness a change of the interface, the volume or the device is on disk at last, or
\* another change has taken its place, or the program has left, or LeftForLater holds of it.
ChangesReachDisk ==
  \A e \in {"ui", "engine", "device", "tuning"} :
    []<>(phase # "running" \/ Saved(e) \/ LeftForLater(e) \/ Excused(e))

==============================================================================
