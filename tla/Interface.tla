------------------------------ MODULE Interface ------------------------------
(* The screen of the user interface: the layout kept by UIStore              *)
(* (tui/model/store.py), the tree of widgets that derive_tree computes from  *)
(* it (tui/view/tree.py) and the Reconciler (tui/view/reconciler.py), which  *)
(* mounts and removes widgets until the screen is that tree.                 *)
(*                                                                           *)
(* Every commit schedules the newest tree; commits between two frames are    *)
(* coalesced. A pass awaits each removal and each mount, and the user and    *)
(* the engine's events may commit at each of these points.                   *)
(*                                                                           *)
(* A widget is named by the path of keys from the main container to it, a    *)
(* tree is the function from the paths of its widgets to the keys of their   *)
(* children, in order.                                                       *)
EXTENDS Integers, Sequences, FiniteSets, SequencesExt

CONSTANTS
  Panels,        \* the dockable panels of DEFAULT_LAYOUT that exist
  Kinds,         \* the decoders that have a widget of their own
  Layout,        \* the panels of each edge when the program starts
  Nothing,       \* Python's None
  OnePerFrame,   \* TRUE: the next command waits for the pass of the one before to begin
  MaxCallbacks   \* bound: frames the application may be behind with

Edges == {"left", "bottom", "right"}
Docks == [left |-> "dock:left", bottom |-> "center", right |-> "dock:right"]
Wrappers == [left |-> "content:left", bottom |-> "content:bottom", right |-> "content:right"]

\* The keys of widgets that are not a panel's.
Frames == {"docks-row", "panel-bar", "viz"} \cup {Docks[e] : e \in Edges} \cup {Wrappers[e] : e \in Edges}
Keys == Frames \cup Panels \cup Kinds \cup {"constellation"}

\* Every panel is docked on one edge, once.
EachDocked(panels) ==
  /\ \A p \in Panels : \E e \in Edges : p \in ToSet(panels[e])
  /\ \A d, e \in Edges : \A i \in 1..Len(panels[d]), j \in 1..Len(panels[e]) :
       panels[d][i] = panels[e][j] => d = e /\ i = j

\* The keys of frames, panels ("panel:" and the panel) and decoders ("panel:demod:" and the kind)
\* differ; _augment_with_missing_panels docks the panels that a file does not.
ASSUME InterfaceAssumption ==
  /\ OnePerFrame \in BOOLEAN
  /\ MaxCallbacks \in Nat \ {0}
  /\ IsFiniteSet(Panels)
  /\ Panels \cap Kinds = {} /\ (Panels \cup Kinds) \cap (Frames \cup {"constellation"}) = {}
  /\ Nothing \notin Panels \cup Kinds /\ Nothing \notin Seq(Keys)
  /\ Layout \in [Edges -> Seq(Panels)] /\ EachDocked(Layout)

VARIABLES
  model,      \* UIStore._model: the layout, image mode and the focused decoder
  target,     \* Reconciler._target: the tree to draw next, or NoTree
  scheduled,  \* Reconciler._scheduled
  callbacks,  \* calls of _run that wait for the next frame
  spec,       \* the tree the pass in flight draws, or NoTree (_running is FALSE)
  stack,      \* its nested calls of _reconcile_children, innermost last
  screen,     \* the live widgets
  byKey,      \* Reconciler._by_key
  crashed     \* a mount raised: two siblings with one id

reconciler == <<target, scheduled, callbacks>>
pass == <<spec, stack, screen, byKey, crashed>>
vars == <<model, target, scheduled, callbacks, spec, stack, screen, byKey, crashed>>

------------------------------------------------------------------------------
(* derive_tree. Widgets that never come or go, spectrum and waterfall among  *)
(* them, and the properties of the widgets are left out.                     *)

Base(e) == <<"docks-row", Docks[e]>>
Content(e) == Append(Base(e), Wrappers[e])

\* The widgets of a panel: none for demod without a decoder, a second one for stats in image mode.
PanelChildren(m, p) ==
  IF p = "demod" THEN IF m.kind = Nothing THEN <<>> ELSE <<m.kind>>
  ELSE IF p = "stats" /\ m.image THEN <<"stats", "constellation">>
  ELSE <<p>>

Inner(m, e) == IF m.active[e] = Nothing THEN <<>> ELSE PanelChildren(m, m.active[e])
Wrapper(m, e) == IF Inner(m, e) = <<>> THEN <<>> ELSE <<Wrappers[e]>>

Widgets(m) ==
  {<<>>, <<"docks-row">>, Append(Base("bottom"), "viz")}
  \cup (IF m.strips THEN {<<"panel-bar">>} ELSE {})
  \cup {Base(e) : e \in Edges}
  \cup {Content(e) : e \in {x \in Edges : Inner(m, x) # <<>>}}
  \cup UNION {{Append(Content(e), Inner(m, e)[i]) : i \in 1..Len(Inner(m, e))} : e \in Edges}

ChildrenOf(m, p) ==
  CASE p = <<>> -> IF m.strips THEN <<"docks-row", "panel-bar">> ELSE <<"docks-row">>
    [] p = <<"docks-row">> -> <<"dock:left", "center", "dock:right">>
    [] p = Base("bottom") -> <<"viz">> \o Wrapper(m, "bottom")
    [] p = Base("left") -> Wrapper(m, "left")
    [] p = Base("right") -> Wrapper(m, "right")
    [] p \in {Content(e) : e \in Edges} -> Inner(m, CHOOSE e \in Edges : p = Content(e))
    [] OTHER -> <<>>

DeriveTree(m) == [p \in Widgets(m) |-> ChildrenOf(m, p)]

\* A tree has its root, this has nothing.
NoTree == <<>>

\* The map a reconciler has that drew exactly the tree t.
KeyMap(t) == [k \in Keys |-> IF \E p \in DOMAIN t : p # <<>> /\ Last(p) = k
                             THEN CHOOSE p \in DOMAIN t : p # <<>> /\ Last(p) = k
                             ELSE Nothing]

------------------------------------------------------------------------------
(* UIStore                                                                   *)

\* The items but x, which is one of them once at most.
Drop(s, x) ==
  IF \E i \in 1..Len(s) : s[i] = x THEN RemoveAt(s, CHOOSE i \in 1..Len(s) : s[i] = x) ELSE s

\* _insert_at: an index beyond the end appends.
Insert(s, x, i) == IF i >= Len(s) THEN Append(s, x) ELSE InsertAt(s, i + 1, x)

Docked(m, p) == CHOOSE e \in Edges : p \in ToSet(m.panels[e])

\* toggle_panel: the panel becomes its edge's active one, or none is.
Toggled(m, p) ==
  LET e == Docked(m, p)
  IN [m EXCEPT !.active[e] = IF @ = p THEN Nothing ELSE p]

\* set_panel_active, as show, hide and the end of move call it.
Activated(m, e, p) == [m EXCEPT !.active[e] = p]

\* move_panel: out of the old edge, which keeps its active panel unless it was this one.
Moved(m, p, e, i) ==
  LET from == Docked(m, p)
      left == [m EXCEPT !.panels[from] = Drop(@, p),
                        !.active[from] = IF @ = p /\ from # e THEN Nothing ELSE @]
  IN [left EXCEPT !.panels[e] = Insert(@, p, i)]

\* Reconciler.schedule with the tree of the new model, once per commit that changes something.
Schedule(m) ==
  /\ target' = DeriveTree(m)
  /\ scheduled' = TRUE
  /\ callbacks' = IF scheduled THEN callbacks ELSE callbacks + 1

\* The subscriber of UIStore in TSDRApp.__init__.
Commit(m) ==
  /\ ~crashed
  /\ scheduled \/ callbacks < MaxCallbacks
  /\ OnePerFrame => target = NoTree
  /\ m # model
  /\ model' = m
  /\ Schedule(m)
  /\ UNCHANGED pass

TogglePanel(p) == Commit(Toggled(model, p))
ShowPanel(p) == Commit(Activated(model, Docked(model, p), p))
HidePanel(p) ==
  LET e == Docked(model, p) IN model.active[e] = p /\ Commit(Activated(model, e, Nothing))

\* panel move and alt+digit: move_panel and set_panel_active in one handler.
MovePanel(p, e, i) == Commit(Activated(Moved(model, p, e, i), e, p))

ToggleStrips == Commit([model EXCEPT !.strips = ~@])
ToggleImage == Commit([model EXCEPT !.image = ~@])

\* seed_from_engine: the focused device has another decoder, or none.
SeedFromEngine(k) == Commit([model EXCEPT !.kind = k])

------------------------------------------------------------------------------
(* Reconciler                                                                *)

Running == spec # NoTree
Idle == ~Running /\ target = NoTree

Call(p) == [at |-> p, phase |-> "remove", next |-> 1]

\* Mutant: the flag of the schedule that is being drawn stays up.
TakeTargetKeepsFlag ==
  /\ spec' = target
  /\ stack' = <<Call(<<>>)>>
  /\ target' = NoTree
  /\ UNCHANGED scheduled

\* The loop of _run takes the newest tree.
TakeTarget ==
  /\ spec' = target
  /\ stack' = <<Call(<<>>)>>
  /\ target' = NoTree
  /\ scheduled' = FALSE

\* _run: returns early when a pass is in flight or nothing is left to draw.
Run ==
  /\ ~crashed
  /\ callbacks > 0
  /\ callbacks' = callbacks - 1
  /\ \/ /\ Running \/ target = NoTree
        /\ UNCHANGED <<target, scheduled, spec, stack>>
     \/ ~Running /\ target # NoTree /\ TakeTarget
  /\ UNCHANGED <<model, screen, byKey, crashed>>

Top == stack[Len(stack)]
Child(k) == Append(Top.at, k)
InCall(phase) == ~crashed /\ Running /\ stack # <<>> /\ Top.phase = phase
SetTop(f) == [stack EXCEPT ![Len(stack)] = f]
Advanced == SetTop([Top EXCEPT !.next = @ + 1])

\* Phase 1 asks _key_of for the key of each child: a child whose key means another widget has none.
Obsolete == {k \in Keys : /\ \E i \in 1..Len(screen[Top.at]) : screen[Top.at][i] = k
                          /\ byKey[k] = Child(k)
                          /\ \A i \in 1..Len(spec[Top.at]) : spec[Top.at][i] # k}

\* _forget_subtree and the awaited removal of one child.
RemoveChild(k) ==
  LET gone == {p \in DOMAIN screen : IsPrefix(Child(k), p)}
      less == [screen EXCEPT ![Top.at] = Drop(@, k)]
  IN /\ InCall("remove")
     /\ k \in Obsolete
     /\ byKey' = [x \in Keys |-> IF byKey[x] \in gone THEN Nothing ELSE byKey[x]]
     /\ screen' = [p \in DOMAIN screen \ gone |-> less[p]]
     /\ UNCHANGED <<model, reconciler, spec, stack, crashed>>

BeginWalk ==
  /\ InCall("remove")
  /\ Obsolete = {}
  /\ stack' = SetTop([Top EXCEPT !.phase = "walk"])
  /\ UNCHANGED <<model, reconciler, spec, screen, byKey, crashed>>

Wanted == spec[Top.at][Top.next]
MoreWanted == InCall("walk") /\ Top.next <= Len(spec[Top.at])

\* A mount goes to the front, or behind the widget of the spec before.
Mounted(s, k) ==
  IF Top.next = 1 THEN <<k>> \o s
  ELSE LET anchor == spec[Top.at][Top.next - 1]
       IN InsertAt(s, 1 + CHOOSE i \in 1..Len(s) : s[i] = anchor, k)

\* Mutant: a child that shall have no children is not visited.
KeepChildShallow ==
  /\ MoreWanted
  /\ byKey[Wanted] = Child(Wanted)
  /\ stack' = IF spec[Child(Wanted)] = <<>> THEN Advanced ELSE Append(Advanced, Call(Child(Wanted)))
  /\ UNCHANGED <<model, reconciler, spec, screen, byKey, crashed>>

\* The key has a widget under this parent: it is kept and its children are reconciled.
KeepChild ==
  /\ MoreWanted
  /\ byKey[Wanted] = Child(Wanted)
  /\ stack' = Append(Advanced, Call(Child(Wanted)))
  /\ UNCHANGED <<model, reconciler, spec, screen, byKey, crashed>>

\* It has none, or one under another parent: a fresh widget is mounted. Textual refuses a second
\* sibling with the same id, and the exception ends the application.
MountChild ==
  LET refused == Child(Wanted) \in DOMAIN screen
  IN /\ MoreWanted
     /\ byKey[Wanted] # Child(Wanted)
     /\ crashed' = refused
     /\ byKey' = [byKey EXCEPT ![Wanted] = Child(Wanted)]
     /\ screen' = IF refused THEN screen
                  ELSE [p \in DOMAIN screen \cup {Child(Wanted)} |->
                          IF p = Child(Wanted) THEN <<>>
                          ELSE IF p = Top.at THEN Mounted(screen[p], Wanted) ELSE screen[p]]
     /\ stack' = Append(Advanced, Call(Child(Wanted)))
     /\ UNCHANGED <<model, reconciler, spec>>

\* _reconcile_children returns to its caller.
Return ==
  /\ InCall("walk")
  /\ Top.next > Len(spec[Top.at])
  /\ Len(stack) > 1
  /\ stack' = SubSeq(stack, 1, Len(stack) - 1)
  /\ UNCHANGED <<model, reconciler, spec, screen, byKey, crashed>>

\* The outermost call returns: _run draws the tree that was scheduled meanwhile, or ends.
EndPass ==
  /\ InCall("walk")
  /\ Top.next > Len(spec[Top.at])
  /\ Len(stack) = 1
  /\ \/ target # NoTree /\ TakeTarget
     \/ target = NoTree /\ spec' = NoTree /\ stack' = <<>> /\ UNCHANGED <<target, scheduled>>
  /\ UNCHANGED <<model, callbacks, screen, byKey, crashed>>

------------------------------------------------------------------------------
DefaultLayout == [left |-> <<"decoder-output", "memories">>, right |-> <<"stats", "performance">>,
                  bottom |-> <<"demod", "directory">>]

\* run_initial has drawn the layout of the preferences, whose active panels are docked.
Init ==
  /\ model \in [panels : {Layout},
               active : [Edges -> Panels \cup {Nothing}],
               strips : {TRUE}, image : {FALSE}, kind : {Nothing}]
  /\ \A e \in Edges : model.active[e] \in ToSet(model.panels[e]) \cup {Nothing}
  /\ target = NoTree /\ scheduled = FALSE /\ callbacks = 0
  /\ spec = NoTree /\ stack = <<>>
  /\ screen = DeriveTree(model)
  /\ byKey = KeyMap(screen)
  /\ crashed = FALSE

User ==
  \/ \E p \in Panels : TogglePanel(p) \/ ShowPanel(p) \/ HidePanel(p)
  \/ \E p \in Panels, e \in Edges, i \in 0..(Cardinality(Panels) - 1) : MovePanel(p, e, i)
  \/ ToggleStrips \/ ToggleImage
  \/ \E k \in Kinds \cup {Nothing} : SeedFromEngine(k)

Draw ==
  \/ Run \/ BeginWalk \/ KeepChild \/ MountChild \/ Return \/ EndPass
  \/ \E k \in Keys : RemoveChild(k)

Next == User \/ Draw
Spec == Init /\ [][Next]_vars

\* The event loop runs the callbacks it was given and resumes the pass that awaits.
FairSpec == Spec /\ WF_vars(Draw)

------------------------------------------------------------------------------
(* Properties                                                                *)

\* The children a tree names exist, each under one parent once.
IsTree(t) ==
  /\ <<>> \in DOMAIN t
  /\ \A p \in DOMAIN t : /\ \A i, j \in 1..Len(t[p]) : t[p][i] = t[p][j] => i = j
                         /\ {Append(p, k) : k \in ToSet(t[p])} =
                              {q \in DOMAIN t : q # <<>> /\ Front(q) = p}

\* Types. Each panel is docked on one edge, once, and the active panel of an edge is docked there;
\* the screen is a tree; the calls in flight are those of one branch of it.
TypeOK ==
  /\ model.panels \in [Edges -> Seq(Panels)] /\ EachDocked(model.panels)
  /\ \A e \in Edges : model.active[e] \in ToSet(model.panels[e]) \cup {Nothing}
  /\ {model.strips, model.image, scheduled, crashed} \subseteq BOOLEAN
  /\ model.kind \in Kinds \cup {Nothing}
  /\ callbacks \in 0..MaxCallbacks
  /\ IsTree(screen)
  /\ Running <=> stack # <<>>
  /\ \A i \in 1..Len(stack) : /\ stack[i].at \in DOMAIN screen
                              /\ Len(stack[i].at) = i - 1
                              /\ stack[i].next \in 1..(Len(spec[stack[i].at]) + 1)

\* When nothing is left to draw the screen is derive_tree of the model, children in order, and the
\* router finds exactly its widgets: no widget is left over from a layout that has gone, although
\* layouts change while passes run (view/reconciler.py:107 and :124-128). In the middle of a pass
\* too Reconciler.get never returns a removed widget (37-42): stream events go to what is shown.
SettledScreen ==
  /\ ~crashed
  /\ Idle => screen = DeriveTree(model) /\ byKey = KeyMap(screen)
  /\ \A k \in Keys : byKey[k] # Nothing => byKey[k] \in DOMAIN screen

\* "the queued _run early-returns and the in-flight pass picks up the new _target"
\* (view/reconciler.py:63-67): unless somebody commits for ever, nothing is left to draw, again and
\* again, so with SettledScreen the last change reaches the screen.
ChangesReachScreen == []<>Idle \/ []<><<User>>_vars
==============================================================================
