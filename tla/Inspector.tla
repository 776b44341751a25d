------------------------------ MODULE Inspector ------------------------------
(***************************************************************************)
(* The inspector window (app.py) with its recorder (recorder.py): a view   *)
(* of the application under test that is as old as the last refresh, a     *)
(* selection that is older still, and a test script made of what was done  *)
(* with it.  One GUI thread runs every handler; a modal dialog runs a      *)
(* nested event loop, in which the refresh timer still fires.  The         *)
(* application changes whenever it likes, a call to the agent may fail.    *)
(***************************************************************************)
EXTENDS Locators

CONSTANTS
  Screens,        \* sequence: what the application shows, one after the other
  Bundles,        \* bundle identifiers the user may have in the App field
  DefaultBundle,
  Titles,         \* test case names and styles
  DefaultTitle,
  Points,         \* where the user clicks
  Inputs,         \* what the user types into a dialog
  MaxGestures,    \* bound on what the user does, answers to dialogs aside
  MaxSteps,       \* bound on the recorded steps
  MaxFailures     \* bound on the calls to the agent that fail

ASSUME InspectorAssumption ==
  /\ Len(Screens) \in Nat \ {0} /\ DOMAIN Screens = 1 .. Len(Screens)
  /\ \A i \in DOMAIN Screens : IsScreen(Screens[i])
  /\ Inputs \subseteq Texts
  /\ DefaultBundle \in Bundles /\ DefaultTitle \in Titles
  /\ MaxGestures \in Nat /\ MaxSteps \in Nat /\ MaxFailures \in Nat

VARIABLES
  screen,      \* the application: which of Screens it shows
  failures,    \* calls to the agent that failed so far
  session,     \* the device's: "none", "up", or "lost" once the client gave up
  bundle,      \* the App field
  title,       \* the test case name and the style box
  invisible,   \* _include_invisible
  auto,        \* the refresh timer runs
  refresh,     \* where refresh() is: "no", "image" or "tree"
  shot,        \* the screenshot refresh() has, until it has the tree too
  image,       \* what the screenshot view shows
  tree,        \* _snapshot, with the screen it was taken of
  selected,    \* _selected: none or one node
  shown,       \* what the panel shows as the best locator
  modal,       \* the dialog that is open, with what its handler holds
  recording,   \* recorder._recording
  steps,       \* recorder.steps
  list,        \* the list widget
  preview,     \* the code preview
  saved,       \* the file: none or one script
  window,      \* "starting", "open" or "closed"
  gestures     \* what the user did so far

app     == <<screen, failures, session>>
fields  == <<bundle, title, invisible, auto>>
view    == <<image, tree, selected, shown>>
panel   == <<recording, steps, list, preview, saved>>
control == <<refresh, shot, modal, window>>

vars == <<app, fields, view, panel, control, gestures>>

NoView  == [screen |-> 0, nodes |-> <<>>]
NoModal == [kind |-> "none"]

\* generate(): the header, the connection and the two styles are layout; what
\* is left is the title, the one bundle identifier and the steps in order.
Script(b, t, s) == [bundle |-> b, title |-> t, body |-> [i \in DOMAIN s |-> s[i].code]]

GeneratedCode == Script(bundle, title, steps)

Init ==
  /\ screen = 1
  /\ failures = 0
  /\ session = "none"
  /\ bundle = DefaultBundle
  /\ title = DefaultTitle
  /\ invisible = FALSE
  /\ auto = FALSE
  /\ refresh = "no"
  /\ shot = 0
  /\ image = 0
  /\ tree = NoView
  /\ selected = {}
  /\ shown = {}
  /\ modal = NoModal
  /\ recording = FALSE
  /\ steps = <<>>
  /\ list = <<>>
  /\ preview = GeneratedCode
  /\ saved = {}
  /\ window = "starting"
  /\ gestures = 0

(***************************************************************************)
(* The environment.                                                        *)
(***************************************************************************)
AppChanges ==
  /\ screen < Len(Screens)
  /\ screen' = screen + 1
  /\ UNCHANGED <<failures, session, fields, view, panel, control>>

CallWorks == session = "up" /\ UNCHANGED app

\* The agent reports an error or does not answer in time; or the client gives
\* the connection up, and IOSSession refuses every call from then on, although
\* the device still counts as connected.
CallFails ==
  /\ \/ /\ session = "up" /\ failures < MaxFailures
        /\ failures' = failures + 1
        /\ session' \in {"up", "lost"}
     \/ session = "lost" /\ UNCHANGED <<failures, session>>
  /\ UNCHANGED screen

IsConnected == session # "none"

\* The GUI thread is in its event loop, or in that of a dialog.
Ready == window = "open" /\ refresh = "no"
Idle  == Ready /\ modal = NoModal

(***************************************************************************)
(* Connecting and refreshing.                                              *)
(***************************************************************************)
StartRefresh == refresh' = IF IsConnected THEN "image" ELSE "no"

Connect ==
  /\ window = "starting"
  /\ window' = "open"
  /\ \/ session' = "up" /\ refresh' = "image"
     \/ UNCHANGED <<session, refresh>>
  /\ UNCHANGED <<screen, failures, fields, view, panel, shot, modal>>

\* Mutant: the screenshot is shown as soon as it is there.
RefreshImageAtOnce ==
  /\ refresh = "image"
  /\ \/ CallWorks /\ refresh' = "tree" /\ shot' = screen /\ image' = screen
     \/ CallFails /\ refresh' = "no" /\ UNCHANGED <<shot, image>>
  /\ UNCHANGED <<fields, tree, selected, shown, panel, modal, window>>

RefreshImage ==
  /\ refresh = "image"
  /\ \/ CallWorks /\ refresh' = "tree" /\ shot' = screen
     \/ CallFails /\ refresh' = "no" /\ UNCHANGED shot
  /\ UNCHANGED <<fields, view, panel, modal, window>>

\* Screenshot and tree are replaced together; the selection stays.
RefreshTree ==
  /\ refresh = "tree"
  /\ refresh' = "no"
  /\ shot' = 0
  /\ \/ /\ CallWorks
        /\ tree' = [screen |-> screen, nodes |-> Serialize(Screens[screen], invisible)]
        /\ image' = shot
     \/ CallFails /\ UNCHANGED <<tree, image>>
  /\ UNCHANGED <<fields, selected, shown, panel, modal, window>>

RefreshButton ==
  /\ Idle /\ IsConnected
  /\ StartRefresh
  /\ UNCHANGED <<app, fields, view, panel, shot, modal, window>>

\* Mutant: a dialog keeps the timer from firing.
TimerFiresWhenIdle ==
  /\ Idle /\ auto /\ IsConnected
  /\ StartRefresh
  /\ UNCHANGED <<app, fields, view, panel, shot, modal, window>>

TimerFires ==
  /\ Ready /\ auto /\ IsConnected
  /\ StartRefresh
  /\ UNCHANGED <<app, fields, view, panel, shot, modal, window>>

SetIncludeInvisible ==
  /\ Idle
  /\ invisible' = ~invisible
  /\ StartRefresh
  /\ UNCHANGED <<app, bundle, title, auto, view, panel, shot, modal, window>>

UpdateAutoRefresh ==
  /\ Idle
  /\ auto' = ~auto
  /\ UNCHANGED <<app, bundle, title, invisible, view, panel, control>>

(***************************************************************************)
(* Selecting an element, on the screenshot or in the tree.                 *)
(***************************************************************************)
Select(node) ==
  /\ selected' = {node}
  /\ shown' = BestLocator(node, tree.nodes)
  /\ UNCHANGED <<app, fields, image, tree, panel, control>>

SelectAtPoint(point) ==
  /\ Idle /\ tree # NoView
  /\ \E node \in HitTest(tree.nodes, point) : Select(node)

TreeSelectionChanged(path) ==
  /\ Idle /\ tree # NoView
  /\ \E node \in FindByPath(tree.nodes, path) : Select(node)

\* None when nothing is selected; it is looked up in the tree of now, which
\* need not be the tree the selected node is from.
SelectedSuggestion ==
  IF tree = NoView THEN {} ELSE UNION {BestLocator(n, tree.nodes) : n \in selected}

(***************************************************************************)
(* The recorder.  A step's code is the call it is written as: a locator's  *)
(* code, or none, and the method with its arguments, each text escaped and *)
(* between double quotes.  "ran" and "shown" are history: the request that *)
(* was executed when the step was recorded (none if it only asserts), and  *)
(* the locator the panel showed then.                                      *)
(***************************************************************************)
Code(method, locator, args) == [method |-> method, locator |-> locator, args |-> args]

Step(code, ran) == [code |-> code, ran |-> ran, shown |-> shown]

\* Recorder.record and, when it recorded, _on_step_recorded.
Record(step) ==
  /\ IF recording
     THEN /\ Len(steps) < MaxSteps
          /\ steps' = Append(steps, step)
          /\ list' = Append(list, step)
          /\ preview' = Script(bundle, title, steps')
     ELSE UNCHANGED <<steps, list, preview>>
  /\ UNCHANGED <<recording, saved>>

\* _run, the record that follows when the call succeeded, and the refresh.
RunAndRecord(code, ran) ==
  /\ \/ CallWorks /\ Record(Step(code, ran))
     \/ CallFails /\ UNCHANGED panel
  /\ StartRefresh
  /\ UNCHANGED <<fields, view, shot, window>>

\* What the script says of a node when it is not visible.
DescribeTarget(node) ==
  LET given == SelectSeq(<<Strip(node.identifier), Strip(node.label), Strip(node.title),
                           Strip(node.value)>>, LAMBDA t : t # NoText)
  IN  IF given = <<>> THEN {"word"} ELSE Head(given)

\* The texts among the arguments.
Quoted(code) ==
  IF code.method \in {"fill", "assert_visible", "assert_text", "page.screenshot"}
  THEN {code.args[1]}
  ELSE {}

\* The script is one file: a literal that ends early in any step leaves none of it
\* to run.
IsPython(script) ==
  \A i \in DOMAIN script.body :
    /\ \A l \in script.body[i].locator : Compiles(l)
    /\ \A text \in Quoted(script.body[i]) : IsLiteral("special", text)

\* What a step of a script that is Python does when it is run: its one bundle
\* identifier is that of all its calls, its page has the SDK's default timeout.
Replay(script, code) ==
  LET at == {Evaluate(l) : l \in code.locator}
      arg == code.args
  IN  CASE code.method = "launch"     -> {Launch(script.bundle, arg[1])}
        [] code.method = "tap"        -> {Tap(l) : l \in at}
        [] code.method = "long_press" -> {LongPress(l, arg[1]) : l \in at}
        [] code.method = "fill"       -> {Fill(l, Unescape(arg[1])) : l \in at}
        [] code.method = "clear"      -> {Clear(l) : l \in at}
        [] code.method = "wait_for"   -> {WaitFor(l, arg[1], arg[2]) : l \in at}
        [] code.method = "page.tap"   -> {TapAt(arg[1])}
        [] code.method = "page.long_press" -> {LongPressAt(arg[1], arg[2])}
        [] code.method = "page.swipe" -> {Swipe(arg[1], arg[2], arg[3])}
        [] OTHER                      -> {}

ToggleRecording ==
  /\ Idle
  /\ recording' = ~recording
  /\ preview' = GeneratedCode
  /\ UNCHANGED <<app, fields, view, steps, list, saved, control>>

\* Mutant: the step list is not told.
RecorderUndoKeepsList ==
  /\ Idle /\ steps # <<>>
  /\ steps' = Front(steps)
  /\ preview' = Script(bundle, title, steps')
  /\ UNCHANGED <<app, fields, view, recording, list, saved, control>>

RecorderUndo ==
  /\ Idle /\ steps # <<>>
  /\ steps' = Front(steps)
  /\ list' = Front(list)
  /\ preview' = Script(bundle, title, steps')
  /\ UNCHANGED <<app, fields, view, recording, saved, control>>

Discard ==
  /\ steps' = <<>>
  /\ list' = <<>>
  /\ preview' = Script(bundle, title, <<>>)
  /\ UNCHANGED <<recording, saved>>

\* The App field has no handler: the preview keeps the identifier it had.
EditBundle(b) ==
  /\ Idle /\ b # bundle
  /\ bundle' = b
  /\ UNCHANGED <<app, title, invisible, auto, view, panel, control>>

EditTitle(t) ==
  /\ Idle /\ t # title
  /\ title' = t
  /\ preview' = Script(bundle, t, steps)
  /\ UNCHANGED <<app, bundle, invisible, auto, view, recording, steps, list, saved, control>>

(***************************************************************************)
(* Actions without a dialog.                                               *)
(***************************************************************************)
LaunchApp(relaunch) ==
  /\ Idle /\ IsConnected
  /\ RunAndRecord(Code("launch", {}, <<relaunch>>), {Launch(bundle, relaunch)})
  /\ UNCHANGED modal

\* Where the screen is touched when there is no suggestion: the centre of the
\* selected node's frame.
NormalizedCenter == {n.frame : n \in {m \in selected : SelectedSuggestion = {}}}

ActionTap ==
  /\ Idle
  /\ \/ \E s \in SelectedSuggestion :
          RunAndRecord(Code("tap", {InlineCode(s)}, <<>>), {Tap(Build(s))})
     \/ \E p \in NormalizedCenter :
          RunAndRecord(Code("page.tap", {}, <<p>>), {TapAt(p)})
  /\ UNCHANGED modal

\* The duration is a default of the SDK's method when it is executed, and one
\* of the recorder's when it is written.
ActionLongPress ==
  /\ Idle
  /\ \/ \E s \in SelectedSuggestion :
          RunAndRecord(Code("long_press", {InlineCode(s)}, <<1>>), {LongPress(Build(s), 1)})
     \/ \E p \in NormalizedCenter :
          RunAndRecord(Code("page.long_press", {}, <<p, 1>>), {LongPressAt(p, 1)})
  /\ UNCHANGED modal

ActionClear ==
  /\ Idle
  /\ \E s \in SelectedSuggestion :
       RunAndRecord(Code("clear", {InlineCode(s)}, <<>>), {Clear(Build(s))})
  /\ UNCHANGED modal

ActionSwipe ==
  /\ Idle /\ IsConnected
  /\ RunAndRecord(Code("page.swipe", {}, <<"low", "high", "0.3 s">>),
                  {Swipe("low", "high", "0.3 s")})
  /\ UNCHANGED modal

\* Recorded only if the element is visible; no refresh follows.
ActionAssertVisible ==
  /\ Idle
  /\ \E n \in selected, s \in SelectedSuggestion :
       \/ /\ CallWorks
          /\ \/ Record(Step(Code("assert_visible", {InlineCode(s)},
                                <<Escape(DescribeTarget(n))>>), {}))
             \/ UNCHANGED panel
       \/ CallFails /\ UNCHANGED panel
  /\ UNCHANGED <<fields, view, control>>

(***************************************************************************)
(* Actions with a dialog: what the handler resolved before it opened the   *)
(* dialog is what it uses afterwards.                                      *)
(***************************************************************************)
Open(dialog) == modal' = dialog /\ UNCHANGED <<fields, view, panel, refresh, shot, window>>
Closed       == modal' = NoModal

OpenDialog(kind) ==
  /\ Idle
  /\ \E s \in SelectedSuggestion :
       \/ /\ IF kind = "assert_text" THEN CallWorks ELSE UNCHANGED app
          /\ Open([kind |-> kind, suggestion |-> s])
       \* text_content() is read before the dialog is shown.
       \/ kind = "assert_text" /\ CallFails
          /\ UNCHANGED <<fields, view, panel, control>>

OpenPlain(kind) ==
  /\ Idle
  /\ Open([kind |-> kind])
  /\ UNCHANGED app

DialogCancelled ==
  /\ Ready /\ modal.kind \in {"fill", "wait_for", "assert_text", "screenshot", "clear", "save", "close"}
  /\ Closed
  /\ UNCHANGED <<app, fields, view, panel, refresh, shot, window>>

\* No text is a cancelled dialog.
TypeAccepted(text) ==
  /\ Ready /\ modal.kind = "fill" /\ text # NoText
  /\ RunAndRecord(Code("fill", {InlineCode(modal.suggestion)}, <<Escape(text)>>),
                  {Fill(Build(modal.suggestion), text)})
  /\ Closed

\* No refresh follows.
WaitForAccepted(state) ==
  /\ Ready /\ modal.kind = "wait_for"
  /\ \/ /\ CallWorks
        /\ Record(Step(Code("wait_for", {InlineCode(modal.suggestion)}, <<state, 10>>),
                       {WaitFor(Build(modal.suggestion), state, 10)}))
     \/ CallFails /\ UNCHANGED panel
  /\ Closed
  /\ UNCHANGED <<fields, view, refresh, shot, window>>

\* Recorded whatever the element reads.
AssertTextAccepted(text) ==
  /\ Ready /\ modal.kind = "assert_text"
  /\ Record(Step(Code("assert_text", {InlineCode(modal.suggestion)}, <<Escape(text)>>), {}))
  /\ Closed
  /\ UNCHANGED <<app, fields, view, refresh, shot, window>>

ScreenshotAccepted(name) ==
  /\ Ready /\ modal.kind = "screenshot" /\ name # NoText
  /\ Record(Step(Code("page.screenshot", {}, <<Escape(name)>>), {}))
  /\ Closed
  /\ UNCHANGED <<app, fields, view, refresh, shot, window>>

RecorderClear == steps # <<>> /\ OpenPlain("clear")

ClearAccepted ==
  /\ Ready /\ modal.kind = "clear"
  /\ Discard
  /\ Closed
  /\ UNCHANGED <<app, fields, view, refresh, shot, window>>

\* The file is opened, which empties it, and written: either may fail.
WriteText == saved' \in {{GeneratedCode}, saved, {}}

SaveAccepted ==
  /\ Ready /\ modal.kind = "save"
  /\ WriteText
  /\ Closed
  /\ UNCHANGED <<app, fields, view, recording, steps, list, preview, refresh, shot, window>>

(***************************************************************************)
(* Closing the window: with steps it asks first, saved or not; a save that *)
(* is cancelled, or fails, closes it all the same, and the steps are lost. *)
(* The program ends with its window, whatever the handler did not get to.  *)
(***************************************************************************)
CloseWindow ==
  /\ window' = "closed"
  /\ session' = "none"
  /\ auto' = FALSE
  /\ modal' = NoModal
  /\ UNCHANGED <<screen, failures, bundle, title, invisible, view, recording, steps, list, preview,
                 refresh, shot>>

CloseEvent ==
  /\ Idle
  /\ IF steps = <<>>
     THEN CloseWindow /\ UNCHANGED saved
     ELSE Open([kind |-> "close"]) /\ UNCHANGED app

CloseAnswered ==
  /\ Ready /\ modal.kind = "close"
  /\ \/ CloseWindow /\ UNCHANGED saved
     \/ Open([kind |-> "closing save"]) /\ UNCHANGED app

ClosingSave ==
  /\ Ready /\ modal.kind = "closing save"
  /\ CloseWindow
  /\ WriteText

(***************************************************************************)
(* The widgets and the handlers _build_ui connects them to.                *)
(***************************************************************************)
Toolbar ==
  \/ RefreshButton \/ SetIncludeInvisible \/ UpdateAutoRefresh
  \/ \E relaunch \in BOOLEAN : LaunchApp(relaunch)
  \/ \E b \in Bundles : EditBundle(b)

Canvas ==
  \/ \E p \in Points : SelectAtPoint(p)
  \/ \E n \in Range(tree.nodes) : TreeSelectionChanged(n.path)

Actions ==
  \/ ActionTap \/ ActionLongPress \/ ActionClear \/ ActionSwipe \/ ActionAssertVisible
  \/ \E kind \in {"fill", "wait_for", "assert_text"} : OpenDialog(kind)

RecorderPanel ==
  \/ ToggleRecording \/ RecorderUndo \/ RecorderClear
  \/ \E t \in Titles : EditTitle(t)
  \/ \E kind \in {"screenshot", "save"} : OpenPlain(kind)

Answers ==
  \/ DialogCancelled
  \/ \E text \in Inputs :
       TypeAccepted(text) \/ AssertTextAccepted(text) \/ ScreenshotAccepted(text)
  \/ \E s \in {"visible", "not_exists"} : WaitForAccepted(s)
  \/ ClearAccepted \/ SaveAccepted \/ CloseAnswered \/ ClosingSave

Gesture ==
  /\ gestures < MaxGestures
  /\ gestures' = gestures + 1
  /\ Toolbar \/ Canvas \/ Actions \/ RecorderPanel \/ CloseEvent

ByItself ==
  /\ AppChanges \/ Connect \/ RefreshImage \/ RefreshTree \/ TimerFires \/ Answers
  /\ UNCHANGED gestures

Next == Gesture \/ ByItself

\* A refresh that has started goes on, a running timer fires: the GUI thread's
\* calls return and its event loop runs.
Fairness ==
  /\ WF_vars(RefreshImage /\ UNCHANGED gestures)
  /\ WF_vars(RefreshTree /\ UNCHANGED gestures)
  /\ WF_vars(TimerFires /\ UNCHANGED gestures)

Spec     == Init /\ [][Next]_vars
FairSpec == Spec /\ Fairness

(***************************************************************************)
(* Properties.                                                             *)
(***************************************************************************)
TypeOK ==
  /\ screen \in DOMAIN Screens
  /\ failures \in 0 .. MaxFailures
  /\ session \in {"none", "up", "lost"}
  /\ auto \in BOOLEAN
  /\ invisible \in BOOLEAN /\ recording \in BOOLEAN
  /\ bundle \in Bundles
  /\ title \in Titles
  /\ refresh \in {"no", "image", "tree"}
  /\ shot \in 0 .. Len(Screens)
  /\ image \in 0 .. Len(Screens)
  /\ tree.screen \in 0 .. Len(Screens)
  /\ Cardinality(selected) <= 1 /\ Cardinality(shown) <= 1
  /\ Len(steps) <= MaxSteps
  /\ gestures \in 0 .. MaxGestures
  /\ Cardinality(saved) <= 1
  /\ window \in {"starting", "open", "closed"}

\* The step list and the code preview are kept apart from the recorder and
\* brought up to date by each handler for itself: whatever is recorded, undone
\* or cleared, the panel shows the steps that will be saved, in their order
\* (app.py:315-340, recorder.py:73-91).
PanelShowsTheRecording ==
  /\ list = steps
  /\ preview.body = GeneratedCode.body /\ preview.title = title

\* What the code has no way to write: an apostrophe in a predicate, a line break
\* in an argument.  Either makes the whole file a syntax error.
Writable(code) ==
  /\ \A l \in code.locator : \A text \in PredicateTexts(l) : "apostrophe" \notin text
  /\ \A text \in Quoted(code) : "break" \notin text

\* What it writes as something else: a text whose lines were joined or whose gaps
\* were closed, and a quote or backslash in a predicate, which is escaped for one
\* parser and read by two.
WrittenAsIs(code) ==
  \A l \in code.locator :
    /\ \A text \in PlainTexts(l) \cup PredicateTexts(l) : "respaced" \notin text
    /\ \A text \in PredicateTexts(l) : "escaped" \notin text

\* What the script does when it is run is what ran when it was recorded: the
\* same request for the same element, with the same text, after any refresh,
\* undo or dialog in between.  The file is Python unless a step has something the
\* code has no way to write; then each step does what ran, but for texts that are
\* written as something else, and the App field edited since (README.md:248).
ReplaysWhatRan ==
  (\A i \in DOMAIN steps : Writable(steps[i].code)) =>
    /\ IsPython(GeneratedCode)
    /\ \A i \in DOMAIN steps :
         LET s == steps[i]
             now == Replay(GeneratedCode, s.code)
         IN  \/ s.code.method \in {"assert_visible", "assert_text", "page.screenshot"}
             \/ ~WrittenAsIs(s.code)
             \/ s.code.method = "launch" /\ \A r \in s.ran : r.args[1] # bundle
             \/ now = s.ran /\ now # {}

\* An executed step used the locator the panel showed as the best: "actions are
\* recorded through the top-ranked locator shown in the panel, and the
\* Inspector executes that same locator" (README.md:248).
ExecutesTheShownLocator ==
  \A i \in DOMAIN steps :
    steps[i].code.locator # {} => steps[i].code.locator = {InlineCode(s) : s \in steps[i].shown}

\* The screenshot is never of a later screen than the tree it is shown with,
\* whatever call of a refresh fails and however the application changes between
\* the two; it may well be of an earlier one (app.py:403).
ImageNotNewerThanTree == image <= tree.screen

\* What is acted on is what is selected: while the tree still has the selected
\* node and the application still shows what the tree was taken of, a locator
\* that is called unique leads the agent to that element, whatever was refreshed,
\* selected or made invisible before (locators.py:60, app.py:525).
ActionsHitTheSelection ==
  \A n \in selected \cap Range(tree.nodes) : \A s \in SelectedSuggestion :
    s.unique /\ Counted(Screens[tree.screen], tree.nodes, n, s) =>
      {e.path : e \in Resolve(Screens[tree.screen], Build(s))} = {n.path}

\* With the timer on, the tree catches up with the application, also while a
\* dialog is open: no failed call and no dialog stops it (app.py:429).
AutoRefreshCatchesUp ==
  <>[](auto /\ session = "up") =>
    []<>(tree.screen = screen /\ tree.nodes = Serialize(Screens[screen], invisible))
=============================================================================
