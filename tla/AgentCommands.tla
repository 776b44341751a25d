---------------------------- MODULE AgentCommands ----------------------------
(***************************************************************************)
(* What the handlers of the agent (ios-agent/Sources/Agent/Commands) do    *)
(* with the application under test: which one is active, how an            *)
(* interaction gets past a dialog, what a wait waits for.  The device is   *)
(* the environment: between any two queries of a handler the application   *)
(* may change, and a dialog may come up, which takes the touches meant for *)
(* what lies under it.                                                     *)
(***************************************************************************)
EXTENDS Naturals

CONSTANTS
  Apps,        \* bundle identifiers
  NoApp,
  MaxDialogs   \* bound on the dialogs that come up during one command

ASSUME CommandsAssumption == NoApp \notin Apps /\ MaxDialogs \in Nat

VARIABLES
  active,        \* activeApplication and activeBundleIdentifier
  policy,        \* alertPolicy.mode
  pc,            \* where the handler is
  cmd,           \* the method it handles, with its bundleId and state
  body,          \* which run of withInterruptionRecovery's body this is
  expired,       \* the timeout of the wait at hand is over
  result,        \* how the last command ended
  appState,      \* XCUIApplication.state of each application
  dialog,        \* the dialog on screen: with buttons, or none to press (yet)
  target,        \* the element the selector resolves to
  landed,        \* touches of this command that reached the application
  swallowed,     \* touches of this command that a dialog took
  dialogs,       \* dialogs that came up during this command
  moved          \* the target changed under the interaction, by itself

agent  == <<active, policy, pc, cmd, body, expired, result>>
device == <<appState, dialog, target>>
record == <<landed, swallowed, dialogs, moved>>

vars == <<agent, device, record>>

Policies     == {"manual", "dismiss", "accept"}
WaitStates   == {"exists", "not_exists", "visible", "not_visible", "enabled"}
\* app.relaunch is app.launch with its relaunch parameter set; alert.accept
\* stands for alert.dismiss too.
Methods ==
  {"app.launch", "app.relaunch", "app.activate", "app.terminate", "element.tap",
   "element.waitFor", "gesture.tap", "alert.accept", "session.setAlertPolicy"}

Command == [method : Methods, app : Apps \cup {NoApp}, state : WaitStates]

Points == {"idle", "state", "launch", "foreground", "clear", "resolve", "interactable",
           "touch", "settle", "gesture", "poll"}

Results == {"none", "ok", "noApp", "launchFailed", "notFound", "notInteractable",
            "timeout", "alertNotFound", "invalidParams"}

TypeOK ==
  /\ active \in Apps \cup {NoApp}
  /\ policy \in Policies
  /\ pc \in Points
  /\ cmd \in Command
  /\ body \in {"first", "retry", "replay"}
  /\ expired \in BOOLEAN
  /\ result \in Results
  /\ appState \in [Apps -> {"notRunning", "background", "foreground"}]
  /\ dialog \in {"none", "buttons", "bare"}
  /\ target \in {"absent", "disabled", "enabled"}
  /\ landed \in 0 .. 2
  /\ swallowed \in 0 .. 2
  /\ dialogs \in 0 .. MaxDialogs
  /\ moved \in BOOLEAN

Init ==
  /\ active = NoApp
  /\ policy = "manual"
  /\ pc = "idle"
  /\ cmd \in [method : {"app.terminate"}, app : {NoApp}, state : {"exists"}]
  /\ body = "first"
  /\ expired = FALSE
  /\ result = "none"
  /\ appState \in [Apps -> {"notRunning", "background"}]
  /\ dialog = "none"
  /\ target = "absent"
  /\ landed = 0 /\ swallowed = 0 /\ dialogs = 0
  /\ moved = FALSE

Goto(from, to) == pc = from /\ pc' = to

End(r) == pc' = "idle" /\ result' = r

-----------------------------------------------------------------------------
(* CommandRouter.handle *)

\* The command queue hands over the next request; what concerns the one before
\* is past.
Receive(method, app, state) ==
  /\ pc = "idle"
  /\ cmd' = [method |-> method, app |-> app, state |-> state]
  /\ body' = "first" /\ expired' = FALSE
  /\ landed' = 0 /\ swallowed' = 0 /\ dialogs' = 0 /\ moved' = FALSE

Launch(app) ==
  /\ \E m \in {"app.launch", "app.relaunch"} : Receive(m, app, "exists")
  /\ pc' = "state" /\ result' = "none"
  /\ UNCHANGED <<active, policy, device>>

\* The methods on the active application: requireApplication comes first.
OnActive(m, state, first) ==
  /\ Receive(m, NoApp, state)
  /\ IF active = NoApp THEN End("noApp") ELSE pc' = first /\ result' = "none"
  /\ UNCHANGED <<active, policy, device>>

SetAlertPolicy(mode) ==
  /\ Receive("session.setAlertPolicy", NoApp, "exists")
  /\ End("ok")
  /\ policy' = mode
  /\ UNCHANGED <<active, device>>

\* The bundle identifier of app.activate and app.terminate is optional.
Addressed(app) == IF app = NoApp THEN active ELSE app

ActivateApp(app) ==
  /\ Receive("app.activate", app, "exists")
  /\ IF Addressed(app) = NoApp
     THEN End("invalidParams") /\ UNCHANGED <<active, appState>>
     ELSE /\ End("ok")
          /\ active' = Addressed(app)
          /\ \E s \in {appState[Addressed(app)], "foreground"} :
               appState' = [appState EXCEPT ![Addressed(app)] = s]
  /\ UNCHANGED <<policy, dialog, target>>

TerminateApp(app) ==
  /\ Receive("app.terminate", app, "exists")
  /\ IF Addressed(app) = NoApp
     THEN End("invalidParams") /\ UNCHANGED appState
     ELSE End("ok") /\ appState' = [appState EXCEPT ![Addressed(app)] = "notRunning"]
  /\ UNCHANGED <<active, policy, dialog, target>>

\* findAlert looks at the active application and at SpringBoard.
AlertShown == active # NoApp /\ dialog # "none"

AcceptAlert ==
  /\ Receive("alert.accept", NoApp, "exists")
  /\ IF AlertShown /\ dialog = "buttons"
     THEN End("ok") /\ dialog' = "none"
     ELSE End("alertNotFound") /\ UNCHANGED dialog
  /\ UNCHANGED <<active, policy, appState, target>>

Request ==
  \/ \E app \in Apps : Launch(app)
  \/ OnActive("element.tap", "exists", "clear")
  \/ OnActive("gesture.tap", "exists", "gesture")
  \/ \E s \in WaitStates : OnActive("element.waitFor", s, "poll")
  \/ \E mode \in Policies : SetAlertPolicy(mode)
  \/ \E app \in Apps \cup {NoApp} : ActivateApp(app) \/ TerminateApp(app)
  \/ AcceptAlert

-----------------------------------------------------------------------------
(* launchApp *)

\* Attach to a running instance, unless a relaunch was asked for; else end
\* the running one.
ReadState ==
  /\ pc = "state"
  /\ IF appState[cmd.app] = "notRunning"
     THEN pc' = "launch" /\ UNCHANGED appState
     ELSE IF cmd.method = "app.relaunch"
     THEN pc' = "launch" /\ appState' = [appState EXCEPT ![cmd.app] = "notRunning"]
     ELSE pc' = "foreground" /\ \E s \in {appState[cmd.app], "foreground"} :
                                  appState' = [appState EXCEPT ![cmd.app] = s]
  /\ UNCHANGED <<active, policy, cmd, body, expired, result, dialog, target, record>>

\* XCUIApplication.launch(): a new instance, which may die on its way up.
LaunchApp ==
  /\ Goto("launch", "foreground")
  /\ \E s \in {"notRunning", "background", "foreground"} :
       appState' = [appState EXCEPT ![cmd.app] = s]
  /\ UNCHANGED <<active, policy, cmd, body, expired, result, dialog, target, record>>

\* Mutant: the application becomes the active one before it is there.
ReachForegroundEagerly ==
  /\ pc = "foreground"
  /\ IF appState[cmd.app] = "foreground"
     THEN End("ok")
     ELSE expired /\ End("launchFailed")
  /\ active' = cmd.app
  /\ UNCHANGED <<policy, cmd, body, expired, device, record>>

ReachForeground ==
  /\ pc = "foreground"
  /\ IF appState[cmd.app] = "foreground"
     THEN active' = cmd.app /\ End("ok")
     ELSE expired /\ End("launchFailed") /\ UNCHANGED active
  /\ UNCHANGED <<policy, cmd, body, expired, device, record>>

-----------------------------------------------------------------------------
(* tapElement and withInterruptionRecovery; longPressElement, typeText and   *)
(* clearElement differ in what the touch is                                  *)

\* handleInterruptionIfNeeded taps a button of the dialog.
CanClear == policy # "manual" /\ AlertShown /\ dialog = "buttons"

Cleared == IF CanClear THEN "none" ELSE dialog

ClearFirst ==
  /\ Goto("clear", "resolve")
  /\ dialog' = Cleared
  /\ UNCHANGED <<active, policy, cmd, body, expired, result, appState, target, record>>

\* Mutant: a target that is gone fails the replay.
ThrowInReplay(r) ==
  /\ IF body = "first" /\ CanClear
     THEN body' = "retry" /\ pc' = "resolve" /\ expired' = FALSE /\ UNCHANGED result
     ELSE End(r) /\ UNCHANGED <<body, expired>>
  /\ dialog' = IF body = "first" THEN Cleared ELSE dialog

\* The body has thrown: a dialog may be the reason, the first time.  In the
\* replay, a target that is gone means that the touch had landed.
Throw(r) ==
  /\ IF body = "first" /\ CanClear
     THEN body' = "retry" /\ pc' = "resolve" /\ expired' = FALSE /\ UNCHANGED result
     ELSE End(IF body = "replay" /\ r = "notFound" THEN "ok" ELSE r) /\ UNCHANGED <<body, expired>>
  /\ dialog' = IF body = "first" THEN Cleared ELSE dialog

\* requireElement: there at once, or within the timeout.
Resolve ==
  /\ pc = "resolve"
  /\ IF target # "absent"
     THEN /\ pc' = "interactable"
          /\ moved' = (moved /\ body = "replay")
          /\ UNCHANGED <<body, expired, result, dialog>>
     ELSE expired /\ Throw("notFound") /\ UNCHANGED moved
  /\ UNCHANGED <<active, policy, cmd, appState, target, landed, swallowed, dialogs>>

\* requireInteractable; an element that is gone by now counts as disabled.
CheckInteractable ==
  /\ pc = "interactable"
  /\ IF target = "enabled"
     THEN pc' = "touch" /\ UNCHANGED <<body, expired, result, dialog>>
     ELSE Throw("notInteractable")
  /\ UNCHANGED <<active, policy, cmd, appState, target, record>>

\* Where a touch goes, and what it may do to the target.
Strike ==
  IF dialog # "none" THEN swallowed' = swallowed + 1 /\ UNCHANGED <<landed, target>>
  ELSE /\ UNCHANGED swallowed
       /\ IF target = "enabled"
          THEN landed' = landed + 1 /\ target' \in {"absent", "disabled", "enabled"}
          ELSE UNCHANGED <<landed, target>>

Touch ==
  /\ pc = "touch"
  /\ Strike
  /\ IF body = "first" /\ policy # "manual"
     THEN pc' = "settle" /\ UNCHANGED result
     ELSE End("ok")
  /\ UNCHANGED <<active, policy, cmd, body, expired, appState, dialog, dialogs, moved>>

\* Mutant: the replay is settled and replayed like the first run.
SettleAgain ==
  /\ pc = "settle"
  /\ dialog' = Cleared
  /\ IF CanClear
     THEN pc' = "resolve" /\ expired' = FALSE /\ UNCHANGED result
     ELSE End("ok") /\ UNCHANGED expired
  /\ UNCHANGED <<active, policy, cmd, body, appState, target, record>>

\* Mutant: the settle delay is enough to run the body again.
SettleAlwaysReplays ==
  /\ pc = "settle"
  /\ dialog' = Cleared
  /\ pc' = "resolve" /\ body' = "replay" /\ expired' = FALSE
  /\ UNCHANGED <<active, policy, cmd, result, appState, target, record>>

\* Mutant: a dialog found after the interaction is cleared, and that is all.
SettleWithoutReplay ==
  /\ pc = "settle"
  /\ dialog' = Cleared
  /\ End("ok") /\ UNCHANGED <<body, expired>>
  /\ UNCHANGED <<active, policy, cmd, appState, target, record>>

\* After the settle delay: a dialog that is there now may have taken the
\* touch, so the body is run again.
Settle ==
  /\ pc = "settle"
  /\ dialog' = Cleared
  /\ IF CanClear
     THEN pc' = "resolve" /\ body' = "replay" /\ expired' = FALSE /\ UNCHANGED result
     ELSE End("ok") /\ UNCHANGED <<body, expired>>
  /\ UNCHANGED <<active, policy, cmd, appState, target, record>>

\* tapCoordinate: no selector, no recovery.
TapCoordinate ==
  /\ pc = "gesture"
  /\ Strike
  /\ End("ok")
  /\ UNCHANGED <<active, policy, cmd, body, expired, appState, dialog, dialogs, moved>>

-----------------------------------------------------------------------------
(* waitForElement *)

Hittable == target # "absent" /\ dialog = "none"

Satisfied(state) ==
  CASE state = "exists"      -> target # "absent"
    [] state = "not_exists"  -> target = "absent"
    [] state = "visible"     -> Hittable
    [] state = "not_visible" -> ~Hittable
    [] state = "enabled"     -> target = "enabled"

\* Mutant: the loop has no deadline.
PollPastDeadline ==
  /\ pc = "poll"
  /\ IF Satisfied(cmd.state)
     THEN End("ok") /\ UNCHANGED dialog
     ELSE dialog' = Cleared /\ UNCHANGED <<pc, result>>
  /\ UNCHANGED <<active, policy, cmd, body, expired, appState, target, record>>

Poll ==
  /\ pc = "poll"
  /\ IF Satisfied(cmd.state)
     THEN End("ok") /\ UNCHANGED dialog
     ELSE /\ dialog' = Cleared
          /\ IF expired THEN End("timeout") ELSE UNCHANGED <<pc, result>>
  /\ UNCHANGED <<active, policy, cmd, body, expired, appState, target, record>>

-----------------------------------------------------------------------------
(* The device, and time *)

DialogAppears ==
  /\ dialog = "none"
  /\ pc # "idle" => dialogs < MaxDialogs
  /\ dialogs' = IF pc = "idle" THEN dialogs ELSE dialogs + 1
  /\ dialog' \in {"buttons", "bare"}
  /\ UNCHANGED <<agent, appState, target, landed, swallowed, moved>>

\* Somebody closes it; while a handler runs, only the handler does.
DialogCloses ==
  /\ pc = "idle" /\ dialog # "none"
  /\ dialog' = "none"
  /\ UNCHANGED <<agent, appState, target, record>>

\* The application changes the element by itself.
TargetChanges ==
  /\ target' \in {"absent", "disabled", "enabled"} \ {target}
  /\ moved' = TRUE
  /\ UNCHANGED <<agent, appState, dialog, landed, swallowed, dialogs>>

AppChanges(app) ==
  /\ appState' \in [Apps -> {"notRunning", "background", "foreground"}]
  /\ \A a \in Apps \ {app} : appState'[a] = appState[a]
  /\ UNCHANGED <<agent, dialog, target, record>>

\* The timeout of what the handler is waiting for.
Expire ==
  /\ pc \in {"foreground", "resolve", "poll"} /\ ~expired
  /\ expired' = TRUE
  /\ UNCHANGED <<active, policy, pc, cmd, body, result, device, record>>

\* The process ends and another takes its place: whatever was set is gone.
Restart ==
  /\ active' = NoApp /\ policy' = "manual"
  /\ pc' = "idle" /\ result' = "none"
  /\ UNCHANGED <<cmd, body, expired, device, record>>

Handler ==
  \/ ReadState \/ LaunchApp \/ ReachForeground
  \/ ClearFirst \/ Resolve \/ CheckInteractable \/ Touch \/ Settle
  \/ TapCoordinate
  \/ Poll

Next ==
  \/ Request
  \/ Handler
  \/ DialogAppears \/ DialogCloses \/ TargetChanges \/ Expire \/ Restart
  \/ \E app \in Apps : AppChanges(app)

Spec == Init /\ [][Next]_vars

\* A handler runs on, and the time it waits for passes.
FairSpec == Spec /\ WF_vars(Handler) /\ WF_vars(Expire)

-----------------------------------------------------------------------------
\* withInterruptionRecovery: under a policy, a tap that is reported to have
\* succeeded has reached the application, although one dialog may come up at
\* any moment of it - provided that it has buttons, and that nothing but the
\* touch changes the element.
SuccessMeansLanded ==
  [][pc # "idle" /\ pc' = "idle" /\ result' = "ok" /\ cmd.method = "element.tap"
       /\ policy # "manual" /\ dialogs <= 1 /\ dialog # "bare" /\ ~moved
     => landed' > 0]_vars

\* ELEMENT_NOT_FOUND is reported of a tap only when nothing was done.
NotFoundMeansUntouched == result = "notFound" => landed = 0 /\ swallowed = 0

\* Whatever the application and the dialogs do, a handler comes to its end.
HandlersEnd == pc # "idle" ~> pc = "idle"

\* How many more times the handler can move on, at the most, the end of a
\* timeout counted as a step: the body of an interaction is run once more.
StepsLeft ==
  LET Again == IF body = "first" THEN 5 ELSE 0
      Wait  == IF expired THEN 0 ELSE 1
  IN  CASE pc = "clear"        -> Again + 5
        [] pc = "resolve"      -> Again + Wait + 3
        [] pc = "interactable" -> Again + 2
        [] pc = "touch"        -> Again + 1
        [] pc = "settle"       -> Again
        [] pc = "state"        -> 4
        [] pc = "launch"       -> 3
        [] pc \in {"foreground", "poll"} -> Wait + 1
        [] pc = "gesture"      -> 1
        [] OTHER               -> 0

\* A handler runs down: whatever the application and the dialogs do, each of
\* its steps leaves fewer of them, and only a wait whose timeout is not over
\* repeats one (withInterruptionRecovery, waitForElement).
HandlersRunDown ==
  [][pc # "idle" =>
       /\ StepsLeft' \in 0 .. StepsLeft
       /\ Handler => StepsLeft' < StepsLeft \/ (pc = "poll" /\ ~expired)]_vars

\* A launch that fails leaves the active application as it was, and one that
\* succeeds leaves the one it launched.
LaunchIsAtomic ==
  [][pc = "foreground" /\ pc' = "idle" /\ result' # "none"
       => active' = IF result' = "ok" THEN cmd.app ELSE active]_vars

\* A touch reaches the application twice only under a policy, and only when a
\* dialog came up while the interaction ran: nothing else makes
\* withInterruptionRecovery run its body again after a touch.
TwiceOnlyForADialog ==
  [][landed > 0 /\ landed' > landed => policy # "manual" /\ dialogs > 0]_vars
=============================================================================
