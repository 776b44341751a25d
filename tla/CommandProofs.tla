----------------------------- MODULE CommandProofs -----------------------------
(***************************************************************************)
(* Theorems of AgentCommands, for any applications and any number of       *)
(* dialogs: what a reported success, a reported miss and a second touch    *)
(* say about the application under test.                                   *)
(***************************************************************************)
EXTENDS AgentCommands, TLAPS

\* The points of withInterruptionRecovery around a tap.
Recovering == {"clear", "resolve", "interactable", "touch", "settle"}

\* Where each command's handler may be, and under which policy and body.
ControlOK ==
  /\ pc # "idle" => result = "none"
  /\ pc \in Recovering => cmd.method = "element.tap" /\ active # NoApp
  /\ pc = "gesture" => cmd.method = "gesture.tap"
  /\ pc = "poll" => cmd.method = "element.waitFor"
  /\ pc \in {"state", "launch", "foreground"} =>
       cmd.method \in {"app.launch", "app.relaunch"} /\ cmd.app \in Apps
  /\ body # "first" => pc \in {"idle", "resolve", "interactable", "touch"}
  /\ pc = "settle" \/ (pc # "idle" /\ body = "replay") => policy # "manual"

\* A touch has been made at "settle" and in the replay, one; nowhere else
\* before the command ends.
Touched == pc = "settle" \/ (pc # "idle" /\ body = "replay")

TouchesOK ==
  /\ landed + swallowed <= 2
  /\ pc # "idle" => landed + swallowed <= (IF Touched THEN 1 ELSE 0)
  /\ result = "notFound" => landed = 0 /\ swallowed = 0

\* The dialogs that came up pay for every body that is run again, and for the
\* dialog that is there.
DialogsOK ==
  /\ pc # "idle" /\ policy # "manual" /\ pc \in Recovering \ {"clear"} =>
       dialogs >= (IF dialog = "buttons" THEN 1 ELSE 0) + (IF body = "first" THEN 0 ELSE 1)
  /\ pc # "idle" /\ landed > 0 /\ (dialog # "none" \/ body = "replay") => dialogs > 0
  /\ pc = "settle" /\ swallowed > 0 => dialog # "none"

\* An element that nothing but the touch has changed since it was checked.
TargetOK ==
  ~moved =>
    /\ pc = "touch" => target = "enabled"
    /\ pc = "settle" => landed > 0 \/ swallowed > 0
    /\ Touched => landed > 0 \/ target = "enabled"

CommandInv == TypeOK /\ ControlOK /\ TouchesOK /\ DialogsOK /\ TargetOK

\* The types of the three groups of variables.
AgentOK ==
  /\ active \in Apps \cup {NoApp} /\ policy \in Policies /\ pc \in Points /\ cmd \in Command
  /\ body \in {"first", "retry", "replay"} /\ expired \in BOOLEAN /\ result \in Results

DeviceOK ==
  /\ appState \in [Apps -> {"notRunning", "background", "foreground"}]
  /\ dialog \in {"none", "buttons", "bare"} /\ target \in {"absent", "disabled", "enabled"}

RecordOK ==
  /\ landed \in Nat /\ swallowed \in Nat /\ dialogs \in 0 .. MaxDialogs /\ moved \in BOOLEAN

LEMMA TypeParts == TypeOK <=> AgentOK /\ DeviceOK /\ RecordOK /\ landed <= 2 /\ swallowed <= 2
BY CommandsAssumption DEF TypeOK, AgentOK, DeviceOK, RecordOK

LEMMA AgentKept == CommandInv /\ [Next]_vars => AgentOK'
<1> SUFFICES ASSUME CommandInv, [Next]_vars PROVE AgentOK'
  OBVIOUS
<1> USE CommandsAssumption, TypeParts DEF CommandInv
<1>1. CASE Request
  <2>1. PICK method \in Methods, app \in Apps \cup {NoApp}, state \in WaitStates :
          Receive(method, app, state)
    BY <1>1 DEF Request, Launch, OnActive, SetAlertPolicy, ActivateApp, TerminateApp,
                AcceptAlert, Methods, WaitStates
  <2>2. cmd' \in Command /\ body' = "first" /\ expired' = FALSE
    BY <2>1 DEF Receive, Command
  <2>3. active' \in Apps \cup {NoApp} /\ policy' \in Policies
    BY <1>1 DEF Request, Launch, OnActive, SetAlertPolicy, ActivateApp, TerminateApp,
                AcceptAlert, Addressed, AgentOK
  <2>4. pc' \in Points /\ result' \in Results
    BY <1>1 DEF Request, Launch, OnActive, SetAlertPolicy, ActivateApp, TerminateApp,
                AcceptAlert, End, Points, Results
  <2>5. QED
    BY <2>2, <2>3, <2>4 DEF AgentOK
<1>2. CASE ReadState
  BY <1>2 DEF ReadState, record, AgentOK, Points, Results, Policies, Command, Methods,
              WaitStates
<1>3. CASE LaunchApp
  BY <1>3 DEF LaunchApp, Goto, record, AgentOK, Points, Results, Policies, Command, Methods,
              WaitStates
<1>4. CASE ReachForeground
  BY <1>4 DEF ReachForeground, End, device, record, AgentOK, Points, Results, Policies, Command,
              Methods, WaitStates
<1>5. CASE ClearFirst
  BY <1>5 DEF ClearFirst, Goto, Cleared, CanClear, AlertShown, record, AgentOK, Points, Results,
              Policies, Command, Methods, WaitStates
<1>6. CASE Resolve
  <2>1. UNCHANGED <<active, policy, cmd>> /\ pc' \in Points /\ result' \in Results
    BY <1>6 DEF Resolve, Throw, End, AgentOK, Points, Results
  <2>2. body' \in {"first", "retry", "replay"}
    BY <1>6 DEF Resolve, Throw, End, AgentOK
  <2>3. expired' \in BOOLEAN
    BY <1>6, Zenon DEF Resolve, Throw, End, AgentOK
  <2>4. QED
    BY <2>1, <2>2, <2>3 DEF AgentOK
<1>7. CASE CheckInteractable
  <2>1. UNCHANGED <<active, policy, cmd>> /\ pc' \in Points /\ result' \in Results
    BY <1>7 DEF CheckInteractable, Throw, End, AgentOK, Points, Results
  <2>2. body' \in {"first", "retry", "replay"}
    BY <1>7 DEF CheckInteractable, Throw, End, AgentOK
  <2>3. expired' \in BOOLEAN
    BY <1>7, Zenon DEF CheckInteractable, Throw, End, AgentOK
  <2>4. QED
    BY <2>1, <2>2, <2>3 DEF AgentOK
<1>8. CASE Touch
  BY <1>8 DEF Touch, Strike, End, AgentOK, Points, Results, Policies, Command, Methods,
              WaitStates
<1>9. CASE Settle
  <2>1. UNCHANGED <<active, policy, cmd>> /\ pc' \in Points /\ result' \in Results
    BY <1>9 DEF Settle, End, AgentOK, Points, Results
  <2>2. body' \in {"first", "retry", "replay"}
    BY <1>9 DEF Settle, End, AgentOK
  <2>3. expired' \in BOOLEAN
    BY <1>9, Zenon DEF Settle, End, AgentOK
  <2>4. QED
    BY <2>1, <2>2, <2>3 DEF AgentOK
<1>10. CASE TapCoordinate
  BY <1>10 DEF TapCoordinate, Strike, End, AgentOK, Points, Results, Policies, Command, Methods,
               WaitStates
<1>11. CASE Poll
  <2>1. UNCHANGED <<active, policy, cmd>> /\ pc' \in Points /\ result' \in Results
    BY <1>11 DEF Poll, End, AgentOK, Points, Results
  <2>2. body' \in {"first", "retry", "replay"}
    BY <1>11 DEF Poll, End, AgentOK
  <2>3. expired' \in BOOLEAN
    BY <1>11, Zenon DEF Poll, End, AgentOK
  <2>4. QED
    BY <2>1, <2>2, <2>3 DEF AgentOK
<1>12. CASE DialogAppears
  BY <1>12 DEF DialogAppears, agent, AgentOK, Points, Results, Policies, Command, Methods,
               WaitStates
<1>13. CASE DialogCloses
  BY <1>13 DEF DialogCloses, agent, record, AgentOK, Points, Results, Policies, Command,
               Methods, WaitStates
<1>14. CASE TargetChanges
  BY <1>14 DEF TargetChanges, agent, AgentOK, Points, Results, Policies, Command, Methods,
               WaitStates
<1>15. CASE Expire
  BY <1>15 DEF Expire, device, record, AgentOK, Points, Results, Policies, Command, Methods,
               WaitStates
<1>16. CASE Restart
  BY <1>16 DEF Restart, device, record, AgentOK, Points, Results, Policies, Command, Methods,
               WaitStates
<1>17. ASSUME NEW app \in Apps, AppChanges(app) PROVE AgentOK'
  BY <1>17 DEF AppChanges, agent, record, AgentOK, Points, Results, Policies, Command, Methods,
               WaitStates
<1>18. CASE UNCHANGED vars
  BY <1>18 DEF vars, agent, device, record, AgentOK, Points, Results, Policies, Command,
               Methods, WaitStates
<1>19. QED
  BY <1>1, <1>2, <1>3, <1>4, <1>5, <1>6, <1>7, <1>8, <1>9, <1>10, <1>11, <1>12, <1>13, <1>14,
     <1>15, <1>16, <1>17, <1>18
     DEF Next, Handler

LEMMA DeviceKept == CommandInv /\ [Next]_vars => DeviceOK'
<1> SUFFICES ASSUME CommandInv, [Next]_vars PROVE DeviceOK'
  OBVIOUS
<1> USE CommandsAssumption, TypeParts DEF CommandInv
<1>1. CASE Request
  BY <1>1 DEF Request, Launch, OnActive, SetAlertPolicy, ActivateApp, TerminateApp, AcceptAlert,
              Addressed, Receive, End, device, DeviceOK
<1>2. CASE ReadState
  BY <1>2 DEF ReadState, record, DeviceOK
<1>3. CASE LaunchApp
  BY <1>3 DEF LaunchApp, Goto, record, DeviceOK
<1>4. CASE ReachForeground
  BY <1>4 DEF ReachForeground, End, device, record, DeviceOK
<1>5. CASE ClearFirst
  BY <1>5 DEF ClearFirst, Goto, Cleared, CanClear, AlertShown, record, DeviceOK
<1>6. CASE Resolve
  BY <1>6 DEF Resolve, Throw, Cleared, CanClear, AlertShown, End, DeviceOK
<1>7. CASE CheckInteractable
  BY <1>7 DEF CheckInteractable, Throw, Cleared, CanClear, AlertShown, End, record, DeviceOK
<1>8. CASE Touch
  BY <1>8 DEF Touch, Strike, End, DeviceOK
<1>9. CASE Settle
  BY <1>9 DEF Settle, Cleared, CanClear, AlertShown, End, record, DeviceOK
<1>10. CASE TapCoordinate
  BY <1>10 DEF TapCoordinate, Strike, End, DeviceOK
<1>11. CASE Poll
  BY <1>11 DEF Poll, Satisfied, Hittable, Cleared, CanClear, AlertShown, End, record, DeviceOK
<1>12. CASE DialogAppears
  BY <1>12 DEF DialogAppears, agent, DeviceOK
<1>13. CASE DialogCloses
  BY <1>13 DEF DialogCloses, agent, record, DeviceOK
<1>14. CASE TargetChanges
  BY <1>14 DEF TargetChanges, agent, DeviceOK
<1>15. CASE Expire
  BY <1>15 DEF Expire, device, record, DeviceOK
<1>16. CASE Restart
  BY <1>16 DEF Restart, device, record, DeviceOK
<1>17. ASSUME NEW app \in Apps, AppChanges(app) PROVE DeviceOK'
  BY <1>17 DEF AppChanges, agent, record, DeviceOK
<1>18. CASE UNCHANGED vars
  BY <1>18 DEF vars, agent, device, record, DeviceOK
<1>19. QED
  BY <1>1, <1>2, <1>3, <1>4, <1>5, <1>6, <1>7, <1>8, <1>9, <1>10, <1>11, <1>12, <1>13, <1>14,
     <1>15, <1>16, <1>17, <1>18
     DEF Next, Handler

LEMMA RecordKept == CommandInv /\ [Next]_vars => RecordOK'
<1> SUFFICES ASSUME CommandInv, [Next]_vars PROVE RecordOK'
  OBVIOUS
<1> USE CommandsAssumption, TypeParts DEF CommandInv
<1>1. CASE Request
  <2>1. landed' = 0 /\ swallowed' = 0 /\ dialogs' = 0 /\ moved' = FALSE
    BY <1>1 DEF Request, Launch, OnActive, SetAlertPolicy, ActivateApp, TerminateApp,
                AcceptAlert, Receive
  <2>2. 0 \in 0 .. MaxDialogs
    OBVIOUS
  <2>3. QED
    BY <2>1, <2>2 DEF RecordOK
<1>2. CASE ReadState
  BY <1>2 DEF ReadState, record, RecordOK
<1>3. CASE LaunchApp
  BY <1>3 DEF LaunchApp, Goto, record, RecordOK
<1>4. CASE ReachForeground
  BY <1>4 DEF ReachForeground, End, device, record, RecordOK
<1>5. CASE ClearFirst
  BY <1>5 DEF ClearFirst, Goto, Cleared, CanClear, AlertShown, record, RecordOK
<1>6. CASE Resolve
  BY <1>6 DEF Resolve, Throw, Cleared, CanClear, AlertShown, End, RecordOK
<1>7. CASE CheckInteractable
  BY <1>7 DEF CheckInteractable, Throw, Cleared, CanClear, AlertShown, End, record, RecordOK
<1>8. CASE Touch
  BY <1>8 DEF Touch, Strike, End, RecordOK
<1>9. CASE Settle
  BY <1>9 DEF Settle, Cleared, CanClear, AlertShown, End, record, RecordOK
<1>10. CASE TapCoordinate
  BY <1>10 DEF TapCoordinate, Strike, End, RecordOK
<1>11. CASE Poll
  BY <1>11 DEF Poll, Satisfied, Hittable, Cleared, CanClear, AlertShown, End, record, RecordOK
<1>12. CASE DialogAppears
  BY <1>12 DEF DialogAppears, agent, RecordOK
<1>13. CASE DialogCloses
  BY <1>13 DEF DialogCloses, agent, record, RecordOK
<1>14. CASE TargetChanges
  BY <1>14 DEF TargetChanges, agent, RecordOK
<1>15. CASE Expire
  BY <1>15 DEF Expire, device, record, RecordOK
<1>16. CASE Restart
  BY <1>16 DEF Restart, device, record, RecordOK
<1>17. ASSUME NEW app \in Apps, AppChanges(app) PROVE RecordOK'
  BY <1>17 DEF AppChanges, agent, record, RecordOK
<1>18. CASE UNCHANGED vars
  BY <1>18 DEF vars, agent, device, record, RecordOK
<1>19. QED
  BY <1>1, <1>2, <1>3, <1>4, <1>5, <1>6, <1>7, <1>8, <1>9, <1>10, <1>11, <1>12, <1>13, <1>14,
     <1>15, <1>16, <1>17, <1>18
     DEF Next, Handler

LEMMA ControlKept == CommandInv /\ [Next]_vars => ControlOK'
<1> SUFFICES ASSUME CommandInv, [Next]_vars PROVE ControlOK'
  OBVIOUS
<1> USE CommandsAssumption DEF CommandInv
<1>1. CASE Request
  BY <1>1 DEF Request, Launch, OnActive, SetAlertPolicy, ActivateApp, TerminateApp, AcceptAlert,
              Addressed, Receive, End, device, ControlOK, Recovering, TypeOK, Command
<1>2. CASE ReadState
  BY <1>2 DEF ReadState, record, ControlOK, Recovering, TypeOK, Command
<1>3. CASE LaunchApp
  BY <1>3 DEF LaunchApp, Goto, record, ControlOK, Recovering, TypeOK, Command
<1>4. CASE ReachForeground
  BY <1>4 DEF ReachForeground, End, device, record, ControlOK, Recovering, TypeOK, Command
<1>5. CASE ClearFirst
  BY <1>5 DEF ClearFirst, Goto, Cleared, CanClear, AlertShown, record, ControlOK, Recovering,
              TypeOK, Command
<1>6. CASE Resolve
  BY <1>6 DEF Resolve, Throw, Cleared, CanClear, AlertShown, End, ControlOK, Recovering, TypeOK,
              Command
<1>7. CASE CheckInteractable
  BY <1>7 DEF CheckInteractable, Throw, Cleared, CanClear, AlertShown, End, record, ControlOK,
              Recovering, TypeOK, Command
<1>8. CASE Touch
  BY <1>8 DEF Touch, Strike, End, ControlOK, Recovering, TypeOK, Command
<1>9. CASE Settle
  BY <1>9 DEF Settle, Cleared, CanClear, AlertShown, End, record, ControlOK, Recovering, TypeOK,
              Command
<1>10. CASE TapCoordinate
  BY <1>10 DEF TapCoordinate, Strike, End, ControlOK, Recovering, TypeOK, Command
<1>11. CASE Poll
  BY <1>11 DEF Poll, Satisfied, Hittable, Cleared, CanClear, AlertShown, End, record, ControlOK,
               Recovering, TypeOK, Command
<1>12. CASE DialogAppears
  BY <1>12 DEF DialogAppears, agent, ControlOK, Recovering, TypeOK, Command
<1>13. CASE DialogCloses
  BY <1>13 DEF DialogCloses, agent, record, ControlOK, Recovering, TypeOK, Command
<1>14. CASE TargetChanges
  BY <1>14 DEF TargetChanges, agent, ControlOK, Recovering, TypeOK, Command
<1>15. CASE Expire
  BY <1>15 DEF Expire, device, record, ControlOK, Recovering, TypeOK, Command
<1>16. CASE Restart
  BY <1>16 DEF Restart, device, record, ControlOK, Recovering, TypeOK, Command
<1>17. ASSUME NEW app \in Apps, AppChanges(app) PROVE ControlOK'
  BY <1>17 DEF AppChanges, agent, record, ControlOK, Recovering, TypeOK, Command
<1>18. CASE UNCHANGED vars
  BY <1>18 DEF vars, agent, device, record, ControlOK, Recovering, TypeOK, Command
<1>19. QED
  BY <1>1, <1>2, <1>3, <1>4, <1>5, <1>6, <1>7, <1>8, <1>9, <1>10, <1>11, <1>12, <1>13, <1>14,
     <1>15, <1>16, <1>17, <1>18
     DEF Next, Handler

LEMMA TouchesKept == CommandInv /\ [Next]_vars => TouchesOK'
<1> SUFFICES ASSUME CommandInv, [Next]_vars PROVE TouchesOK'
  OBVIOUS
<1> USE CommandsAssumption DEF CommandInv
<1>1. CASE Request
  BY <1>1 DEF Request, Launch, OnActive, SetAlertPolicy, ActivateApp, TerminateApp, AcceptAlert,
              Addressed, Receive, End, device, TouchesOK, Touched, ControlOK, TypeOK
<1>2. CASE ReadState
  BY <1>2 DEF ReadState, record, TouchesOK, Touched, ControlOK, TypeOK
<1>3. CASE LaunchApp
  BY <1>3 DEF LaunchApp, Goto, record, TouchesOK, Touched, ControlOK, TypeOK
<1>4. CASE ReachForeground
  BY <1>4 DEF ReachForeground, End, device, record, TouchesOK, Touched, ControlOK, TypeOK
<1>5. CASE ClearFirst
  BY <1>5 DEF ClearFirst, Goto, Cleared, CanClear, AlertShown, record, TouchesOK, Touched,
              ControlOK, TypeOK
<1>6. CASE Resolve
  BY <1>6 DEF Resolve, Throw, Cleared, CanClear, AlertShown, End, TouchesOK, Touched, ControlOK,
              TypeOK
<1>7. CASE CheckInteractable
  BY <1>7 DEF CheckInteractable, Throw, Cleared, CanClear, AlertShown, End, record, TouchesOK,
              Touched, ControlOK, TypeOK
<1>8. CASE Touch
  BY <1>8 DEF Touch, Strike, End, TouchesOK, Touched, ControlOK, TypeOK
<1>9. CASE Settle
  BY <1>9 DEF Settle, Cleared, CanClear, AlertShown, End, record, TouchesOK, Touched, ControlOK,
              TypeOK
<1>10. CASE TapCoordinate
  BY <1>10 DEF TapCoordinate, Strike, End, TouchesOK, Touched, ControlOK, TypeOK
<1>11. CASE Poll
  BY <1>11 DEF Poll, Satisfied, Hittable, Cleared, CanClear, AlertShown, End, record, TouchesOK,
               Touched, ControlOK, TypeOK
<1>12. CASE DialogAppears
  BY <1>12 DEF DialogAppears, agent, TouchesOK, Touched, ControlOK, TypeOK
<1>13. CASE DialogCloses
  BY <1>13 DEF DialogCloses, agent, record, TouchesOK, Touched, ControlOK, TypeOK
<1>14. CASE TargetChanges
  BY <1>14 DEF TargetChanges, agent, TouchesOK, Touched, ControlOK, TypeOK
<1>15. CASE Expire
  BY <1>15 DEF Expire, device, record, TouchesOK, Touched, ControlOK, TypeOK
<1>16. CASE Restart
  BY <1>16 DEF Restart, device, record, TouchesOK, Touched, ControlOK, TypeOK
<1>17. ASSUME NEW app \in Apps, AppChanges(app) PROVE TouchesOK'
  BY <1>17 DEF AppChanges, agent, record, TouchesOK, Touched, ControlOK, TypeOK
<1>18. CASE UNCHANGED vars
  BY <1>18 DEF vars, agent, device, record, TouchesOK, Touched, ControlOK, TypeOK
<1>19. QED
  BY <1>1, <1>2, <1>3, <1>4, <1>5, <1>6, <1>7, <1>8, <1>9, <1>10, <1>11, <1>12, <1>13, <1>14,
     <1>15, <1>16, <1>17, <1>18
     DEF Next, Handler

LEMMA DialogsKept == CommandInv /\ [Next]_vars => DialogsOK'
<1> SUFFICES ASSUME CommandInv, [Next]_vars PROVE DialogsOK'
  OBVIOUS
<1> USE CommandsAssumption DEF CommandInv
<1>1. CASE Request
  BY <1>1 DEF Request, Launch, OnActive, SetAlertPolicy, ActivateApp, TerminateApp, AcceptAlert,
              Addressed, Receive, End, device, DialogsOK, ControlOK, TouchesOK, Touched,
              Recovering, TypeOK
<1>2. CASE ReadState
  BY <1>2 DEF ReadState, record, DialogsOK, ControlOK, TouchesOK, Touched, Recovering, TypeOK
<1>3. CASE LaunchApp
  BY <1>3 DEF LaunchApp, Goto, record, DialogsOK, ControlOK, TouchesOK, Touched, Recovering,
              TypeOK
<1>4. CASE ReachForeground
  BY <1>4 DEF ReachForeground, End, device, record, DialogsOK, ControlOK, TouchesOK, Touched,
              Recovering, TypeOK
<1>5. CASE ClearFirst
  BY <1>5 DEF ClearFirst, Goto, Cleared, CanClear, AlertShown, record, DialogsOK, ControlOK,
              TouchesOK, Touched, Recovering, TypeOK
<1>6. CASE Resolve
  BY <1>6 DEF Resolve, Throw, Cleared, CanClear, AlertShown, End, DialogsOK, ControlOK,
              TouchesOK, Touched, Recovering, TypeOK
<1>7. CASE CheckInteractable
  BY <1>7 DEF CheckInteractable, Throw, Cleared, CanClear, AlertShown, End, record, DialogsOK,
              ControlOK, TouchesOK, Touched, Recovering, TypeOK
<1>8. CASE Touch
  BY <1>8 DEF Touch, Strike, End, DialogsOK, ControlOK, TouchesOK, Touched, Recovering, TypeOK
<1>9. CASE Settle
  BY <1>9 DEF Settle, Cleared, CanClear, AlertShown, End, record, DialogsOK, ControlOK,
              TouchesOK, Touched, Recovering, TypeOK
<1>10. CASE TapCoordinate
  BY <1>10 DEF TapCoordinate, Strike, End, DialogsOK, ControlOK, TouchesOK, Touched, Recovering,
               TypeOK
<1>11. CASE Poll
  BY <1>11 DEF Poll, Satisfied, Hittable, Cleared, CanClear, AlertShown, End, record, DialogsOK,
               ControlOK, TouchesOK, Touched, Recovering, TypeOK
<1>12. CASE DialogAppears
  BY <1>12 DEF DialogAppears, agent, DialogsOK, ControlOK, TouchesOK, Touched, Recovering,
               TypeOK
<1>13. CASE DialogCloses
  BY <1>13 DEF DialogCloses, agent, record, DialogsOK, ControlOK, TouchesOK, Touched,
               Recovering, TypeOK
<1>14. CASE TargetChanges
  BY <1>14 DEF TargetChanges, agent, DialogsOK, ControlOK, TouchesOK, Touched, Recovering,
               TypeOK
<1>15. CASE Expire
  BY <1>15 DEF Expire, device, record, DialogsOK, ControlOK, TouchesOK, Touched, Recovering,
               TypeOK
<1>16. CASE Restart
  BY <1>16 DEF Restart, device, record, DialogsOK, ControlOK, TouchesOK, Touched, Recovering,
               TypeOK
<1>17. ASSUME NEW app \in Apps, AppChanges(app) PROVE DialogsOK'
  BY <1>17 DEF AppChanges, agent, record, DialogsOK, ControlOK, TouchesOK, Touched, Recovering,
               TypeOK
<1>18. CASE UNCHANGED vars
  BY <1>18 DEF vars, agent, device, record, DialogsOK, ControlOK, TouchesOK, Touched,
               Recovering, TypeOK
<1>19. QED
  BY <1>1, <1>2, <1>3, <1>4, <1>5, <1>6, <1>7, <1>8, <1>9, <1>10, <1>11, <1>12, <1>13, <1>14,
     <1>15, <1>16, <1>17, <1>18
     DEF Next, Handler

LEMMA TargetKept == CommandInv /\ [Next]_vars => TargetOK'
<1> SUFFICES ASSUME CommandInv, [Next]_vars PROVE TargetOK'
  OBVIOUS
<1> USE CommandsAssumption DEF CommandInv
<1>1. CASE Request
  BY <1>1 DEF Request, Launch, OnActive, SetAlertPolicy, ActivateApp, TerminateApp, AcceptAlert,
              Addressed, Receive, End, device, TargetOK, Touched, TouchesOK, DialogsOK,
              ControlOK, TypeOK, Recovering
<1>2. CASE ReadState
  BY <1>2 DEF ReadState, record, TargetOK, Touched, TouchesOK, DialogsOK, ControlOK, TypeOK,
              Recovering
<1>3. CASE LaunchApp
  BY <1>3 DEF LaunchApp, Goto, record, TargetOK, Touched, TouchesOK, DialogsOK, ControlOK,
              TypeOK, Recovering
<1>4. CASE ReachForeground
  BY <1>4 DEF ReachForeground, End, device, record, TargetOK, Touched, TouchesOK, DialogsOK,
              ControlOK, TypeOK, Recovering
<1>5. CASE ClearFirst
  BY <1>5 DEF ClearFirst, Goto, Cleared, CanClear, AlertShown, record, TargetOK, Touched,
              TouchesOK, DialogsOK, ControlOK, TypeOK, Recovering
<1>6. CASE Resolve
  BY <1>6 DEF Resolve, Throw, Cleared, CanClear, AlertShown, End, TargetOK, Touched, TouchesOK,
              DialogsOK, ControlOK, TypeOK, Recovering
<1>7. CASE CheckInteractable
  BY <1>7 DEF CheckInteractable, Throw, Cleared, CanClear, AlertShown, End, record, TargetOK,
              Touched, TouchesOK, DialogsOK, ControlOK, TypeOK, Recovering
<1>8. CASE Touch
  BY <1>8 DEF Touch, Strike, End, TargetOK, Touched, TouchesOK, DialogsOK, ControlOK, TypeOK,
              Recovering
<1>9. CASE Settle
  BY <1>9 DEF Settle, Cleared, CanClear, AlertShown, End, record, TargetOK, Touched, TouchesOK,
              DialogsOK, ControlOK, TypeOK, Recovering
<1>10. CASE TapCoordinate
  BY <1>10 DEF TapCoordinate, Strike, End, TargetOK, Touched, TouchesOK, DialogsOK, ControlOK,
               TypeOK, Recovering
<1>11. CASE Poll
  BY <1>11 DEF Poll, Satisfied, Hittable, Cleared, CanClear, AlertShown, End, record, TargetOK,
               Touched, TouchesOK, DialogsOK, ControlOK, TypeOK, Recovering
<1>12. CASE DialogAppears
  BY <1>12 DEF DialogAppears, agent, TargetOK, Touched, TouchesOK, DialogsOK, ControlOK, TypeOK,
               Recovering
<1>13. CASE DialogCloses
  BY <1>13 DEF DialogCloses, agent, record, TargetOK, Touched, TouchesOK, DialogsOK, ControlOK,
               TypeOK, Recovering
<1>14. CASE TargetChanges
  BY <1>14 DEF TargetChanges, agent, TargetOK, Touched, TouchesOK, DialogsOK, ControlOK, TypeOK,
               Recovering
<1>15. CASE Expire
  BY <1>15 DEF Expire, device, record, TargetOK, Touched, TouchesOK, DialogsOK, ControlOK,
               TypeOK, Recovering
<1>16. CASE Restart
  BY <1>16 DEF Restart, device, record, TargetOK, Touched, TouchesOK, DialogsOK, ControlOK,
               TypeOK, Recovering
<1>17. ASSUME NEW app \in Apps, AppChanges(app) PROVE TargetOK'
  BY <1>17 DEF AppChanges, agent, record, TargetOK, Touched, TouchesOK, DialogsOK, ControlOK,
               TypeOK, Recovering
<1>18. CASE UNCHANGED vars
  BY <1>18 DEF vars, agent, device, record, TargetOK, Touched, TouchesOK, DialogsOK, ControlOK,
               TypeOK, Recovering
<1>19. QED
  BY <1>1, <1>2, <1>3, <1>4, <1>5, <1>6, <1>7, <1>8, <1>9, <1>10, <1>11, <1>12, <1>13, <1>14,
     <1>15, <1>16, <1>17, <1>18
     DEF Next, Handler

LEMMA CommandInvariant == Spec => []CommandInv
<1>1. Init => CommandInv
  <2> SUFFICES ASSUME Init PROVE CommandInv
    OBVIOUS
  <2>1. cmd \in Command
    BY DEF Init, Command, Methods, WaitStates
  <2>2. AgentOK
    BY <2>1 DEF Init, AgentOK, Points, Results, Policies
  <2>3. DeviceOK
    BY DEF Init, DeviceOK
  <2>4. RecordOK /\ landed = 0 /\ swallowed = 0
    <3>1. landed = 0 /\ swallowed = 0 /\ dialogs = 0 /\ moved = FALSE
      BY DEF Init
    <3>2. 0 \in 0 .. MaxDialogs
      BY CommandsAssumption
    <3>3. QED
      BY <3>1, <3>2 DEF RecordOK
  <2>5. TypeOK
    BY <2>2, <2>3, <2>4, TypeParts
  <2>6. QED
    BY <2>5 DEF Init, CommandInv, ControlOK, TouchesOK, DialogsOK, TargetOK, Touched, Recovering
<1>2. CommandInv /\ [Next]_vars => CommandInv'
  <2> SUFFICES ASSUME CommandInv, [Next]_vars PROVE CommandInv'
    OBVIOUS
  <2>1. TouchesOK' /\ RecordOK' /\ AgentOK' /\ DeviceOK'
    BY TouchesKept, RecordKept, AgentKept, DeviceKept
  <2>2. landed' <= 2 /\ swallowed' <= 2
    <3>1. /\ landed' \in Nat
          /\ swallowed' \in Nat
          /\ landed' + swallowed' <= 2
      BY <2>1 DEF TouchesOK, RecordOK
    <3>2. \A a, b \in Nat : a + b <= 2 => a <= 2 /\ b <= 2
      OBVIOUS
    <3>3. QED
      BY <3>1, <3>2
  <2>3. TypeOK'
    BY <2>1, <2>2, CommandsAssumption DEF TypeOK, AgentOK, DeviceOK, RecordOK
  <2>4. QED
    BY <2>1, <2>3, ControlKept, DialogsKept, TargetKept DEF CommandInv
<1>3. QED
  BY <1>1, <1>2, PTL DEF Spec

\* Whatever the application, the dialogs and the clock do, a handler stays
\* within its points and a command touches the application twice at most.
THEOREM CommandTypeCorrect == Spec => []TypeOK
<1>1. CommandInv => TypeOK
  BY DEF CommandInv
<1>2. QED
  BY <1>1, CommandInvariant, PTL

\* ELEMENT_NOT_FOUND is the answer to a tap only when neither the application
\* nor a dialog was touched: the caller may safely try again
\* (ElementCommands.swift, withInterruptionRecovery).
THEOREM MissedMeansUntouched == Spec => []NotFoundMeansUntouched
<1>1. CommandInv => NotFoundMeansUntouched
  BY DEF CommandInv, TouchesOK, NotFoundMeansUntouched
<1>2. QED
  BY <1>1, CommandInvariant, PTL

\* Under a policy, a tap that is reported to have succeeded has reached the
\* application, however often the body was run again: one dialog at most, with
\* buttons, and an element that nothing but the touch changes are all it takes.
THEOREM ReportedTapsLanded == Spec => SuccessMeansLanded
<1>1. ASSUME CommandInv, [Next]_vars,
             pc # "idle", pc' = "idle", result' = "ok", cmd.method = "element.tap",
             policy # "manual", dialogs <= 1, dialog # "bare", ~moved
      PROVE  landed' > 0
  <2> USE <1>1 DEF CommandInv
  <2>1. pc \in Recovering
    BY DEF TypeOK, ControlOK, Points, Recovering
  <2>2. CASE Touch
    BY <2>1, <2>2 DEF Touch, Strike, End, ControlOK, TouchesOK, DialogsOK, TargetOK, Touched,
                      TypeOK, Recovering
  <2>3. CASE Settle
    BY <2>1, <2>3 DEF Settle, CanClear, AlertShown, End, ControlOK, TouchesOK, DialogsOK,
                      TargetOK, Touched, TypeOK, Recovering, record
  <2>4. CASE Resolve
    BY <2>1, <2>4 DEF Resolve, Throw, End, ControlOK, TargetOK, Touched, TypeOK
  <2>5. CASE CheckInteractable
    BY <2>5 DEF CheckInteractable, Throw, End, TypeOK
  <2>6. ~Request /\ ~ReadState /\ ~LaunchApp /\ ~ReachForeground /\ ~ClearFirst
        /\ ~TapCoordinate /\ ~Poll
    BY <2>1 DEF Request, Launch, OnActive, SetAlertPolicy, ActivateApp, TerminateApp,
                AcceptAlert, Receive, ReadState, LaunchApp, ReachForeground, ClearFirst,
                TapCoordinate, Poll, Goto, Recovering
  <2>7. ~DialogAppears /\ ~DialogCloses /\ ~TargetChanges /\ ~Expire /\ ~Restart
        /\ (\A app \in Apps : ~AppChanges(app)) /\ ~UNCHANGED vars
    BY DEF DialogAppears, DialogCloses, TargetChanges, Expire, Restart, AppChanges, agent, vars
  <2>8. QED
    BY <2>2, <2>3, <2>4, <2>5, <2>6, <2>7 DEF Next, Handler
<1>2. QED
  BY <1>1, CommandInvariant, PTL DEF Spec, SuccessMeansLanded

\* The application is touched twice by one command only under a policy, and
\* only when a dialog came up while the interaction ran: for any number of
\* dialogs, nothing else makes withInterruptionRecovery touch again.
THEOREM SecondTouchNeedsADialog == Spec => TwiceOnlyForADialog
<1>1. ASSUME CommandInv, [Next]_vars, landed > 0, landed' > landed
      PROVE  policy # "manual" /\ dialogs > 0
  <2> USE <1>1 DEF CommandInv
  <2>1. CASE Touch
    BY <2>1 DEF Touch, Strike, ControlOK, TouchesOK, DialogsOK, Touched, TypeOK
  <2>2. CASE TapCoordinate
    BY <2>2 DEF TapCoordinate, TouchesOK, ControlOK, Touched, TypeOK
  <2>3. ~Request
    <3>1. Request => landed' = 0
      BY DEF Request, Launch, OnActive, SetAlertPolicy, ActivateApp, TerminateApp, AcceptAlert,
             Receive
    <3>2. QED
      BY <3>1 DEF TypeOK
  <2>4. CASE landed' = landed
    BY <2>4 DEF TypeOK
  <2>5. QED
    BY <2>1, <2>2, <2>3, <2>4 DEF Next, Handler, ReadState, LaunchApp, ReachForeground,
                                  ClearFirst, Resolve, CheckInteractable, Settle, Poll,
                                  DialogAppears, DialogCloses, TargetChanges, Expire, Restart,
                                  AppChanges, record, vars
<1>2. QED
  BY <1>1, CommandInvariant, PTL DEF Spec, TwiceOnlyForADialog

\* A launch that fails leaves the active application as it was, one that
\* succeeds leaves the one it launched, whatever the application does on its
\* way up and however long it takes (launchApp).
THEOREM LaunchesAreAtomic == Spec => LaunchIsAtomic
<1>1. ASSUME [Next]_vars, pc = "foreground", pc' = "idle", result' # "none"
      PROVE  active' = IF result' = "ok" THEN cmd.app ELSE active
  <2>1. CASE ReachForeground
    BY <2>1 DEF ReachForeground, End
  <2>2. ~Request /\ ~Restart
    BY <1>1 DEF Request, Launch, OnActive, SetAlertPolicy, ActivateApp, TerminateApp,
                AcceptAlert, Receive, Restart
  <2>3. ReachForeground
    BY <1>1, <2>2 DEF Next, Handler, ReadState, LaunchApp, ClearFirst, Resolve,
                      CheckInteractable, Touch, Settle, TapCoordinate, Poll, Goto,
                      DialogAppears, DialogCloses, TargetChanges, Expire, AppChanges, agent,
                      vars
  <2>4. QED
    BY <2>1, <2>3
<1>2. QED
  BY <1>1, PTL DEF Spec, LaunchIsAtomic


LEMMA StepsLeftAreCounted == StepsLeft \in Nat /\ StepsLeft' \in Nat
<1>1. StepsLeft \in Nat
  BY DEF StepsLeft
<1>2. StepsLeft' \in Nat
  BY DEF StepsLeft
<1> QED
  BY <1>1, <1>2

\* A step of the handler moves it on, unless it is a wait that goes on.
LEMMA HandlerMovesOn ==
  ASSUME CommandInv, Handler
  PROVE  \/ StepsLeft' < StepsLeft
         \/ pc = "poll" /\ ~expired /\ StepsLeft' = StepsLeft
<1> USE DEF StepsLeft, End
<1>0. body \in {"first", "retry", "replay"} /\ expired \in BOOLEAN
  BY DEF CommandInv, TypeOK
<1>1. CASE ReadState
  BY <1>0, <1>1 DEF ReadState
<1>2. CASE LaunchApp
  BY <1>0, <1>2 DEF LaunchApp, Goto
<1>3. CASE ReachForeground
  BY <1>0, <1>3 DEF ReachForeground
<1>4. CASE ClearFirst
  BY <1>0, <1>4 DEF ClearFirst, Goto
<1>5. CASE Resolve
  BY <1>0, <1>5 DEF Resolve, Throw
<1>6. CASE CheckInteractable
  BY <1>0, <1>6 DEF CheckInteractable, Throw
<1>7. CASE Touch
  BY <1>0, <1>7 DEF Touch
<1>8. CASE Settle
  <2>1. body = "first"
    BY <1>8 DEF Settle, CommandInv, ControlOK
  <2>2. QED
    BY <1>8, <2>1 DEF Settle
<1>9. CASE TapCoordinate
  BY <1>9 DEF TapCoordinate
<1>10. CASE Poll
  BY <1>0, <1>10 DEF Poll
<1> QED
  BY <1>1, <1>2, <1>3, <1>4, <1>5, <1>6, <1>7, <1>8, <1>9, <1>10 DEF Handler

\* For any number of dialogs and applications: a handler has a last step.  What
\* is left to fairness is that it takes its steps and that time passes.
THEOREM HandlersComeToAnEnd == Spec => HandlersRunDown
<1>1. ASSUME CommandInv, [Next]_vars, pc # "idle"
      PROVE  /\ StepsLeft' \in 0 .. StepsLeft
             /\ Handler => StepsLeft' < StepsLeft \/ (pc = "poll" /\ ~expired)
  <2>1. CASE Handler
    BY <1>1, <2>1, HandlerMovesOn, StepsLeftAreCounted
  <2>2. CASE ~Handler
    <3>1. ~Request
      BY <1>1 DEF Request, Launch, OnActive, SetAlertPolicy, ActivateApp, TerminateApp,
                  AcceptAlert, Receive
    <3>2. CASE UNCHANGED <<pc, body, expired>>
      <4>1. StepsLeft' = StepsLeft
        BY <3>2 DEF StepsLeft
      <4>2. QED
        BY <2>2, <4>1, StepsLeftAreCounted
    <3>3. CASE Expire
      <4>1. StepsLeft' <= StepsLeft
        BY <3>3 DEF Expire, StepsLeft
      <4>2. QED
        BY <2>2, <4>1, StepsLeftAreCounted
    <3>4. CASE Restart
      <4>1. StepsLeft' = 0
        BY <3>4 DEF Restart, StepsLeft
      <4>2. QED
        BY <2>2, <4>1, StepsLeftAreCounted
    <3>5. QED
      BY <1>1, <2>2, <3>1, <3>2, <3>3, <3>4 DEF Next, DialogAppears, DialogCloses,
                                            TargetChanges, AppChanges, agent, vars
  <2>3. QED
    BY <2>1, <2>2
<1>2. QED
  BY <1>1, CommandInvariant, PTL DEF Spec, HandlersRunDown
================================================================================
