# A TLA+ verification project for sandstorm-ios-driver

Sandstorm drives an iPhone or a simulator: a Swift agent inside an XCTest run
executes commands it receives over TCP from a Python client, and a Python
controller builds, launches and supervises that XCTest run. An inspector shows
what the device shows and records a test from what is done with it. This
directory models the parts of these that run concurrently, fail independently,
or must agree with each other although they are separate programs, checks them
with TLC, and proves the central safety properties with TLAPS.

## 1. The system

| Part | State | Operations | Interacts with |
|---|---|---|---|
| `IOSControllerClient` (`transport.py`) | socket and reader, handshake, RLock, id counter | `connect`, `close`, `invoke`, `ping`, `is_healthy` | calls of any number of threads; the agent over TCP |
| framing, messages, errors | the bytes of a frame not read yet | `read_frame`, `encode_frame`, `from_wire` | the client |
| `IOSSession`, `IOSDevice` | whether there is a session | `connect`, `invoke`, `ping`, `stop_agent`, `close` | the client |
| `CommandServer`, `AgentConnection` | queue of commands, connections, handshake flag of each | `accept`, `receive`, `handle`, `performHandshake`, `dequeue`, `stop` | its serial network queue; the XCTest thread through `pending` |
| XCTest loop (`AutomationServerTests`) | last activity | pump, drain, idle shutdown | `dequeue`, `router.handle`, `send` |
| `CommandRouter` and handlers | active application, alert policy, stop flag, cached screen bounds | one per protocol method | XCUITest; called on the XCTest thread, and by a handshake on the network queue |
| `FrameCodec` | a byte buffer | `append`, `nextFrame` | `AgentConnection.receive` |
| `AgentRunner`, `AgentHandle` (`agent.py`) | process, ready and crash events, fatal error, stop flag | `start`, `stop`, `_spawn`, `_pump_output`, the supervisor | xcodebuild's output, the tunnel |
| `terminate_stale_runners` | none | kill what `ps` lists | other controllers on this machine |
| `Tunnel` (`tunnel.py`) | the forwarder process | `open_tunnel`, `wait_for_port`, `close` | iproxy or pymobiledevice3 |
| `sandstorm ios setup` (`cli.py`, `AgentBuilder`, project generator) | the Xcode project and scheme, build products on disk | choose, configure, check, build, locate | xcodebuild; other setups and all sessions through the files |
| `sandstorm ios start` | the patched `.xctestrun`, a supervisor, an xcodebuild process | clear the device, locate, patch, start, restart, stop | other sessions through `ps`, signals and the file |
| devices, profiles (`devices.py`, `profiles.py`) | none | discover, resolve; match identifiers | simctl, devicectl, pymobiledevice3 |
| locators, pages, selectors (SDK) | none but cached geometry | waits, gestures | `IOSSession.invoke` |
| Inspector window (`app.py`) | snapshot, screenshot, selection, dialogs, timer | connect, refresh, select, act, close | the SDK, the recorder |
| recorder (`recorder.py`) | recorded steps | record, undo, clear, generate | the window's list and preview |
| locator suggestions (`locators.py`, `hierarchy.py`) | none | `recommend`, `best_locator`, `hit_test` | the snapshot; the agent's `ElementResolver` decides |

What is hard in it:

* **Retries.** `invoke` cannot know whether a command whose reply did not
  come was executed, and sends it again, under another id and over another
  connection, while the first copy may still be on its way.
* **Correlation.** Several threads share one socket; interrupted and timed out
  calls leave replies behind.
* **Two threads in the agent.** The network queue and the XCTest thread meet in
  `pending`, in the connections and in the screenshot of a handshake.
* **Death of the agent.** It may stop (session.stop, idle timeout), crash or be
  killed with whatever it had queued, and be started again.
* **Fields without a lock.** `AgentRunner` shares events and flags among the
  caller, the supervisor and the readers of xcodebuild's output.
* **Files without a lock.** All commands of a checkout share one Xcode project,
  one directory of products and one patched `.xctestrun`.
* **Old views.** The inspector acts on a snapshot of an application that has
  moved on, through a selection made in an even older one; the refresh timer goes
  on firing inside its modal dialogs.
* **Two implementations of one notion.** What a locator means is decided three
  times: by the inspector's count over a snapshot, by the recorded script, and by
  the agent.

What makes each part correct:

* client: an answer is the answer to the call's own last request; a reader owns
  its socket; every call ends; a command is executed at most `max_retries + 1`
  times, `session.stop` at most once, and at least once when it is answered;
* server: a request is handed over once, also those of lost connections;
  XCUITest is driven by one thread; session.stop ends the run;
* runner: at most one xcodebuild process, none after a fatal error, and one
  again after a crash; nothing outlives the session.
* sessions: what was found running on a device has been told to end, or left to a
  controller that has, before anything is started there, and what runs has its own
  session's port and token;
* setup: what it builds can be signed, what it reports is what it built;
* inspector: the panel, the recording, the script and what really ran agree; a
  locator called unique finds its element and no other.

`PROJECT.json` lists every component with what is and is not modelled of it,
and every hazard at its line.

## 2. The modules

| Module | Models | Reads |
|---|---|---|
| `Wire` | the TCP connections: both ends, and a FIFO of frames each way | - |
| `ControllerClient` | the client and the session's calls on it, per thread | `Wire` |
| `CommandServer` | network queue, command queue, XCTest loop, crash and restart | `Wire` |
| `AgentSession` | client and agent together; the properties and the refinement | both |
| `AtLeastOnce` | what a caller may rely on: the abstract specification | - |
| `MCAgentSession` | instances for TLC | `AgentSession` |
| `AgentRunner` | `start`, `stop`, `_spawn`, readers, supervisor, xcodebuild | - |
| `AgentCommands` | the agent's handlers against applications and dialogs | - |
| `SdkCalls` | the SDK's locators and the requests its methods send | - |
| `Locators` | snapshots, suggestions, generated code, and the agent's resolution of a selector | `SdkCalls` |
| `Inspector` | the window with its dialogs and timer, and the recorder | `Locators` |
| `MCInspector` | an instance, the small screens, and `UniqueFindsIt` over them | `Inspector` |
| `Profiles` | provisioning profiles and bundle identifiers | - |
| `Mac` | devices, the selected Xcode, build products | - |
| `Setup` | runs of `sandstorm ios setup` | `Mac`, `Profiles` |
| `Sessions` | runs of `sandstorm ios start` beside each other | `Mac` |
| `Workstation` | setups and sessions over one checkout; the properties | both |
| `MCWorkstation` | instances for TLC | `Workstation` |
| `AgentSessionProofs`, `AnswerProofs`, `OnceProofs` | theorems of the session, each module on top of the one before | `AgentSession` |
| `AgentRunnerProofs`, `CommandProofs`, `InspectorProofs` | theorems | `AgentRunner`, `AgentCommands`, `Inspector` |
| `SetupProofs`, `WorkstationProofs` | theorems of the setups, and of all commands together | `Setup`, `Workstation` |

### Wire

A connection is a slot with a client end (`cli`), a server end (`srv`) and two
sequences of frames. A slot is free when both ends are gone, so that a few
slots carry any number of connections; when none is free, `OpenFails`, which is
possible at any time, is what remains. Frames keep their kind and id: the ids
are what correlation is about, and the protocol gives three of them to frames
that answer no request (0: a refused handshake; -1: the "malformed" reply, and
a handshake response read as a reply, which has no id).

Closing the client's end leaves what it wrote on its way: that is how a first
attempt can arrive late. Cancelling the server's end drops what it had not
read, and what it wrote arrives or is lost, for each connection as a whole.

### ControllerClient

One record of control (`pc`, `attempt`, `tries`, `cur`, `sent`, `outcome`) per
call; a call is one method invocation in one thread, and at most `MaxActive` of
them overlap. A step ends where the code releases or takes the lock, blocks, or
reads shared state again:

| Action | Code |
|---|---|
| `Start` | entering a method; `IOSSession.invoke`'s unlocked `is_connected` check |
| `NotConnected`, `SendRequest`, `SendFails`, `SendTimesOut` | `_invoke_once` up to the read, `_send_json` |
| `ReadReply`, `DiscardStale`, `ReadFails` | its loop; `FrameReader._read_exactly`, which reports a timeout as a lost connection |
| `CloseAfterFailure`, `NextAttempt` | the except clause of `invoke`, and its loop |
| `OpenSocket`, `OpenFails`, `ReadHandshake`, `HandshakeFails`, `Greet` | `connect`: under the lock up to the handshake reply, outside it for the log line |
| `CloseAfterConnectFailure` | its except clause and loop |
| `Close` | `close`, also `stop_agent`'s finally |
| `Interrupt` | KeyboardInterrupt in `recv` |

`StepsLeft` of `AgentSession` counts the steps a call has left at the most: nine for
each attempt, which may fail after its write and its read and then try twice to
connect, and three for each try of `connect()`. `CallsRunDown` says that every step
uses one up, unless it discards a stale reply.

`ReadFails` and `DiscardStale`'s timeout may happen at any moment: time is
abstracted, and every timeout is a choice. Only calls that the SDK makes over
an `IOSSession` wait for a successful `connect`, as `IOSDevice` makes them.

### CommandServer

The network queue is serial. It is free unless a handshake occupies it
(`surveying`) with the screenshot `deviceDescriptor` takes the first time; each
of its actions handles one frame or one event of one connection. The XCTest
thread is `loop`: drain, busy with a command, or about to look whether to
stop. A command of a lost connection stays in `pending` with `conn = NoConn`.
`Drained` is taken only when the check that follows could end the run; an idle
loop that merely spins is the stutter of `AllOver`. `Down` is the end of the
process, by `StopServing` or by `Crash`; `Restart` brings another one up, which
may have been started with another token.

### AtLeastOnce and the refinement

The abstract specification knows, of each command, whether it is idle, running
or over, who was answered, and how often each was executed.
`ImplementsAtLeastOnce` maps the calls' control and the histories `sent` and
`executed` to it: `executions[c]` counts the ids of `c` the agent executed. The
budget is stated independently of the client's loop: `max_retries + 1`, and 1
for `session.stop`. An execution may come after the caller has given up.

### AgentRunner

`pc` holds the control points of the thread that calls `start` and `stop`
("main") and of the supervisor; each reader thread has a state. Reads and
writes of the shared fields are single steps, so that `_spawn`'s three clears,
its patch, `Popen` and the reader's start interleave with `stop`, whose read of
`_process`, wait and `_process = None` are steps too. xcodebuild prints READY or
a fatal line at most once each, and ends at any moment.

### AgentCommands

What happens inside `CommandServer`'s `busy`: one command at a time, in steps
that end at each query of the device, between which an application may change
state, the element may come, go or be disabled, and a dialog may come up, with
buttons or with none to press. `clear`, `resolve`, `interactable`, `touch` and
`settle` are the points of `withInterruptionRecovery` and its body; `body` tells
its first run from the retry and the replay. A touch goes to the dialog if there
is one, and else to the application, which may change the element. `landed`,
`swallowed`, `dialogs` and `moved` only record, for the properties.

| Action | Code |
|---|---|
| `Launch`, `ReadState`, `LaunchApp`, `ReachForeground` | `launchApp`, both ways |
| `ActivateApp`, `TerminateApp`, `AcceptAlert`, `SetAlertPolicy` | the handlers of these names |
| `ClearFirst`, `Resolve`, `CheckInteractable`, `Touch`, `Settle`, `Throw` | `tapElement` in `withInterruptionRecovery` |
| `TapCoordinate` | `tapCoordinate`, without recovery |
| `Poll` | `waitForElement` |
| `Restart` | a new process, with neither application nor policy |

`StepsLeft` counts what the handler in progress has still to do at the most, so that
`HandlersRunDown` can say of each step what `HandlersEnd` says of the whole.
`SuccessMeansLanded` says what the recovery is worth and what it needs: one
dialog per interaction, with buttons, on an element that nothing else changes.
Without any of these a tap may be reported as done and have done nothing.

### SdkCalls and Locators

A locator is a function from the criteria that are given to their values, as
`Selector.to_wire` leaves out the others; a request is a record with the method,
the selector, the arguments and the two waits it carries. A screen is the
sequence of its elements, depth first, with the positions that lead to each; a
frame is the set of points it covers. `Serialize` is the agent's snapshot,
`Recommend` and `BestLocator` are the inspector's ranking of it, `InlineCode`,
`Compiles` and `Evaluate` take a suggestion through the generated code, and `Resolve`
is what the agent finds for a selector in the application itself.

A text is the set of its marks, those that a conversion on the way looks at: a visible
character, blanks around it, a line break, a blank on the inner side of a bracket, an
apostrophe, a double quote or backslash. `Strip`, `Escape` and `Inlined` are `strip()`,
`_escape` and `inline()`, which works on the whole line of code and so inside the texts
too. `IsLiteral` says when a text between quotes is one Python literal, and `Unescape`
what the parser makes of it. The texts of a predicate go through two parsers, Python's
and NSPredicate's, and are escaped for one; they stand between apostrophes, which
nothing escapes: an apostrophe in a label makes the whole file a syntax error, a quote or
backslash another predicate. The request that the inspector itself sends goes through
the second parser alone, and is right.

`UniqueFindsIt` compares the two programs over every screen of two elements below
the application that MCInspector makes (24 576 of them, each with and without invisible
nodes). Where they do not agree is written into `Counted`, each case as narrow as it can
be, and for these definitions the list is complete, as the theorem of section 5 shows:

* an element that the snapshot leaves out - off screen, or below the depth limit - was not
  counted, which matters if it matches too, for "Index" only if it comes before the node;
* the application is none of its own descendants;
* a text is suggested stripped, and compared as it is;
* a type the wire has no name for is exported as "other";
* "Text" is counted over values and matched over labels, titles and placeholders too,
  which matters if another element has that text in one of them (two empty fields with
  one placeholder, say);
* "Predicate" calls itself unique without counting.

With any one of these dropped TLC finds a screen on which they disagree.
`ActionsHitTheSelection` says the same of the window while it is used:
the locator an action is run with leads to the selected node, as long as the tree
still has it and the application still shows that screen.

So that this can be proved as well as checked, a snapshot is a function on the places
its elements have in the screen, and an index is the number of matching places before
one (`Before`): nothing filters a sequence, which would be recursive.

### Inspector

One GUI thread: a handler is one action, except where it calls the agent twice
(`RefreshImage`, `RefreshTree`, since the application may change in between) or
opens a dialog. A dialog's nested event loop lets only the timer in; what the
handler resolved before is kept in `modal`. A call to the agent works, fails, or
loses the session for good (`session = "lost"`: `IOSSession.invoke` refuses
everything from then on, while the device still counts as connected). A save opens the
file and writes it, and may fail at either (`WriteText`). Closing asks first when
there are steps; a file dialog cancelled there, or a save that raises, closes the window
all the same - an exception in a handler does not stop Qt from accepting the event - and
nothing is promised of the recording then.

| Action | Code |
|---|---|
| `Connect` | `_connect`, with the first refresh |
| `StartRefresh`, `RefreshImage`, `RefreshTree` | `refresh`, by button, timer, check box or after an action |
| `SelectAtPoint`, `TreeSelectionChanged` | the two ways to `_select` |
| `ActionTap` ... `ActionAssertVisible`, `LaunchApp` | the actions without a dialog |
| `OpenDialog`, `OpenPlain`, `...Accepted`, `DialogCancelled` | those with one |
| `ToggleRecording`, `RecorderUndo`, `RecorderClear`, `EditTitle`, `SaveAccepted` | the recorder's panel |
| `CloseEvent`, `CloseAnswered`, `ClosingSave` | `closeEvent` |

Each recorded step carries, for the properties only, the request that ran (`ran`)
and the locator the panel showed (`shown`). `Replay` is what the generated script
would do for it, provided the file is Python at all (`IsPython`): one literal that ends
early, in any step, leaves none of it to run. `ReplaysWhatRan` names what the code cannot
write (`Writable`) and what it writes as something else (`WrittenAsIs`), and nothing more:
section 7 has them as findings.

### Profiles, Mac, Setup, Sessions, Workstation

A setup is a process with control points where it reads or writes what others
share: the devices, the profile, the project file, the scheme file (two writes,
and no lock), the check, the start of xcodebuild, its end, and the search for the
product. `Exits` are its exit codes. xcodebuild builds the project as it finds
it then; `XcodeSigns` is what Xcode demands of an explicit profile.

A session is a run of `start`: resolve, list, two rounds of signals, pause, boot,
locate, patch, Popen, wait, and then the loop of `cmd_start` beside the supervisor.
`procs` are the xcodebuild processes ever started, each with the session it belongs
to, once it has read the file whose port and token it got, and its fate: "owned" by its
controller, "told" to end by a SIGTERM, or "lost", when a signal missed it or its
controller ended without stopping it. A process that is told ends, in its own time.
`ListStale` takes the snapshot that `ps` is: a process that is started later is not in it,
nor is a supervisor that has no process at that moment; `ListFails` is a `ps` that fails,
which finds nothing. `KillRunners` comes before `KillSupervisors`, as the sort of the
code has it (the comment there says the opposite), and any of the signals may miss.
`Pause` waits for nobody: when a session goes on after its two seconds, what it has
signalled may still be running. `StaleSessionsEnd` therefore speaks of what has been
settled then, not of what is dead: a process that was found has its signal; a controller
that was found has noted its own, and will end what it runs, or it is over, and then
every process it has ever started is told or lost, those included that its supervisor
started between the two rounds. Inside a session the details are `AgentRunner`'s;
that a process may be left over by a `stop` that meets a restart is a choice of
`StopSession`, and a tunnel that cannot be opened, which leaves one too, of `StartRaises`.

## 3. The runs

| Run | Question | Bounds |
|---|---|---|
| `concurrent_calls` | correlation, lock and guarantee with two threads | connect and 2 commands, 2 at once, 2 slots, 1 retry, 1 fault |
| `agent_restarts` | the same over crashes, resets and a restart, with a request that cannot be encoded and a close; a call has always fewer steps left | 4 calls, 1 at once, 2 faults, 1 restart, idle shutdown on |
| `session_liveness` | session.stop against a ping: every call ends, what is queued is executed once, the run ends | FairSpec, 2 at once, unencodable replies |
| `runner_lifecycle` | one process, none after a fatal error, none left by a start that failed, a crash is repaired, the supervisor ends | FairSpec, 3 processes, 1 exception |
| `agent_commands` | taps that are reported as done have landed, failures have changed nothing, handlers end, and run down step by step | FairSpec, 2 applications, 2 dialogs per command |
| `inspector` | panel, recording, script and what ran agree; the tree catches up; unique locators find their element, also the one an action is run with | FairSpec, 2 screens, 2 texts typed, 4 gestures, 2 steps, 2 failures; 24 576 screens of 2 elements |
| `workstation` | what is built can be signed and is what is reported; sessions settle what runs on their device and keep their own tokens | 3 of 2 setups and 2 sessions, an iPhone and a simulator, 4 profile files, 4 command lines (those with a profile are for the iPhone), 1 fault, 1 change of the Mac |
| `late_attempt`, `failed_restart`, `stop_races_restart`, `shown_locator`, `parallel_sessions` | five statements of the documents and comments that the code does not keep | smallest that shows it |

Why the bounds are enough. Two overlapping calls are needed for a race on the
client and three calls for one that comes after it; a third thread adds nothing,
since the lock admits one and the rest of a call touches only its own record.
Two slots let a retry overlap its first attempt's connection; `max_retries` is 1
in the runs (2 by default), enough for an attempt to be late. Timeouts are not faults
and are not bounded: retries happen in every run, `session_liveness` included. Faults are resets, crashes,
half-written requests and interrupts; one of each kind is reached in
`concurrent_calls`, pairs of them in `agent_restarts`. For the runner, a third
process is the first that can be started by a supervisor that has already
restarted one. A second application is needed for a launch that fails beside an active
one, and a second dialog for one that takes the replay. The theorems of section 5 hold
for every bound.

In `inspector`, a locator of a recorded step goes wrong with a selection, a refresh
and an action (three gestures): four (`MaxGestures`) leave room for an undo or a dialog
in between, and answers to dialogs are not counted. Two screens are one change under an old
view, and between them they have the texts that the script cannot carry and those it can;
two steps (`MaxSteps`) have an order. Two failed calls (`MaxFailures`) can hit either half
of a refresh or any action, one after the other.
In `workstation`, two commands meet over a file and a third (`MaxRuns`) comes
after them; four add states but no new meeting, as every shared file has one
writer at a time. One fault (`MaxFaults`) gives a restart, an orphan, or a
`ps`, a signal or a tunnel that fails, one change (`MaxChanges`)
the switch of Xcode or the pulled cable between two steps of a run. The profiles
are one for the bare identifier, a wildcard, that wildcard's
expired predecessor and a file that cannot be decoded; the commands take the project as it
is, the profile that cannot sign the runner, the one that can, and one that is not
installed. `--force`, `--no-demo` and identifiers without a profile are
not in this run: they decide what the same steps write and whether the check stops them,
and the theorems of section 5 hold for every argument. The simulator's platform
has been built for before (`Earlier`) and the iPhone's has not, so that two sessions on
different platforms come together after one setup. Deadlock is not checked in
`inspector`, `workstation` and their violations: the window may be closed, all commands may have ended.

`HandshakeIsCurrent` is checked with `MaxActive = 1` only: with two threads it
does not hold, because `connect()` on a client another thread has reconnected
replaces the socket before it has a handshake, and a failing one leaves the
old handshake until it closes. The same window makes the unlocked log line of
`connect` fail with AttributeError (outcome `crashed`).

## 4. Fairness

`FairSpec` of `AgentSession` assumes weak fairness of each call's own steps
(every wait of a thread has a socket timeout, and a lock holder always has such a
wait), of the network queue for each connection, of the end of a handshake's
screenshot, and of the XCTest thread. Nobody has to begin a call, restart the
agent or suffer a fault. Weak fairness suffices because the lock is never held
for ever and the run with fairness bounds the number of overlapping calls.

`FairSpec` of `AgentRunner` assumes weak fairness of the controller's threads:
`start`, `stop`, the supervisor and each reader. A process has neither to print
nor to end; `Reap` ends the one that was sent SIGTERM, as `wait` and then `kill` do.

`FairSpec` of `AgentCommands` assumes that the handler's thread runs and that the
time it waits for passes. Dialogs, applications and elements need not do anything.

`FairSpec` of `Inspector` assumes that a call the GUI thread makes returns (the
client has a timeout for each) and that a running timer fires: Qt's event loop runs,
also inside a dialog. The user need not do anything. `Workstation` is checked
for safety only: how long xcodebuild takes is not the code's to say.

## 5. What is proved

Every safety property that a passing run checks, and the refinement; of the liveness
properties of calls and handlers, that their steps run out. All for any set of calls, connections, processes, runs, devices,
applications, screens and texts, and any retry and fault bounds, from the assumptions on
the constants that TLC evaluates too: `NoConnAssumption`, `ClientAssumption`,
`ServerAssumption`, `RunnerAssumption`, `TodayAssumption`, `MacAssumption`,
`SetupAssumption`, `SessionsAssumption`, `RunsAssumption`, `CommandsAssumption`,
`InspectorAssumption`. They say that bounds are numbers, that there is at least one
process and a sequence of at least one screen, that a screen is a tree (the application
first, no two elements at one path), that defaults are among the choices, that a command
names at most one profile, and that a value standing for "none" is not one of the others. One theorem has a hypothesis of its own
(`SoloUser`, below).

### The session

`AgentSessionProofs`: `TypeCorrect`, `ReadersOwnTheirSocket` and
`HandshakeNeverMeetsCommand`, from the inductive invariant

* `SocketInv`: the client's socket is the only connection whose client end is
  open at all times (`SocketIsOpen`), and the lock is held by exactly the call
  that waits on it. `ReaderOwnsSocket` alone is not inductive: it says nothing of
  the socket between two calls, on which the next one begins to read;
* `AgentInv`: the XCTest loop is busy only with a request it took
  (`BusyHasItem`), and until a first handshake has cached the screen's bounds,
  no connection is past its handshake, and nothing is queued or executing
  (`BoundsFirst`). `XCUITestExclusive` alone is not inductive: a command queued
  before the handshake would break it.

`AnswerProofs`: `AnswersBelongToTheirCalls`, by following a reply backwards.
`AnswerInv` says that a reply on a connection names an executed id
(`RepliesOK`), that what is executing is in `executed` (`RunningOK`), that a waiting
call's current id is one it sent, and that an answered call's is executed
(`CallsOK`). Then `HandshakeStaysCurrent`, for a user that makes one call at a
time, connects once and does not ping (`SoloUser`: the user of `agent_restarts`; with two threads the
property is false, see section 3). `HandshakeInv` adds why it stays so: there is no
handshake before the first `connect` and while one is under way, and one that is kept is the socket's.

`OnceProofs`: `RequestsAreHandedOverOnce`, since an id is in one place - not
sent yet, on one connection, in the queue, or executed - and moves only
forwards (`OnceInv`: the client's counter is ahead of the wire, the wire of the
queue, the queue of `executed`). `SessionImplementsAtLeastOnce` is the refinement:
`BudgetInv` bounds the requests of a call (`SentOK`) and with them its executions
(`WithinBudget`, a cardinality, hence the theorems on finite sets); then the
initial states map to one, and every step to a step of `AtLeastOnce` or a
stutter, one lemma for each kind of step - a call that begins, one that is answered,
one that is given up, an execution, and all the others, which stutter.
From the same bound, `ExecutedWithinBudget`: no call is executed more often than it may
try, `session.stop` never twice.

`CallsComeToAnEnd` is the part of "every call returns" that needs no fairness: each of a
call's steps leaves it fewer (`CallsRunDown`), from a number that `CallsHaveFewSteps`
bounds, whatever the agent, the wire and the other calls do. What it
takes is that an attempt is one of those the budget allows (`BudgetInv`), and that a
call that connects has a try left, and no more than the code begins with (`PaceInv`).
`CallsRunDown` alone is not inductive, as a call beyond its budget would have a negative number left.
Only a stale reply costs a step and nothing else; then there is one less to discard.

### The runner

`AgentRunnerProofs`: `RunnerTypeCorrect`, `OneRunnerAtATime`, `FatalIsFinal` and
`FailedStartsLeaveNothing`.

* `OneRunner` is why there is never a second process: a process is started
  only when every earlier one has exited and its output is read
  (`Generations`), since the crash event is set at the end of the last output
  (`QuietWhenCrashed`), `_spawn` clears it (`Cleared`), and the supervisor begins when
  `start` has come to its end (`OneSpawner`). `AtMostOneRunner` is
  not inductive: in a state with a stale crash event and a running process the
  supervisor would start another.
* `FatalIsKnown` follows a fatal line from the process (`Printed`) through the
  lines its reader has not read (`FatalSeen`, `ReadToTheEnd`) to the flag
  `Decide` looks at. Only `stop()` breaks that way, by taking the process out
  of the reader's sight (`Forgotten`), and then no restart follows.
* `FailedStart`: while there is no supervisor, the process that is alive is the one in
  `self._process` (`AloneIsKnown`); so `stop()` ends it (`StopEndsIt`), and a start
  fails before it makes a supervisor (`FailedAlone`). It is this last part that
  `StopLeavesNothing` lacks, and that property is false.

### The agent's commands

`CommandProofs`: `CommandTypeCorrect`, `MissedMeansUntouched`, `ReportedTapsLanded`,
`SecondTouchNeedsADialog`, `LaunchesAreAtomic` and `HandlersComeToAnEnd` (the last four
about steps), all from
`CommandInv`: where control may be for each kind of command (`ControlOK`), how
many touches the bodies that have run account for (`TouchesOK`), that
every retry and replay is paid for by a dialog that came up during the interaction
(`DialogsOK`), and that the element a touch is about to go to is one nothing has changed since it was
resolved, unless `moved` says so (`TargetOK`). None of the properties is inductive: each is
about a reported outcome, and says nothing of the body that leads to it.
`HandlersComeToAnEnd` is the half of `HandlersEnd` that needs no fairness: the body of an
interaction is run again once, so a handler has a bounded number of steps, and dialogs
that keep coming up give it no more; only a wait repeats a step, until its timeout is over.

### Setups and sessions

`SetupProofs`: `SetupBuildsWhatItChecked` and `SetupReportsItsBuild`. What a setup has
written is what it chose until another run writes (`WrittenOK`), and what it has built
is not newer than the products (`BuiltOK`). `SignsWhatItBuilds` speaks of
xcodebuild's start only, and does not say what was checked before it.

`WorkstationProofs`: `WorkstationTypeCorrect`, `StaleSessionsAreGone` and
`SessionsServedByTheirOwn`. `ProcsOK` is about the
processes of each session: only the last may run, none does while the next is being
started, and none goes on for good when the controller is over. `StaleOK` says what is settled, at each point of the clearing, of what was
listed: the processes after the first round of signals, the controllers after the
second - and that it stays so, whatever a supervisor that has been told still starts.
`StaleSessionsEnd` says nothing of a session before its second round, and nothing of
where a process comes from, and is not inductive. `ServedOK` follows whose the file is
from the patch to xcodebuild's reading of it, as long as no other session has patched.

### The inspector

`InspectorProofs`: `InspectorTypeCorrect`, `ThePanelIsUpToDate`, `ScriptsReplayWhatRan`,
`NoImageIsAheadOfItsTree`, `WhatIsActedOnIsSelected`, `SuggestionsAgreeWithTheAgent`,
and two theorems about operators that these rest on, `SuggestionMeans` and
`UniqueSuggestionsFindTheirElement`.

* `SuggestionMeans`: for any node of any tree, a suggestion's code is Python unless a
  predicate has an apostrophe, and evaluates to what `build` makes of its criteria unless
  its lines were joined, a gap closed, or a predicate has a quote or backslash. What
  is escaped once is unescaped once (`TextUnescaped`), through `inline()` (`InlinedKept`);
  a predicate, parsed twice, keeps only the texts that had nothing to escape
  (`EscapedTwice`). It asks that no text of the application comes escaped, which is
  what the marks of `Texts` say (`TextsInv`).
* `RecorderInv`: the preview is the script of the steps for *some* bundle identifier
  (`PanelInv`: the App field has no handler); every step is Python, and replays for
  *every* identifier the script may get (`StepsHonest`), which is what makes an undo, an
  edit of the field or a later step harmless; and the suggestion that an open dialog holds
  means what its code says (`ModalMeans`), since what is recorded when the dialog is
  answered was chosen when it was opened. `ReplaysWhatRan` itself is not inductive for
  that reason.
* `InspectorTypeCorrect` contains that at most one locator is the best: the order of
  the suggestions is asymmetric (`AboveIsAsymmetric`).
* `ViewInv`: the screenshot that waits for its tree (`shot`) is not of a screen to come.
* `UniqueSuggestionsFindTheirElement` is about every screen, of any size and depth and
  with any texts, where the run looks at two elements, and about snapshots that leave
  elements out. Where `Counted` has no match outside (`NoneLeftOut`), there are two
  arguments: a count of one over nodes is one match over elements (`OneFound`), the
  application set aside, for the strategies that count; and for "Index", the places of a
  type before the node are the same in both trees, and no two of them have the same
  number before them (`BeforeTells`), so that the index leads back to the node.
* `SuggestionsAgreeWithTheAgent` is that theorem for the screens of the run.
  `WhatIsActedOnIsSelected` needs of the window only `SnapshotInv`: the tree is a
  snapshot of *one* screen, the one it is said to be taken of, with whatever setting of
  the check box it was taken. `ActionsHitTheSelection` says nothing of that while
  nothing is selected, and is not inductive.

## 6. Only model-checked

* Liveness under fairness, out of the prover's reach: `CallsReturn`, `StopEndsTheRun`,
  `QueuedAreExecuted`, `CrashIsRepairedIfSpawnWorks`, `SupervisorEnds`,
  `HandlersEnd`, `AutoRefreshCatchesUp`. For calls and handlers what is left to TLC is
  that a thread takes its steps - that one is always enabled, and that stale replies
  do not come in for ever; that there are only so many of them is proved.
* `HandshakeIsCurrent` for a user outside of `SoloUser` is not claimed.

## 7. What the runs found

* A reply that is late by more than the timeout drops a live connection and
  sends the command again; the first attempt may then be executed after
  later commands (`late_attempt`).
* A failed respawn ends the supervision (`failed_restart`), and `stop()` can
  leave a process that the supervisor is just starting (`stop_races_restart`).
* The inspector acts through another locator than its panel shows as the best
  when the tree was refreshed since the selection (`shown_locator`).
* Two sessions started at once share the patched `.xctestrun`: one of them may be
  served with the other's token (`parallel_sessions`).

Met while modelling, and visible in the definitions without a run of their own:

* `open_tunnel` raising out of `start()` leaves xcodebuild running (agent.py:139;
  `FailedStartLeavesNothing` leaves exceptions out for that reason).
* The first handshake takes a screenshot on the network queue, of which
  ARCHITECTURE.md:57-58 says that it never touches XCUITest; it can do no harm,
  as `XCUITestExclusive` is proved.
* A tap that reached the application just before a dialog came up is replayed,
  where PROTOCOL.md:235-237 speaks of touches the dialog took.
* A client that has given its connection up leaves an `IOSSession` that refuses
  every call; nothing reconnects it (ARCHITECTURE.md:136), the inspector included.
* `--no-demo` alone does nothing (cli.py:79); a refused setup has already
  rewritten the project (cli.py:96); `find_profile` returns expired profiles;
  a wildcard profile with only `--agent-bundle-id` may leave the demo unsignable.
* Inspector: a first connection that fails is never tried again; the preview keeps an edited App
  field's old value; a locator that is not unique can be the best one, and then the
  first duplicate is tapped (app.py:528); a launch made before recording began is not
  in the script; cancelling the file dialog of the closing question, or a save that
  raises there, closes the window and the recording is lost (app.py:702-719).
* The script is not always what ran, where app.py:528-529 says that it "reproduces
  exactly what was clicked". "Predicate" is the best locator as soon as type and label
  are duplicated: with an apostrophe in the label ("Don't") the file is a syntax error
  (locators.py:180), with a quote or backslash it compares another text. A line break in
  the element's name does the same to the file through the message of an assertion
  (recorder.py:173), and in a label it is joined by a blank and its locator misses; so does
  a blank inside brackets (locators.py:68).
* "Text" says that it "Matches label, value, title or placeholder" (locators.py:163) and
  counts values only: it is called unique on a screen where another field has the text as
  its placeholder, and the agent may act on that one.
* A locator called unique in a snapshot that leaves nodes out may match one of those
  first (locators.py:53).
* The comment "Supervisors first" (agent.py:307) is contradicted by the sort below it.
  It does no lasting harm while the signals arrive, as `StaleSessionsEnd` is proved, but the
  old xcodebuild may
  still be running when the new one starts: two seconds' pause, ten for a `stop()`.

## 8. Abstractions, and what is not modelled

* Time: a timeout is a choice. Hence nothing is said about how long a call
  takes, and the idle shutdown happens whenever the queue was found empty.
* A write of the handshake request that times out half way is left out (a few
  hundred bytes on a new connection); so is an interrupt in the middle of a
  frame. The agent's own replies are well formed, so the client's
  `IOSProtocolError` branches are not reached.
* A tunnel that drops a connection does so for both ends at once. Nothing watches
  a forwarder's own death.
* `AgentCommands` takes a long press, typing and clearing for a single touch, and
  the element for one that counts as disabled when it is gone between `exists`
  and `isEnabled`. While a handler runs only it closes dialogs, and a touch on
  a dialog beside its buttons leaves it there.
* Screenshots, snapshots and orientation as commands (reads, or a device setting).
* The inspector's painting and pixel scale, its clipboard, the tree widget (a
  selection in it is a path), and the wording of the two script styles: the test case's
  name and the bundle identifier stand unescaped in its docstring. Coordinates are the
  same in the script, where the code rounds them to three or four digits. A line break
  in the blanks around a text, which `strip()` takes away, is not told from one inside
  it, so that such a text counts as one the script cannot carry.
* Setup: the parsing of what the tools print, the installation of the demo app, the
  diagnosis of a failed build, and xcodebuild's incremental builds. A profile's
  devices and expiry count where Xcode signs.
* Sessions: the return of `start()` and the two calls of `signal.signal` after it are one
  step; a write of the patched file is one step, and an xcodebuild on a device
  where another is running goes on (the tools' own arbitration is not known from
  the code).
* `cmd_devices`, `cmd_profiles`, `cmd_ping` and `cmd_inspector` print or open
  something. The bytes of frames (`FrameCodec`, `FrameReader`) are taken as frames.
* The parts listed as `not_modelled` in `PROJECT.json`.

## 9. Plan

Done: the core, the agent's handlers, the inspector, and the workstation (sections
2 to 4); all of the safety properties are proved (section 5). Next, in this
order:

1. `Framing`: `FrameCodec.nextFrame` and `FrameReader` over bytes, in any
   fragmentation, against a reference definition.
2. The idle clock of the XCTest loop, from the start of the last command.

Abstract specifications worth stating: an at-most-once hand-over queue for the
server, a lease of the device for two controllers, and a byte stream's sequence of
frames for the codecs. Theorems worth proving besides those of section 5: that the codec's
steps keep the frames of the stream, and that the supervisor runs down after `stop()`.
