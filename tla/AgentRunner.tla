----------------------------- MODULE AgentRunner -----------------------------
(***************************************************************************)
(* AgentRunner (ios-controller/sandstorm_controller/agent.py): the owner   *)
(* of the xcodebuild process that hosts the agent.  Three kinds of thread  *)
(* share its fields without a lock: the caller of start() and stop()       *)
(* ("main"), the supervisor ("sup"), and one reader per process, which     *)
(* turns the process's output into events.  A process that ends - on its   *)
(* own, on session.stop, with the device - is a crash unless stop() ran.   *)
(***************************************************************************)
EXTENDS Naturals, Sequences, FiniteSets

CONSTANTS
  MaxProcs,     \* bound on the xcodebuild processes ever started
  MaxFailures,  \* bound on the exceptions inside _spawn and open_tunnel
  AutoRestart   \* the field auto_restart

ASSUME RunnerAssumption ==
  /\ MaxProcs \in Nat \ {0}
  /\ MaxFailures \in Nat
  /\ AutoRestart \in BOOLEAN

Procs  == 1 .. MaxProcs
NoProc == 0
Main   == "main"
Sup    == "sup"

VARIABLES
  pc,        \* where main and the supervisor are
  process,   \* self._process
  ready,     \* self._ready_event
  crashed,   \* self._crashed_event
  fatal,     \* self._fatal_error is set
  stopping,  \* self._stopping
  victim,    \* the local "process" of stop()
  after,     \* where main goes when stop() returns
  tunnel,    \* the Tunnel of this session
  proc,      \* proc[p]: the state of an xcodebuild process
  said,      \* said[p]: the markers it has printed
  lines,     \* lines[p]: its output, not yet read
  reader,    \* reader[p]: its reader thread
  failures   \* exceptions so far

vars == <<pc, process, ready, crashed, fatal, stopping, victim, after, tunnel, proc,
          said, lines, reader, failures>>

events     == <<ready, crashed, fatal>>
processes  == <<proc, said, lines>>
session    == <<victim, after, tunnel, stopping>>

Markers == {"ready", "fatal"}

SpawnPoints == {"clear", "patch", "popen", "reader"}

MainPoints == {"begin", "wait", "judge", "tunnel", "port", "supervise", "serving",
               "stop", "signal", "reap", "forget", "stopped", "failed"}

SupPoints == {"none", "watch", "woken", "settle", "sleep", "gone"}

TypeOK ==
  /\ pc \in [{Main, Sup} -> SpawnPoints \cup MainPoints \cup SupPoints]
  /\ pc[Main] \in SpawnPoints \cup MainPoints
  /\ pc[Sup] \in SpawnPoints \cup SupPoints
  /\ process \in Procs \cup {NoProc}
  /\ victim \in Procs \cup {NoProc}
  /\ ready \in BOOLEAN /\ crashed \in BOOLEAN /\ fatal \in BOOLEAN
  /\ stopping \in BOOLEAN
  /\ after \in {"stopped", "failed"}
  /\ tunnel \in {"none", "open", "closed"}
  /\ proc \in [Procs -> {"unused", "running", "dying", "exited"}]
  /\ said \in [Procs -> SUBSET Markers]
  /\ lines \in [Procs -> Seq(Markers)]
  /\ reader \in [Procs -> {"none", "starting", "pumping", "done"}]
  /\ failures \in 0 .. MaxFailures

Init ==
  /\ pc = [t \in {Main, Sup} |-> IF t = Main THEN "begin" ELSE "none"]
  /\ process = NoProc
  /\ ready = FALSE /\ crashed = FALSE /\ fatal = FALSE /\ stopping = FALSE
  /\ victim = NoProc
  /\ after = "stopped"
  /\ tunnel = "none"
  /\ proc = [p \in Procs |-> "unused"]
  /\ said = [p \in Procs |-> {}]
  /\ lines = [p \in Procs |-> <<>>]
  /\ reader = [p \in Procs |-> "none"]
  /\ failures = 0

Move(t, from, to) == pc[t] = from /\ pc' = [pc EXCEPT ![t] = to]

Failure == failures < MaxFailures /\ failures' = failures + 1

Alive(p) == proc[p] \in {"running", "dying"}

-----------------------------------------------------------------------------
(* _spawn, called by main and by the supervisor *)

\* Mutant: the crash event is not cleared.
ClearForgetsCrash(t) ==
  /\ Move(t, "clear", "patch")
  /\ ready' = FALSE /\ fatal' = FALSE
  /\ UNCHANGED <<crashed, process, session, processes, reader, failures>>

Clear(t) ==
  /\ Move(t, "clear", "patch")
  /\ ready' = FALSE /\ crashed' = FALSE /\ fatal' = FALSE
  /\ UNCHANGED <<process, session, processes, reader, failures>>

Patch(t) ==
  /\ Move(t, "patch", "popen")
  /\ UNCHANGED <<process, events, session, processes, reader, failures>>

Popen(t, p) ==
  /\ Move(t, "popen", "reader")
  /\ proc[p] = "unused" /\ \A q \in Procs : proc[q] = "unused" => p <= q
  /\ proc' = [proc EXCEPT ![p] = "running"]
  /\ process' = p
  /\ UNCHANGED <<events, session, said, lines, reader, failures>>

\* The thread this process's output is read by; p is the last one started.
StartReader(t, p) ==
  /\ Move(t, "reader", IF t = Main THEN "wait" ELSE "settle")
  /\ reader[p] = "none" /\ proc[p] # "unused"
  /\ reader' = [reader EXCEPT ![p] = "starting"]
  /\ UNCHANGED <<process, events, session, processes, failures>>

\* Mutant: the supervisor lets the exception through.
SpawnFailsUncaught(t) ==
  /\ pc[t] \in {"patch", "popen"}
  /\ Failure
  /\ pc' = [pc EXCEPT ![t] = "failed"]
  /\ UNCHANGED <<process, events, session, processes, reader>>

\* patch_xctestrun or Popen raises.  It propagates out of start(); the
\* supervisor logs it and sleeps.
SpawnFails(t) ==
  /\ pc[t] \in {"patch", "popen"}
  /\ Failure
  /\ pc' = [pc EXCEPT ![t] = IF t = Main THEN "failed" ELSE "sleep"]
  /\ UNCHANGED <<process, events, session, processes, reader>>

Spawn(t) ==
  \/ Clear(t)
  \/ Patch(t)
  \/ \E p \in Procs : Popen(t, p) \/ StartReader(t, p)

-----------------------------------------------------------------------------
(* start *)

\* Stale runners are gone, the simulator is up, the build is there - or one
\* of these raises.
Begin ==
  /\ \/ Move(Main, "begin", "clear")
     \/ Move(Main, "begin", "failed")
  /\ UNCHANGED <<process, events, session, processes, reader, failures>>

\* The waiting loop ends: READY, an error no waiting will cure, or - at any
\* moment - the deadline.
EndWait ==
  /\ Move(Main, "wait", "judge")
  /\ UNCHANGED <<process, events, session, processes, reader, failures>>

StopThen(from, result) == Move(Main, from, "stop") /\ after' = result

\* Mutant: an agent that is not ready in time is left to itself.
JudgeWithoutStop ==
  /\ Move(Main, "judge", IF ready THEN "tunnel" ELSE "failed")
  /\ UNCHANGED <<process, events, session, processes, reader, failures>>

Judge ==
  /\ IF ready
     THEN Move(Main, "judge", "tunnel") /\ UNCHANGED after
     ELSE StopThen("judge", "failed")
  /\ UNCHANGED <<process, events, stopping, victim, tunnel, processes, reader, failures>>

OpenTunnel ==
  /\ Move(Main, "tunnel", "port")
  /\ tunnel' = "open"
  /\ UNCHANGED <<process, events, stopping, victim, after, processes, reader, failures>>

\* No forwarding tool is installed, or it exits at once: open_tunnel raises.
OpenTunnelFails ==
  /\ Move(Main, "tunnel", "failed")
  /\ Failure
  /\ UNCHANGED <<process, events, session, processes, reader>>

WaitForPort ==
  /\ \/ Move(Main, "port", "supervise") /\ UNCHANGED <<tunnel, after>>
     \/ StopThen("port", "failed") /\ tunnel' = "closed"
  /\ UNCHANGED <<process, events, stopping, victim, processes, reader, failures>>

\* The supervisor is started, and start() returns the handle.
ReturnHandle ==
  /\ pc[Main] = "supervise"
  /\ pc' = [t \in {Main, Sup} |->
              IF t = Main THEN "serving" ELSE IF AutoRestart THEN "watch" ELSE pc[t]]
  /\ UNCHANGED <<process, events, session, processes, reader, failures>>

Start == Begin \/ Spawn(Main) \/ EndWait \/ Judge \/ OpenTunnel \/ WaitForPort \/ ReturnHandle

-----------------------------------------------------------------------------
(* AgentHandle.stop, AgentRunner.stop *)

RequestStop ==
  /\ StopThen("serving", "stopped")
  /\ UNCHANGED <<process, events, stopping, victim, tunnel, processes, reader, failures>>

EnterStop ==
  /\ Move(Main, "stop", "signal")
  /\ stopping' = TRUE
  /\ UNCHANGED <<process, events, victim, after, tunnel, processes, reader, failures>>

\* process = self._process; terminate() it unless it has exited.
Terminate ==
  /\ Move(Main, "signal", "reap")
  /\ victim' = process
  /\ proc' = [p \in Procs |-> IF p = process /\ proc[p] = "running" THEN "dying" ELSE proc[p]]
  /\ UNCHANGED <<process, events, stopping, after, tunnel, said, lines, reader, failures>>

\* wait(timeout=10), then kill(): either way the process ends.
Reap ==
  /\ Move(Main, "reap", "forget")
  /\ proc' = [p \in Procs |-> IF p = victim THEN "exited" ELSE proc[p]]
  /\ UNCHANGED <<process, events, session, said, lines, reader, failures>>

\* stop() returns; AgentHandle.stop then closes the tunnel.
Forget ==
  /\ Move(Main, "forget", after)
  /\ process' = NoProc
  /\ tunnel' = IF tunnel = "open" THEN "closed" ELSE tunnel
  /\ UNCHANGED <<events, stopping, victim, after, processes, reader, failures>>

Stop == EnterStop \/ Terminate \/ Reap \/ Forget

-----------------------------------------------------------------------------
(* _pump_output, one thread per process *)

\* The thread looks at self._process once.
Attach(p) ==
  /\ reader[p] = "starting"
  /\ reader' = [reader EXCEPT ![p] = IF process = NoProc THEN "done" ELSE "pumping"]
  /\ UNCHANGED <<pc, process, events, session, processes, failures>>

ReadLine(p) ==
  /\ reader[p] = "pumping" /\ lines[p] # <<>>
  /\ ready' = (ready \/ Head(lines[p]) = "ready")
  /\ fatal' = (fatal \/ Head(lines[p]) = "fatal")
  /\ lines' = [lines EXCEPT ![p] = Tail(@)]
  /\ UNCHANGED <<pc, process, crashed, session, proc, said, reader, failures>>

\* Mutant: only a process that had reported READY can crash.
EndOfOutputWhenReady(p) ==
  /\ reader[p] = "pumping" /\ lines[p] = <<>> /\ proc[p] = "exited"
  /\ reader' = [reader EXCEPT ![p] = "done"]
  /\ crashed' = (crashed \/ (~stopping /\ ready))
  /\ UNCHANGED <<pc, process, ready, fatal, session, processes, failures>>

EndOfOutput(p) ==
  /\ reader[p] = "pumping" /\ lines[p] = <<>> /\ proc[p] = "exited"
  /\ reader' = [reader EXCEPT ![p] = "done"]
  /\ crashed' = (crashed \/ ~stopping)
  /\ UNCHANGED <<pc, process, ready, fatal, session, processes, failures>>

Reader(p) == Attach(p) \/ ReadLine(p) \/ EndOfOutput(p)

-----------------------------------------------------------------------------
(* The supervisor *)

\* Mutant: the supervisor waits for a crash without a timeout.
WatchForever ==
  /\ pc[Sup] = "watch"
  /\ crashed /\ Move(Sup, "watch", "woken")
  /\ UNCHANGED <<process, events, session, processes, reader, failures>>

Watch ==
  /\ pc[Sup] = "watch"
  /\ IF stopping THEN Move(Sup, "watch", "gone") ELSE crashed /\ Move(Sup, "watch", "woken")
  /\ UNCHANGED <<process, events, session, processes, reader, failures>>

\* Mutant: the supervisor does not look at the fatal error.
DecideBlindly ==
  /\ Move(Sup, "woken", IF stopping THEN "gone" ELSE "clear")
  /\ UNCHANGED <<process, events, session, processes, reader, failures>>

Decide ==
  /\ Move(Sup, "woken", IF stopping \/ fatal THEN "gone" ELSE "clear")
  /\ UNCHANGED <<process, events, session, processes, reader, failures>>

\* ready_event.wait(240): ready, or - at any moment - the timeout.
Settle ==
  /\ Move(Sup, "settle", "watch")
  /\ UNCHANGED <<process, events, session, processes, reader, failures>>

WakeUp ==
  /\ Move(Sup, "sleep", "watch")
  /\ UNCHANGED <<process, events, session, processes, reader, failures>>

Supervise == Watch \/ Decide \/ Spawn(Sup) \/ Settle \/ WakeUp

-----------------------------------------------------------------------------
(* xcodebuild and the agent inside it *)

Say(p, marker) ==
  /\ proc[p] = "running" /\ marker \notin said[p]
  /\ said' = [said EXCEPT ![p] = @ \cup {marker}]
  /\ lines' = [lines EXCEPT ![p] = Append(@, marker)]
  /\ UNCHANGED <<pc, process, events, session, proc, reader, failures>>

\* The last process of the bound does not end by itself, so that there is
\* always one left to replace the one that did.
Exit(p) ==
  /\ Alive(p)
  /\ p < MaxProcs \/ proc[p] = "dying"
  /\ proc' = [proc EXCEPT ![p] = "exited"]
  /\ UNCHANGED <<pc, process, events, session, said, lines, reader, failures>>

-----------------------------------------------------------------------------
\* start() has failed or stop() has returned, and nothing moves any more.
AllOver ==
  /\ pc[Main] \in {"stopped", "failed"}
  /\ pc[Sup] \in {"none", "gone"}
  /\ UNCHANGED vars

Next ==
  \/ Start
  \/ OpenTunnelFails
  \/ RequestStop
  \/ Stop
  \/ Supervise
  \/ \E t \in {Main, Sup} : SpawnFails(t)
  \/ \E p \in Procs : Reader(p) \/ Exit(p) \/ \E m \in Markers : Say(p, m)
  \/ AllOver

Spec == Init /\ [][Next]_vars

\* Every thread of the controller keeps running; nobody has to call stop(),
\* and a process neither has to end nor to print anything - except one that
\* was sent SIGTERM, which Reap waits for.
Fairness ==
  /\ WF_vars(Start)
  /\ WF_vars(Stop)
  /\ WF_vars(Supervise)
  /\ \A p \in Procs : WF_vars(Reader(p))

FairSpec == Spec /\ Fairness

-----------------------------------------------------------------------------
\* The comment on terminate_stale_runners: two xcodebuild test processes
\* cannot share a device.  A supervisor that restarts must not start a second
\* one beside a first that is still there.
AtMostOneRunner == \A p, q \in Procs : Alive(p) /\ Alive(q) => p = q

\* A process that has printed an error no restart can fix is the last one:
\* the supervisor, which learns of it through the reader and the event, never
\* starts another.
NoRestartAfterFatal ==
  [][\A p \in Procs : proc[p] = "unused" /\ proc'[p] = "running"
                       => \A q \in Procs : "fatal" \notin said[q]]_vars

\* A process that ends during the session is replaced, unless the session is
\* being stopped or the error is one no restart can fix.
Down == pc[Main] = "serving" /\ process # NoProc /\ proc[process] = "exited"

Repaired == stopping \/ fatal \/ (process # NoProc /\ Alive(process))

CrashIsRepaired == Down ~> Repaired

\* The same as long as nothing has raised inside _spawn: the supervisor learns
\* of every crash, however early the process ended.
CrashIsRepairedIfSpawnWorks == Down ~> Repaired \/ failures > 0

\* Once stop() has been called, the supervisor thread comes to its end.
SupervisorEnds == stopping ~> pc[Sup] \in {"none", "gone"}

\* "The controller owns an xcodebuild child process for the lifetime of the
\* session": when stop() has returned and the supervisor is gone, no process
\* is left.
StopLeavesNothing ==
  pc[Main] = "stopped" /\ pc[Sup] \in {"none", "gone"} => \A p \in Procs : ~Alive(p)

\* The same of a start() that has raised - not ready in time, a fatal error, a
\* port nobody is behind - as long as neither _spawn nor open_tunnel has:
\* agent.py:139 has nothing around it, and leaves the process it started.
FailedStartLeavesNothing ==
  pc[Main] = "failed" /\ failures = 0 => \A p \in Procs : ~Alive(p)
=============================================================================
