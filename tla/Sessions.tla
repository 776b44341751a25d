-------------------------------- MODULE Sessions --------------------------------
(***************************************************************************)
(* The sessions of one Mac: runs of "sandstorm ios start" (cmd_start, and  *)
(* start_agent, terminate_stale_runners and AgentRunner.start of agent.py) *)
(* beside each other.  Each clears what it finds running on its device,    *)
(* takes the newest build, patches its port and token into a copy of its   *)
(* .xctestrun - one file for all sessions - and starts an xcodebuild       *)
(* process that reads it.  What goes on inside one runner is AgentRunner's *)
(* matter; here a supervisor starts the next process when one has ended.   *)
(***************************************************************************)
EXTENDS Mac

CONSTANTS
  Sessions,   \* runs of the command; each has a port and a token of its own
  MaxFaults   \* bound on what fails: processes and controllers that end by
              \* themselves, a ps or signals that fail, a tunnel that is not opened

ASSUME SessionsAssumption == MaxFaults \in Nat

VARIABLES
  session,    \* session[s]: where a run is and what it has found out
  patched,    \* Sandstorm.patched.xctestrun: none, or whose, for what platform
  procs,      \* the xcodebuild processes in the order they were started: whose, on
              \* what device, what it has read, whether it runs; and what is to come
              \* of it, its fate: "owned" by its controller, "told" by a SIGTERM to
              \* end, or "lost", left behind by its controller or missed by a signal
  faults      \* faults so far

sessionVars == <<session, patched, procs, faults>>

\* target: its device; stale: what it found running, processes and controllers,
\* of the controllers in the end those that its signal has reached;
\* run: the build it uses; started: start() has returned, SIGTERM is handled and
\* the supervisor runs; asked: a signal has set "stopping"; disturbed (history):
\* another session patched the file before this one's process had read it.
Fresh == [phase |-> "idle", target |-> {}, stale |-> [procs |-> {}, owners |-> {}],
          run |-> {}, started |-> FALSE, asked |-> FALSE, disturbed |-> FALSE]

\* A run that is over knows nothing any more.
Over == [Fresh EXCEPT !.phase = "ended"]

Phase(s) == session[s].phase

SessionsInit ==
  /\ session = [s \in Sessions |-> Fresh]
  /\ patched = {}
  /\ procs = <<>>
  /\ faults = 0

Move(s, from, record) == Phase(s) = from /\ session' = [session EXCEPT ![s] = record]

Step(s, from, to) == Move(s, from, [session[s] EXCEPT !.phase = to])

Living == {i \in DOMAIN procs : procs[i].alive}

\* self._process, as long as the session owns one.
Own(s) == {i \in DOMAIN procs : procs[i].owner = s
                                /\ \A j \in DOMAIN procs : procs[j].owner = s => j <= i}

Kill(killed) == procs' = [i \in DOMAIN procs |->
                            IF i \in killed THEN [procs[i] EXCEPT !.alive = FALSE, !.env = {}]
                            ELSE procs[i]]

\* Some processes are told to end; others, as far as they were still their
\* controller's, are lost.
Fates(told, lost) ==
  procs' = [i \in DOMAIN procs |->
              IF i \in told THEN [procs[i] EXCEPT !.fate = "told"]
              ELSE IF i \in lost /\ procs[i].fate = "owned" THEN [procs[i] EXCEPT !.fate = "lost"]
              ELSE procs[i]]

Spawned(s, fate) ==
  {Append(procs, [owner |-> s, device |-> d, env |-> {}, alive |-> TRUE, fate |-> fate]) :
     d \in session[s].target}

Fault == faults < MaxFaults /\ faults' = faults + 1

-----------------------------------------------------------------------------
(* start_agent, AgentRunner.start *)

ResolveTarget(s, udid) ==
  /\ LET found == ResolveDevice(udid)
     IN  Move(s, "idle", IF found = {} THEN Over
                         ELSE [Fresh EXCEPT !.phase = "list", !.target = found])
  /\ UNCHANGED <<patched, procs, faults, booted>>

\* ps: xcodebuild test processes on the device.  The parent of one whose
\* controller has died is process 1, which is let alone.
ListStale(s) ==
  /\ LET found == {i \in Living : procs[i].device \in session[s].target}
         owners == {t \in {procs[i].owner : i \in found} : Phase(t) # "ended"}
     IN  Move(s, "list", [session[s] EXCEPT
           !.phase = IF found = {} THEN "boot" ELSE "kill runners",
           !.stale = [procs |-> found, owners |-> owners]])
  /\ UNCHANGED <<patched, procs, faults, booted>>

\* A ps that fails finds nothing.
ListFails(s) ==
  /\ Fault
  /\ Step(s, "list", "boot")
  /\ UNCHANGED <<patched, procs, booted>>

\* os.kill may fail for some targets, which is only logged.
Miss(missed) == IF missed = {} THEN UNCHANGED faults ELSE Fault

\* Sorted by the words "runner" and "supervisor".  A process ends on its signal,
\* but in its own time.
KillRunners(s) ==
  /\ Step(s, "kill runners", "kill supervisors")
  /\ \E missed \in SUBSET session[s].stale.procs :
       /\ Miss(missed)
       /\ Fates(session[s].stale.procs \ missed, missed)
  /\ UNCHANGED <<patched, booted>>

\* Mutant: only the xcodebuild processes are killed.
KillNoSupervisors(s) ==
  /\ Step(s, "kill supervisors", "pause")
  /\ UNCHANGED <<patched, procs, faults, booted>>

\* A controller in its waiting loop notes the signal, one that is still
\* starting has no handler and ends.
KillSupervisors(s) ==
  /\ Phase(s) = "kill supervisors"
  /\ \E missed \in SUBSET session[s].stale.owners :
       /\ Miss(missed)
       /\ session' = [t \in Sessions |->
            IF t = s THEN [session[t] EXCEPT !.phase = "pause", !.stale.owners = @ \ missed]
            ELSE IF t \notin session[s].stale.owners \ missed THEN session[t]
            ELSE IF session[t].started THEN [session[t] EXCEPT !.asked = TRUE] ELSE Over]
  /\ UNCHANGED <<patched, procs, booted>>

\* Two seconds, whatever is still running then: a controller may take ten to end
\* its xcodebuild.
Pause(s) ==
  /\ Step(s, "pause", "boot")
  /\ UNCHANGED <<patched, procs, faults, booted>>

Boot(s) ==
  /\ Step(s, "boot", "locate")
  /\ \A d \in session[s].target :
       IF d.simulator THEN BootSimulator(d.udid) ELSE UNCHANGED booted
  /\ UNCHANGED <<patched, procs, faults>>

Located(s) == UNION {LocateBuild(Platform(d)) : d \in session[s].target}

\* Mutant: that there is no build shows only when it is used.
TakeBuildUnchecked(s) ==
  /\ Move(s, "locate", [session[s] EXCEPT !.phase = "patch", !.run = Located(s)])
  /\ UNCHANGED <<patched, procs, faults, booted>>

TakeBuild(s) ==
  /\ Move(s, "locate", IF Located(s) = {} THEN Over
                       ELSE [session[s] EXCEPT !.phase = "patch", !.run = Located(s)])
  /\ UNCHANGED <<patched, procs, faults, booted>>

\* _spawn: the file is written ...
Reading(t) == Phase(t) = "popen" \/ \E i \in Own(t) : procs[i].alive /\ procs[i].env = {}

Patch(s) ==
  /\ Phase(s) = "patch"
  /\ patched' = {[owner |-> s, platform |-> Platform(d)] : d \in session[s].target}
  /\ session' = [t \in Sessions |->
       IF t = s THEN [session[t] EXCEPT !.phase = "popen", !.disturbed = FALSE]
       ELSE [session[t] EXCEPT !.disturbed = @ \/ Reading(t)]]
  /\ UNCHANGED <<procs, faults, booted>>

\* ... and xcodebuild is started, by start() or by the supervisor.
Popen(s) ==
  /\ Step(s, "popen", IF session[s].started THEN "up" ELSE "wait")
  /\ procs' \in Spawned(s, "owned")
  /\ UNCHANGED <<patched, faults, booted>>

\* xcodebuild reads the file some time later.
ReadRun(i) ==
  /\ procs[i].alive /\ procs[i].env = {}
  /\ procs' = [procs EXCEPT ![i].env = patched]
  /\ UNCHANGED <<session, patched, faults, booted>>

\* READY, the tunnel, and somebody behind the port: on a simulator the port of
\* this session, on an iPhone the one all sessions use.
Reachable(s) ==
  \E i \in Own(s) : \E e \in procs[i].env : \E d \in session[s].target :
    /\ procs[i].alive
    /\ e.platform = Platform(d)
    /\ d.simulator => e.owner = s

StartReturns(s) ==
  /\ Reachable(s)
  /\ Move(s, "wait", [session[s] EXCEPT !.phase = "up", !.started = TRUE])
  /\ UNCHANGED <<patched, procs, faults, booted>>

\* A fatal error, the process's end, the deadline, or nobody behind the port:
\* stop(), then the exception.  Without a stop(): the tunnel to an iPhone that
\* has said READY cannot be opened.
StartRaises(s) ==
  /\ Move(s, "wait", Over)
  /\ \/ Kill(Own(s)) /\ UNCHANGED faults
     \/ /\ Fault
        /\ \E d \in session[s].target : ~d.simulator
        /\ \E i \in Own(s) : procs[i].alive /\ procs[i].env # {}
        /\ Fates({}, Own(s))
  /\ UNCHANGED <<patched, booted>>

-----------------------------------------------------------------------------
(* The session *)

\* Mutant: the process is started again on the file as it is.
RespawnWithoutPatch(s) ==
  /\ \A i \in Own(s) : ~procs[i].alive
  /\ Step(s, "up", "popen")
  /\ UNCHANGED <<patched, procs, faults, booted>>

\* The supervisor: the build is still the one that start() located.
Respawn(s) ==
  /\ \A i \in Own(s) : ~procs[i].alive
  /\ Step(s, "up", "patch")
  /\ UNCHANGED <<patched, procs, faults, booted>>

CtrlC(s) ==
  /\ session[s].started /\ ~session[s].asked
  /\ session' = [session EXCEPT ![s].asked = TRUE]
  /\ UNCHANGED <<patched, procs, faults, booted>>

\* cmd_start's loop ends, handle.stop() has waited for the process or killed it.
\* The supervisor may be inside _spawn: what it starts then is lost, as in
\* AgentRunner's stop_races_restart.
StopSession(s) ==
  /\ session[s].asked
  /\ session' = [session EXCEPT ![s] = Over]
  /\ Kill(Own(s)) \/ (Phase(s) = "popen" /\ procs' \in Spawned(s, "lost"))
  /\ UNCHANGED <<patched, faults, booted>>

\* xcodebuild ends, with the device, the cable or the test run; one that has
\* been told to, or has read a file for the other platform, ends in any case.
Misled(i) == \E e \in procs[i].env : e.platform # Platform(procs[i].device)

ProcessEnds(i) ==
  /\ procs[i].alive
  /\ ((Misled(i) \/ procs[i].fate = "told") /\ UNCHANGED faults) \/ Fault
  /\ Kill({i})
  /\ UNCHANGED <<session, patched, booted>>

\* The controller is killed; its process goes on as an orphan.
ControllerDies(s) ==
  /\ Phase(s) \notin {"idle", "ended"}
  /\ Fault
  /\ session' = [session EXCEPT ![s] = Over]
  /\ Fates({}, Own(s))
  /\ UNCHANGED <<patched, booted>>

SessionStep(s) ==
  \/ \E udid \in Udids \cup {NoUdid} : ResolveTarget(s, udid)
  \/ ListStale(s) \/ ListFails(s) \/ KillRunners(s) \/ KillSupervisors(s) \/ Pause(s)
  \/ Boot(s) \/ TakeBuild(s) \/ Patch(s) \/ Popen(s)
  \/ StartReturns(s) \/ StartRaises(s)
  \/ Respawn(s) \/ CtrlC(s) \/ StopSession(s) \/ ControllerDies(s)

ProcessStep(i) == ReadRun(i) \/ ProcessEnds(i)
=============================================================================
