------------------------------ MODULE Workstation ------------------------------
(***************************************************************************)
(* One Mac: setups and sessions beside each other, over one checkout.      *)
(***************************************************************************)
EXTENDS Setup, Sessions

CONSTANT MaxRuns   \* bound on the setups and sessions that are ever begun

ASSUME RunsAssumption == MaxRuns \in Nat

vars == <<macVars, setupVars, sessionVars>>

Init == MacInit /\ SetupInit /\ SessionsInit

Begun == {p \in Setups : setup[p].at # "idle"} \cup {s \in Sessions : Phase(s) # "idle"}

Next ==
  /\ \/ \E p \in Setups : SetupStep(p) /\ UNCHANGED sessionVars
     \/ /\ \/ \E s \in Sessions : SessionStep(s)
           \/ \E i \in DOMAIN procs : ProcessStep(i)
        /\ UNCHANGED <<setupVars, attached, sdk, products, changes>>
     \/ UserChangesMac /\ UNCHANGED <<setupVars, sessionVars>>
  /\ Cardinality(Begun') <= MaxRuns

Spec == Init /\ [][Next]_vars

-----------------------------------------------------------------------------
TypeOK ==
  /\ attached \subseteq Udids /\ booted \subseteq Udids
  /\ sdk \in Sdks
  /\ changes \in 0 .. MaxChanges
  /\ \A f \in Platforms : \A b \in products[f] : b.number \in 0 .. builds
  /\ \A p \in Setups :
       /\ Cardinality(setup[p].device) <= 1 /\ Cardinality(setup[p].profile) <= 1
       /\ setup[p].at \in {"idle", "profile", "project", "scheme", "check", "build",
                           "xcodebuild", "locate"} \cup Exits
       /\ setup[p].at \notin {"idle"} \cup Exits => Cardinality(setup[p].args) = 1
       \* Whoever is past the choice of a device has one.
       /\ setup[p].at \notin {"idle"} \cup Exits => setup[p].device # {}
  /\ project.author \in Setups \cup {Nobody} /\ scheme.author \in Setups \cup {Nobody}
  /\ Cardinality(patched) <= 1
  /\ \A s \in Sessions :
       /\ Phase(s) \in {"idle", "list", "kill runners", "kill supervisors", "pause", "boot",
                        "locate", "patch", "popen", "wait", "up", "ended"}
       /\ Phase(s) \in {"patch", "popen", "wait", "up"} =>
            session[s].run # {} /\ session[s].target # {}
       /\ Phase(s) = "up" => session[s].started /\ Own(s) # {}
  /\ faults \in 0 .. MaxFaults

\* "setup detects an unusable profile before running xcodebuild"
\* (docs/PHYSICAL_DEVICE.md:220): however the identifiers came about - given,
\* from a prefix, from the profile, or the defaults - a run that builds the
\* project it has written itself builds a runner its profile can sign, and
\* with an explicit profile no demo app besides.
SignsWhatItBuilds ==
  \A p \in Setups :
    (setup[p].at = "xcodebuild" /\ project.author = p /\ scheme.author = p) =>
      \A q \in setup[p].profile :
        /\ Args(p).force \/ MatchesBundleId(q, RequiredAppId(project.agent))
        /\ ~q.wildcard => ~BuildsDemo

\* What a setup reports as its build is not older than what it built, whatever
\* Xcode was selected and whoever built meanwhile (build.py:337).
ReportsItsOwnBuild ==
  \A p \in Setups : setup[p].at = "exit 0" =>
    \E b \in setup[p].result : b.number >= setup[p].built

\* A session that has sent its signals, and goes on after two seconds, has left
\* nothing on its device that goes on for good: a process it found has its
\* signal; a controller it found is told to stop, or over, and then so is every
\* process it ever started, those included that its supervisor started between
\* the two rounds of signals (agent.py:307).  What a signal missed, and what a
\* controller left behind that ended without stopping it, is lost.
Settled(i) == procs[i].alive => procs[i].fate # "owned"

StaleSessionsEnd ==
  \A s \in Sessions : Phase(s) \in {"pause", "boot", "locate", "patch", "popen", "wait", "up"} =>
    /\ \A i \in session[s].stale.procs : Settled(i)
    /\ \A t \in session[s].stale.owners :
         \/ session[t].asked
         \/ Phase(t) = "ended" /\ \A i \in DOMAIN procs : procs[i].owner = t => Settled(i)

\* The process of a session runs with its port and token, unless another
\* session has written the one patched file before it was read
\* (agent.py:186).
ServedByItsOwnAgent ==
  \A s \in Sessions : Phase(s) = "up" /\ ~session[s].disturbed =>
    \A i \in Own(s) : \A e \in procs[i].env : e.owner = s

\* "Every AgentRunner allocates its own local port, so several sessions can run
\* in parallel; give each one its own token" (docs/PHYSICAL_DEVICE.md:97): a
\* session that has started, with a device of its own, answers to its own token.
ParallelSessionsAreServed ==
  \A s \in Sessions :
    Phase(s) = "up" /\ (\A t \in Sessions \ {s} : session[t].target # session[s].target) =>
      \A i \in Own(s) : \A e \in procs[i].env : e.owner = s
=============================================================================
