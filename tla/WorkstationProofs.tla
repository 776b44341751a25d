--------------------------- MODULE WorkstationProofs ---------------------------
(***************************************************************************)
(* Theorems of Workstation about its sessions, for any number of sessions, *)
(* processes and faults, beside any number of setups; and the type         *)
(* invariant of the whole.                                                 *)
(***************************************************************************)
EXTENDS SetupProofs

Phases == {"idle", "list", "kill runners", "kill supervisors", "pause", "boot",
           "locate", "patch", "popen", "wait", "up", "ended"}

TestRuns == [number : Nat, sdk : Sdks \cup {0}]

Stale == [procs : SUBSET Nat, owners : SUBSET Sessions]

Records == [phase : Phases, target : SUBSET Devices, stale : Stale,
            run : SUBSET TestRuns, started : BOOLEAN, asked : BOOLEAN, disturbed : BOOLEAN]

Patches == [owner : Sessions, platform : Platforms]

Processes == [owner : Sessions, device : Devices, env : SUBSET Patches, alive : BOOLEAN,
              fate : {"owned", "told", "lost"}]

-----------------------------------------------------------------------------
(* The processes *)

\* Those that are killed stop and forget what they read; nothing else changes.
LEMMA Killed ==
  ASSUME procs \in Seq(Processes), NEW killed, Kill(killed)
  PROVE  /\ procs' \in Seq(Processes) /\ DOMAIN procs' = DOMAIN procs
         /\ \A i \in DOMAIN procs :
              /\ procs'[i].owner = procs[i].owner
              /\ procs'[i].alive => procs[i].alive /\ procs'[i].env = procs[i].env
              /\ procs'[i].env = procs[i].env \/ procs'[i].env = {}
              /\ i \in killed => ~procs'[i].alive
              /\ procs'[i].fate = procs[i].fate
         /\ \A t : Own(t)' = Own(t)
<1>1. /\ Len(procs) \in Nat /\ DOMAIN procs = 1 .. Len(procs)
      /\ \A i \in 1 .. Len(procs) : procs[i] \in Processes
  BY ElementOfSeq
<1> DEFINE e(i) == IF i \in killed THEN [procs[i] EXCEPT !.alive = FALSE, !.env = {}]
                   ELSE procs[i]
<1>2. \A i \in 1 .. Len(procs) : e(i) \in Processes
  BY <1>1 DEF Processes
<1>3. procs' = [i \in 1 .. Len(procs) |-> e(i)]
  BY <1>1 DEF Kill
<1>4. procs' \in [1 .. Len(procs) -> Processes]
  BY <1>2, <1>3
<1>5. procs' \in Seq(Processes) /\ DOMAIN procs' = DOMAIN procs
  BY <1>1, <1>4, SeqDef
<1>6. ASSUME NEW i \in DOMAIN procs
      PROVE  /\ procs'[i].owner = procs[i].owner
             /\ procs'[i].alive => procs[i].alive /\ procs'[i].env = procs[i].env
             /\ procs'[i].env = procs[i].env \/ procs'[i].env = {}
             /\ i \in killed => ~procs'[i].alive
             /\ procs'[i].fate = procs[i].fate
  <2>1. procs'[i] = e(i) /\ procs[i] \in Processes
    BY <1>1, <1>3
  <2>2. QED
    BY <2>1 DEF Processes
<1>7. \A t : Own(t)' = Own(t)
  BY <1>5, <1>6 DEF Own
<1>8. QED
  BY <1>5, <1>6, <1>7

\* Those that are told to end run on as they are.
LEMMA Doomed ==
  ASSUME procs \in Seq(Processes), NEW told, NEW lost, Fates(told, lost)
  PROVE  /\ procs' \in Seq(Processes) /\ DOMAIN procs' = DOMAIN procs
         /\ \A i \in DOMAIN procs :
              /\ procs'[i].owner = procs[i].owner /\ procs'[i].alive = procs[i].alive
              /\ procs'[i].env = procs[i].env
              /\ procs[i].fate # "owned" => procs'[i].fate # "owned"
              /\ i \in told \cup lost => procs'[i].fate # "owned"
         /\ \A t : Own(t)' = Own(t)
<1>1. /\ Len(procs) \in Nat /\ DOMAIN procs = 1 .. Len(procs)
      /\ \A i \in 1 .. Len(procs) : procs[i] \in Processes
  BY ElementOfSeq
<1> DEFINE e(i) == IF i \in told THEN [procs[i] EXCEPT !.fate = "told"]
                   ELSE IF i \in lost /\ procs[i].fate = "owned"
                   THEN [procs[i] EXCEPT !.fate = "lost"] ELSE procs[i]
<1>2. \A i \in 1 .. Len(procs) : e(i) \in Processes
  BY <1>1 DEF Processes
<1>3. procs' = [i \in 1 .. Len(procs) |-> e(i)]
  BY <1>1 DEF Fates
<1>4. procs' \in [1 .. Len(procs) -> Processes]
  BY <1>2, <1>3
<1>5. procs' \in Seq(Processes) /\ DOMAIN procs' = DOMAIN procs
  BY <1>1, <1>4, SeqDef
<1>6. ASSUME NEW i \in DOMAIN procs
      PROVE  /\ procs'[i].owner = procs[i].owner /\ procs'[i].alive = procs[i].alive
             /\ procs'[i].env = procs[i].env
             /\ procs[i].fate # "owned" => procs'[i].fate # "owned"
             /\ i \in told \cup lost => procs'[i].fate # "owned"
  <2>1. procs'[i] = e(i) /\ procs[i] \in Processes
    BY <1>1, <1>3
  <2>2. QED
    BY <2>1 DEF Processes
<1>7. \A t : Own(t)' = Own(t)
  BY <1>5, <1>6 DEF Own
<1>8. QED
  BY <1>5, <1>6, <1>7

\* A process that is started comes last and has read nothing.
LEMMA Started ==
  ASSUME procs \in Seq(Processes), NEW s \in Sessions, session[s].target \subseteq Devices,
         NEW fate \in {"owned", "lost"}, procs' \in Spawned(s, fate)
  PROVE  /\ procs' \in Seq(Processes) /\ DOMAIN procs' = DOMAIN procs \cup {Len(procs) + 1}
         /\ \A i \in DOMAIN procs : procs'[i] = procs[i]
         /\ procs'[Len(procs) + 1].env = {} /\ procs'[Len(procs) + 1].owner = s
         /\ procs'[Len(procs) + 1].fate = fate
         /\ Own(s)' = {Len(procs) + 1} /\ \A t : t # s => Own(t)' = Own(t)
         /\ Len(procs) + 1 \notin DOMAIN procs
<1>1. Len(procs) \in Nat /\ DOMAIN procs = 1 .. Len(procs)
  OBVIOUS
<1>2. PICK d \in session[s].target :
        procs' = Append(procs, [owner |-> s, device |-> d, env |-> {}, alive |-> TRUE,
                                fate |-> fate])
  BY DEF Spawned
<1>3. PICK new : new = [owner |-> s, device |-> d, env |-> {}, alive |-> TRUE, fate |-> fate]
  OBVIOUS
<1>4. new \in Processes /\ new.env = {} /\ new.owner = s /\ new.fate = fate
  BY <1>2, <1>3 DEF Processes
<1>5. procs' = Append(procs, new)
  BY <1>2, <1>3
<1>6. /\ procs' \in Seq(Processes) /\ Len(procs') = Len(procs) + 1
      /\ DOMAIN procs' = 1 .. Len(procs) + 1
      /\ \A i \in 1 .. Len(procs) : procs'[i] = procs[i]
      /\ procs'[Len(procs) + 1] = new
  BY <1>1, <1>4, <1>5
<1>7. Own(s)' = {Len(procs) + 1}
  BY <1>1, <1>4, <1>6 DEF Own
<1>8. ASSUME NEW t, t # s PROVE Own(t)' = Own(t)
  BY <1>1, <1>4, <1>6, <1>8 DEF Own
<1>9. QED
  BY <1>1, <1>4, <1>6, <1>7, <1>8

LEMMA Reads ==
  ASSUME procs \in Seq(Processes), patched \subseteq Patches, NEW i \in DOMAIN procs,
         ReadRun(i)
  PROVE  /\ procs' \in Seq(Processes) /\ DOMAIN procs' = DOMAIN procs
         /\ \A j \in DOMAIN procs : /\ procs'[j].owner = procs[j].owner
                                    /\ procs'[j].alive = procs[j].alive
                                    /\ procs'[j].fate = procs[j].fate
                                    /\ j # i => procs'[j] = procs[j]
         /\ procs'[i].env = patched
         /\ \A t : Own(t)' = Own(t)
<1>1. /\ Len(procs) \in Nat /\ DOMAIN procs = 1 .. Len(procs)
      /\ \A j \in 1 .. Len(procs) : procs[j] \in Processes
  BY ElementOfSeq
<1>2. PICK new : new = [procs[i] EXCEPT !.env = patched]
  OBVIOUS
<1>3. new \in Processes /\ new.env = patched /\ new.owner = procs[i].owner
        /\ new.alive = procs[i].alive /\ new.fate = procs[i].fate
  BY <1>1, <1>2 DEF Processes
<1>4. procs' = [procs EXCEPT ![i] = new]
  BY <1>2 DEF ReadRun
<1>5. /\ procs' \in Seq(Processes) /\ DOMAIN procs' = DOMAIN procs
      /\ \A j \in DOMAIN procs : procs'[j] = IF j = i THEN new ELSE procs[j]
  BY <1>1, <1>3, <1>4
<1>6. \A t : Own(t)' = Own(t)
  BY <1>3, <1>5 DEF Own
<1>7. QED
  BY <1>3, <1>5, <1>6

-----------------------------------------------------------------------------
(* Sessions: types and control *)

\* A session under way has a device, one that starts processes a build, one
\* that is up a process; only one whose start() has returned is told to stop,
\* and then it is in its loop or its supervisor in _spawn.
RecordOK(r, own) ==
  /\ AtMostOne(r.target)
  /\ r.phase \notin {"idle", "ended"} => r.target # {}
  /\ r.phase \in {"patch", "popen", "wait", "up"} => r.run # {}
  /\ r.phase = "up" => r.started /\ own # {}
  /\ r.asked => r.started
  /\ r.started => r.phase \in {"patch", "popen", "up"}

SessionTypeOK ==
  /\ session \in [Sessions -> Records] /\ procs \in Seq(Processes)
  /\ patched \subseteq Patches /\ AtMostOne(patched)
  /\ faults \in 0 .. MaxFaults /\ booted \subseteq Udids
  /\ \A s \in Sessions : RecordOK(session[s], Own(s))

LEMMA SessionMoves ==
  ASSUME SessionTypeOK, NEW s \in Sessions, NEW r \in Records,
         session' = [session EXCEPT ![s] = r], RecordOK(r, Own(s)'),
         \A t \in Sessions \ {s} : Own(t)' = Own(t)
  PROVE  /\ session' \in [Sessions -> Records]
         /\ session'[s] = r /\ \A t \in Sessions \ {s} : session'[t] = session[t]
         /\ \A t \in Sessions : RecordOK(session'[t], Own(t)')
<1>1. /\ session' \in [Sessions -> Records]
      /\ session'[s] = r /\ \A t \in Sessions \ {s} : session'[t] = session[t]
  BY DEF SessionTypeOK
<1>2. \A t \in Sessions \ {s} : RecordOK(session'[t], Own(t)')
  BY <1>1 DEF SessionTypeOK
<1>3. QED
  BY <1>1, <1>2

LEMMA OverFields ==
  /\ Over.phase = "ended" /\ Over.stale.procs = {} /\ Over.stale.owners = {}
  /\ ~Over.started /\ ~Over.asked /\ ~Over.disturbed
BY DEF Over, Fresh

LEMMA OverOK == Over \in Records /\ \A own : RecordOK(Over, own)
BY DEF Over, Fresh, Records, Stale, Phases, RecordOK, AtMostOne

LEMMA TypedRecord == SessionTypeOK => \A s \in Sessions : session[s] \in Records
BY DEF SessionTypeOK

LEMMA ListedRecord ==
  ASSUME NEW r \in Records, NEW phase \in Phases, NEW stale \in Stale
  PROVE  [r EXCEPT !.phase = phase, !.stale = stale] \in Records
BY DEF Records

\* A session whose step changes only where it is.
LEMMA StepOK ==
  ASSUME SessionTypeOK, NEW s \in Sessions, NEW from, NEW to \in Phases, Step(s, from, to),
         \A t \in Sessions \ {s} : Own(t)' = Own(t),
         RecordOK([session[s] EXCEPT !.phase = to], Own(s)')
  PROVE  /\ session' \in [Sessions -> Records]
         /\ \A t \in Sessions : RecordOK(session'[t], Own(t)')
<1>1. [session[s] EXCEPT !.phase = to] \in Records
  BY TypedRecord DEF Records
<1>2. QED
  BY <1>1, SessionMoves DEF Step, Move

LEMMA ResolveTargetType ==
  ASSUME SessionTypeOK, NEW s \in Sessions, NEW udid, ResolveTarget(s, udid)
  PROVE  SessionTypeOK'
<1> DEFINE found == ResolveDevice(udid)
           r == IF found = {} THEN Over ELSE [Fresh EXCEPT !.phase = "list", !.target = found]
<1>1. found \subseteq Devices /\ AtMostOne(found)
  BY Resolved
<1>2. r \in Records /\ \A own : RecordOK(r, own)
  BY <1>1, OverOK DEF Fresh, Records, Stale, Phases, RecordOK
<1>3. session' = [session EXCEPT ![s] = r] /\ UNCHANGED <<patched, procs, faults, booted>>
  BY DEF ResolveTarget, Move
<1>4. \A t : Own(t)' = Own(t)
  BY <1>3 DEF Own
<1> HIDE DEF r
<1>5. QED
  BY <1>2, <1>3, <1>4, SessionMoves DEF SessionTypeOK

LEMMA ListStaleType ==
  ASSUME SessionTypeOK, NEW s \in Sessions, ListStale(s)
  PROVE  SessionTypeOK'
<1> DEFINE found == {i \in Living : procs[i].device \in session[s].target}
           owners == {t \in {procs[i].owner : i \in found} : Phase(t) # "ended"}
           r == [session[s] EXCEPT !.phase = IF found = {} THEN "boot" ELSE "kill runners",
                                   !.stale = [procs |-> found, owners |-> owners]]
<1>1. found \subseteq Nat /\ owners \subseteq Sessions
  <2>1. /\ DOMAIN procs \subseteq Nat
        /\ \A i \in DOMAIN procs : procs[i] \in Processes
    BY ElementOfSeq DEF SessionTypeOK
  <2>2. \A i \in DOMAIN procs : procs[i].owner \in Sessions
    BY <2>1 DEF Processes
  <2>3. QED
    BY <2>1, <2>2 DEF Living
<1>2. r \in Records
  <2>1. [procs |-> found, owners |-> owners] \in Stale
    BY <1>1 DEF Stale
  <2>2. (IF found = {} THEN "boot" ELSE "kill runners") \in Phases
    BY DEF Phases
  <2> HIDE DEF found, owners
  <2>3. QED
    BY <2>1, <2>2, TypedRecord, ListedRecord
<1>3. session' = [session EXCEPT ![s] = r] /\ UNCHANGED <<patched, procs, faults, booted>>
  BY DEF ListStale, Move
<1>4. \A t : Own(t)' = Own(t)
  BY <1>3 DEF Own
<1>5. /\ r.target = session[s].target /\ r.asked = session[s].asked
      /\ r.started = session[s].started /\ r.phase \in {"boot", "kill runners"}
      /\ session[s].phase = "list"
  BY DEF SessionTypeOK, Records, ListStale, Move, Phase
<1> HIDE DEF r
<1>6. \A own : RecordOK(r, own)
  BY <1>5 DEF SessionTypeOK, RecordOK
<1>7. QED
  BY <1>2, <1>3, <1>4, <1>6, SessionMoves DEF SessionTypeOK

\* Steps that change nothing but where the session is, and the processes at
\* most by killing.
LEMMA PlaceOK ==
  ASSUME SessionTypeOK, NEW s \in Sessions, NEW from, NEW to \in Phases, Step(s, from, to),
         \A t : Own(t)' = Own(t), to \notin {"idle", "ended"}, from \notin {"idle", "ended"},
         to \in {"patch", "popen", "wait", "up"} => from \in {"patch", "popen", "wait", "up"},
         to # "up", to \in {"patch", "popen"} <=> from \in {"patch", "popen", "up"}
  PROVE  /\ session' \in [Sessions -> Records]
         /\ \A t \in Sessions : RecordOK(session'[t], Own(t)')
<1>1. PICK r : r = [session[s] EXCEPT !.phase = to]
  OBVIOUS
<1>2. session[s] \in Records /\ session[s].phase = from /\ RecordOK(session[s], Own(s))
  BY DEF SessionTypeOK, Step, Move, Phase
<1>3. /\ r.phase = to /\ r.target = session[s].target /\ r.run = session[s].run
      /\ r.started = session[s].started /\ r.asked = session[s].asked
  BY <1>1, <1>2 DEF Records
<1>4. RecordOK(r, Own(s)')
  BY <1>2, <1>3 DEF RecordOK
<1>5. QED
  BY <1>1, <1>4, StepOK

LEMMA FaultsOK ==
  ASSUME SessionTypeOK, Fault \/ UNCHANGED faults \/ \E missed : Miss(missed)
  PROVE  faults' \in 0 .. MaxFaults
BY SessionsAssumption DEF Fault, Miss, SessionTypeOK

LEMMA ListFailsType ==
  ASSUME SessionTypeOK, NEW s \in Sessions, ListFails(s)
  PROVE  SessionTypeOK'
<1>1. UNCHANGED <<patched, procs, booted>> /\ Step(s, "list", "boot") /\ faults' \in 0 .. MaxFaults
  BY FaultsOK DEF ListFails
<1>2. \A t : Own(t)' = Own(t)
  BY <1>1 DEF Own
<1>3. /\ session' \in [Sessions -> Records]
      /\ \A t \in Sessions : RecordOK(session'[t], Own(t)')
  BY <1>1, <1>2, PlaceOK DEF Phases
<1>4. QED
  BY <1>1, <1>3 DEF SessionTypeOK

LEMMA KillRunnersType ==
  ASSUME SessionTypeOK, NEW s \in Sessions, KillRunners(s)
  PROVE  SessionTypeOK'
<1>1. procs' \in Seq(Processes) /\ \A t : Own(t)' = Own(t)
  BY Doomed DEF KillRunners, SessionTypeOK
<1>2. Step(s, "kill runners", "kill supervisors")
  BY DEF KillRunners
<1>0. faults' \in 0 .. MaxFaults
  BY FaultsOK DEF KillRunners
<1>3. /\ session' \in [Sessions -> Records]
      /\ \A t \in Sessions : RecordOK(session'[t], Own(t)')
  BY <1>1, <1>2, PlaceOK DEF Phases
<1>4. QED
  BY <1>0, <1>1, <1>3 DEF KillRunners, SessionTypeOK

LEMMA KillSupervisorsType ==
  ASSUME SessionTypeOK, NEW s \in Sessions, KillSupervisors(s)
  PROVE  SessionTypeOK'
<1>0. faults' \in 0 .. MaxFaults
  BY FaultsOK DEF KillSupervisors
<1>1. PICK missed :
      /\ UNCHANGED <<patched, procs, booted>> /\ session[s].phase = "kill supervisors"
      /\ session' = [t \in Sessions |->
           IF t = s THEN [session[t] EXCEPT !.phase = "pause", !.stale.owners = @ \ missed]
           ELSE IF t \notin session[s].stale.owners \ missed THEN session[t]
           ELSE IF session[t].started THEN [session[t] EXCEPT !.asked = TRUE] ELSE Over]
  BY DEF KillSupervisors, Phase
<1>2. \A t : Own(t)' = Own(t)
  BY <1>1 DEF Own
<1>3. ASSUME NEW t \in Sessions
      PROVE  session'[t] \in Records /\ RecordOK(session'[t], Own(t)')
  <2>1. session[t] \in Records /\ RecordOK(session[t], Own(t))
    BY DEF SessionTypeOK
  <2>2. CASE t = s
    <3>1. PICK r : r = [session[t] EXCEPT !.phase = "pause", !.stale.owners = @ \ missed]
      OBVIOUS
    <3>2. /\ r \in Records /\ r.phase = "pause" /\ r.target = session[t].target
          /\ r.started = session[t].started /\ r.asked = session[t].asked
      BY <2>1, <3>1 DEF Records, Stale, Phases
    <3>3. RecordOK(r, Own(t)')
      BY <1>1, <2>1, <2>2, <3>2 DEF RecordOK
    <3>4. QED
      BY <1>1, <2>2, <3>1, <3>2, <3>3
  <2>3. CASE t # s /\ t \in session[s].stale.owners \ missed /\ session[t].started
    <3>1. PICK r : r = [session[t] EXCEPT !.asked = TRUE]
      OBVIOUS
    <3>2. /\ r \in Records /\ r.phase = session[t].phase /\ r.target = session[t].target
          /\ r.run = session[t].run /\ r.started = session[t].started
      BY <2>1, <3>1 DEF Records
    <3>3. RecordOK(r, Own(t)')
      BY <1>2, <2>1, <2>3, <3>2 DEF RecordOK
    <3>4. QED
      BY <1>1, <2>3, <3>1, <3>2, <3>3
  <2>4. CASE t # s /\ t \in session[s].stale.owners \ missed /\ ~session[t].started
    BY <1>1, <2>4, OverOK
  <2>5. CASE t # s /\ t \notin session[s].stale.owners \ missed
    BY <1>1, <1>2, <2>1, <2>5
  <2>6. QED
    BY <2>2, <2>3, <2>4, <2>5
<1>4. session' \in [Sessions -> Records]
  BY <1>1, <1>3
<1>5. QED
  BY <1>0, <1>1, <1>2, <1>3, <1>4 DEF SessionTypeOK

LEMMA BootType ==
  ASSUME SessionTypeOK, NEW s \in Sessions, Boot(s)
  PROVE  SessionTypeOK'
<1>1. UNCHANGED <<patched, procs, faults>> /\ Step(s, "boot", "locate")
  BY DEF Boot
<1>2. \A t : Own(t)' = Own(t)
  BY <1>1 DEF Own
<1>3. /\ session' \in [Sessions -> Records]
      /\ \A t \in Sessions : RecordOK(session'[t], Own(t)')
  BY <1>1, <1>2, PlaceOK DEF Phases
<1>4. booted' \subseteq Udids
  <2>1. session[s] \in Records /\ session[s].target # {}
    BY <1>1 DEF SessionTypeOK, RecordOK, Step, Move, Phase
  <2>2. PICK d \in session[s].target : TRUE
    BY <2>1
  <2>3. d \in Devices
    BY <2>1, <2>2 DEF Records
  <2>4. booted' = booted \cup {d.udid} \/ booted' = booted
    BY <2>2 DEF Boot, BootSimulator
  <2>5. QED
    BY <2>3, <2>4 DEF SessionTypeOK, Udids
<1>5. QED
  BY <1>1, <1>2, <1>3, <1>4 DEF SessionTypeOK

LEMMA TakeBuildType ==
  ASSUME MacTypeOK, SessionTypeOK, NEW s \in Sessions, TakeBuild(s)
  PROVE  SessionTypeOK'
<1>1. PICK run : run = Located(s)
  OBVIOUS
<1>2. run \subseteq TestRuns
  <2>1. \A f \in Platforms : LocateBuild(f) \subseteq TestRuns
    BY DEF LocateBuild, MacTypeOK, TestRuns
  <2>2. \A d : Platform(d) \in Platforms
    BY DEF Platform, Platforms
  <2>3. QED
    BY <1>1, <2>1, <2>2 DEF Located
<1>3. session[s] \in Records /\ RecordOK(session[s], Own(s)) /\ session[s].phase = "locate"
  BY DEF SessionTypeOK, TakeBuild, Move, Phase
<1>4. PICK r : r = IF run = {} THEN Over ELSE [session[s] EXCEPT !.phase = "patch", !.run = run]
  OBVIOUS
<1>5. r \in Records /\ \A own : RecordOK(r, own)
  <2>1. CASE run = {}
    BY <1>4, <2>1, OverOK
  <2>2. CASE run # {}
    <3>1. /\ r \in Records /\ r.phase = "patch" /\ r.run = run /\ r.target = session[s].target
          /\ r.started = session[s].started /\ r.asked = session[s].asked
      BY <1>2, <1>3, <1>4, <2>2 DEF Records, Phases
    <3>2. QED
      BY <1>3, <2>2, <3>1 DEF RecordOK
  <2>3. QED
    BY <2>1, <2>2
<1>6. session' = [session EXCEPT ![s] = r] /\ UNCHANGED <<patched, procs, faults, booted>>
  BY <1>1, <1>4 DEF TakeBuild, Move
<1>7. \A t : Own(t)' = Own(t)
  BY <1>6 DEF Own
<1>8. QED
  BY <1>5, <1>6, <1>7, SessionMoves DEF SessionTypeOK

LEMMA PatchType ==
  ASSUME SessionTypeOK, NEW s \in Sessions, Patch(s)
  PROVE  SessionTypeOK'
<1>1. /\ UNCHANGED <<procs, faults, booted>> /\ session[s].phase = "patch"
      /\ patched' = {[owner |-> s, platform |-> Platform(d)] : d \in session[s].target}
      /\ session' = [t \in Sessions |->
           IF t = s THEN [session[t] EXCEPT !.phase = "popen", !.disturbed = FALSE]
           ELSE [session[t] EXCEPT !.disturbed = @ \/ Reading(t)]]
  BY DEF Patch, Phase
<1>2. \A t : Own(t)' = Own(t)
  BY <1>1 DEF Own
<1>3. ASSUME NEW t \in Sessions
      PROVE  session'[t] \in Records /\ RecordOK(session'[t], Own(t)')
  <2>1. session[t] \in Records /\ RecordOK(session[t], Own(t))
    BY DEF SessionTypeOK
  <2>2. PICK r : r = session'[t]
    OBVIOUS
  <2>3. /\ r \in Records /\ r.target = session[t].target /\ r.run = session[t].run
        /\ r.started = session[t].started /\ r.asked = session[t].asked
        /\ r.phase = IF t = s THEN "popen" ELSE session[t].phase
    <3>1. CASE t = s
      BY <1>1, <2>1, <2>2, <3>1 DEF Records, Phases
    <3>2. CASE t # s
      <4>1. PICK b \in BOOLEAN : b = (session[t].disturbed \/ Reading(t))
        OBVIOUS
      <4>2. r = [session[t] EXCEPT !.disturbed = b]
        BY <1>1, <2>2, <3>2, <4>1
      <4>3. QED
        BY <2>1, <3>2, <4>2 DEF Records
    <3>3. QED
      BY <3>1, <3>2
  <2>4. RecordOK(r, Own(t)')
    BY <1>1, <1>2, <2>1, <2>3 DEF RecordOK
  <2>5. QED
    BY <2>2, <2>3, <2>4
<1>4. session' \in [Sessions -> Records]
  BY <1>1, <1>3
<1>5. patched' \subseteq Patches /\ AtMostOne(patched')
  <2>1. \A d : Platform(d) \in Platforms
    BY DEF Platform, Platforms
  <2>2. AtMostOne(session[s].target)
    BY DEF SessionTypeOK, RecordOK
  <2>3. ASSUME NEW x \in patched' PROVE x \in Patches
    <3>1. PICK d \in session[s].target : x = [owner |-> s, platform |-> Platform(d)]
      BY <1>1
    <3>2. PICK f \in Platforms : f = Platform(d)
      BY <2>1
    <3>3. QED
      BY <3>1, <3>2 DEF Patches
  <2>4. \A d, e \in session[s].target : d = e
    BY <2>2 DEF AtMostOne
  <2>5. ASSUME NEW x \in patched', NEW y \in patched' PROVE x = y
    <3>1. PICK d \in session[s].target : x = [owner |-> s, platform |-> Platform(d)]
      BY <1>1
    <3>2. PICK e \in session[s].target : y = [owner |-> s, platform |-> Platform(e)]
      BY <1>1
    <3>3. QED
      BY <2>4, <3>1, <3>2
  <2>6. QED
    BY <2>3, <2>5 DEF AtMostOne
<1>6. QED
  BY <1>1, <1>2, <1>3, <1>4, <1>5 DEF SessionTypeOK

LEMMA PopenType ==
  ASSUME SessionTypeOK, NEW s \in Sessions, Popen(s)
  PROVE  SessionTypeOK'
<1>1. session[s] \in Records /\ RecordOK(session[s], Own(s)) /\ session[s].phase = "popen"
  BY DEF SessionTypeOK, Popen, Step, Move, Phase
<1>2. /\ procs' \in Seq(Processes) /\ Own(s)' # {}
      /\ \A t \in Sessions \ {s} : Own(t)' = Own(t)
  <2>1. session[s].target \subseteq Devices
    BY <1>1 DEF Records
  <2>2. QED
    BY <2>1, Started DEF Popen, SessionTypeOK
<1>3. PICK to : to = IF session[s].started THEN "up" ELSE "wait"
  OBVIOUS
<1>4. PICK r : r = [session[s] EXCEPT !.phase = to]
  OBVIOUS
<1>5. to \in Phases
  BY <1>3 DEF Phases
<1>6. /\ r.phase = to /\ r.target = session[s].target /\ r.run = session[s].run
      /\ r.started = session[s].started /\ r.asked = session[s].asked
  BY <1>1, <1>4 DEF Records
<1>7. RecordOK(r, Own(s)')
  BY <1>1, <1>2, <1>3, <1>6 DEF RecordOK
<1>8. Step(s, "popen", to)
  BY <1>3 DEF Popen
<1>9. /\ session' \in [Sessions -> Records]
      /\ \A t \in Sessions : RecordOK(session'[t], Own(t)')
  BY <1>2, <1>4, <1>5, <1>7, <1>8, StepOK
<1>10. QED
  BY <1>2, <1>9 DEF Popen, SessionTypeOK

LEMMA StartReturnsType ==
  ASSUME SessionTypeOK, NEW s \in Sessions, StartReturns(s)
  PROVE  SessionTypeOK'
<1>1. session[s] \in Records /\ RecordOK(session[s], Own(s)) /\ session[s].phase = "wait"
  BY DEF SessionTypeOK, StartReturns, Move, Phase
<1>2. Own(s) # {}
  BY DEF StartReturns, Reachable
<1>3. PICK r : r = [session[s] EXCEPT !.phase = "up", !.started = TRUE]
  OBVIOUS
<1>4. /\ r \in Records /\ r.phase = "up" /\ r.target = session[s].target
      /\ r.run = session[s].run /\ r.started
  BY <1>1, <1>3 DEF Records, Phases
<1>5. session' = [session EXCEPT ![s] = r] /\ UNCHANGED <<patched, procs, faults, booted>>
  BY <1>3 DEF StartReturns, Move
<1>6. \A t : Own(t)' = Own(t)
  BY <1>5 DEF Own
<1>7. RecordOK(r, Own(s)')
  BY <1>1, <1>2, <1>4, <1>6 DEF RecordOK
<1>8. QED
  BY <1>4, <1>5, <1>6, <1>7, SessionMoves DEF SessionTypeOK

LEMMA StartRaisesType ==
  ASSUME SessionTypeOK, NEW s \in Sessions, StartRaises(s)
  PROVE  SessionTypeOK'
<1>0. faults' \in 0 .. MaxFaults
  BY FaultsOK DEF StartRaises
<1>1. procs' \in Seq(Processes) /\ \A t : Own(t)' = Own(t)
  BY Killed, Doomed DEF StartRaises, SessionTypeOK
<1>2. session' = [session EXCEPT ![s] = Over]
  BY DEF StartRaises, Move
<1>3. QED
  BY <1>0, <1>1, <1>2, OverOK, SessionMoves DEF StartRaises, SessionTypeOK

LEMMA CtrlCType ==
  ASSUME SessionTypeOK, NEW s \in Sessions, CtrlC(s)
  PROVE  SessionTypeOK'
<1>1. session[s] \in Records /\ RecordOK(session[s], Own(s)) /\ session[s].started
  BY DEF SessionTypeOK, CtrlC
<1>2. PICK r : r = [session[s] EXCEPT !.asked = TRUE]
  OBVIOUS
<1>3. /\ r \in Records /\ r.phase = session[s].phase /\ r.target = session[s].target
      /\ r.run = session[s].run /\ r.started = session[s].started
  BY <1>1, <1>2 DEF Records
<1>4. session' = [session EXCEPT ![s] = r] /\ UNCHANGED <<patched, procs, faults, booted>>
  BY <1>2 DEF CtrlC, SessionTypeOK
<1>5. \A t : Own(t)' = Own(t)
  BY <1>4 DEF Own
<1>6. RecordOK(r, Own(s)')
  BY <1>1, <1>3, <1>5 DEF RecordOK
<1>7. QED
  BY <1>3, <1>4, <1>5, <1>6, SessionMoves DEF SessionTypeOK

LEMMA StopSessionType ==
  ASSUME SessionTypeOK, NEW s \in Sessions, StopSession(s)
  PROVE  SessionTypeOK'
<1>1. session' = [session EXCEPT ![s] = Over] /\ UNCHANGED <<patched, faults, booted>>
  BY DEF StopSession
<1>2. procs' \in Seq(Processes) /\ \A t \in Sessions \ {s} : Own(t)' = Own(t)
  <2>1. session[s].target \subseteq Devices
    BY TypedRecord DEF Records
  <2>2. QED
    BY <2>1, Killed, Started DEF StopSession, SessionTypeOK
<1>3. QED
  BY <1>1, <1>2, OverOK, SessionMoves DEF SessionTypeOK

LEMMA ControllerDiesType ==
  ASSUME SessionTypeOK, NEW s \in Sessions, ControllerDies(s)
  PROVE  SessionTypeOK'
<1>1. /\ session' = [session EXCEPT ![s] = Over] /\ UNCHANGED <<patched, booted>>
      /\ faults' \in 0 .. MaxFaults
  BY FaultsOK DEF ControllerDies
<1>2. procs' \in Seq(Processes) /\ \A t : Own(t)' = Own(t)
  BY Doomed DEF ControllerDies, SessionTypeOK
<1>3. QED
  BY <1>1, <1>2, OverOK, SessionMoves DEF SessionTypeOK

LEMMA SessionStepType ==
  ASSUME MacTypeOK, SessionTypeOK, NEW s \in Sessions, SessionStep(s)
  PROVE  SessionTypeOK'
<1>1. ASSUME NEW from, NEW to, Step(s, from, to), UNCHANGED <<patched, procs, faults, booted>>,
             <<from, to>> \in {<<"pause", "boot">>, <<"up", "patch">>}
      PROVE  SessionTypeOK'
  <2>1. \A t : Own(t)' = Own(t)
    BY <1>1 DEF Own
  <2>2. /\ session' \in [Sessions -> Records]
        /\ \A t \in Sessions : RecordOK(session'[t], Own(t)')
    BY <1>1, <2>1, PlaceOK DEF Phases
  <2>3. QED
    BY <1>1, <2>2 DEF SessionTypeOK
<1>2. CASE Pause(s) \/ Respawn(s)
  BY <1>1, <1>2 DEF Pause, Respawn
<1>3. QED
  BY <1>2, ResolveTargetType, ListStaleType, ListFailsType, KillRunnersType, KillSupervisorsType, BootType,
     TakeBuildType, PatchType, PopenType, StartReturnsType, StartRaisesType, CtrlCType,
     StopSessionType, ControllerDiesType
     DEF SessionStep

LEMMA ProcessStepType ==
  ASSUME SessionTypeOK, NEW i \in DOMAIN procs, ProcessStep(i)
  PROVE  SessionTypeOK'
<1>1. /\ procs' \in Seq(Processes) /\ \A t : Own(t)' = Own(t)
      /\ faults' \in 0 .. MaxFaults /\ UNCHANGED <<session, patched, booted>>
  BY Killed, Reads, SessionsAssumption
     DEF ProcessStep, ReadRun, ProcessEnds, Fault, SessionTypeOK
<1>2. QED
  BY <1>1 DEF SessionTypeOK

-----------------------------------------------------------------------------
(* Sessions: what is found on the device ends *)

\* A session has processes only from its first wait on, one until it has started;
\* of its processes only the last may run, and none before the next is started;
\* and none goes on for good when the controller is over.
ProcsOK(t) ==
  \A i \in DOMAIN procs : procs[i].owner = t =>
    /\ Phase(t) \in {"wait", "ended"} \/ session[t].started
    /\ i \notin Own(t) => ~procs[i].alive
    /\ Phase(t) \in {"patch", "popen"} => ~procs[i].alive
    /\ Phase(t) = "ended" => Settled(i)
    /\ session[t].started \/ Phase(t) = "ended" \/ i \in Own(t)

Signalled == {"pause", "boot", "locate", "patch", "popen", "wait", "up"}

\* From the first signals on the processes found are dead, told to end or lost;
\* after the second round a controller its signal has reached is told to stop or
\* over.  A controller was found as the parent of a process; no session finds
\* itself, or anything before it looks.
StaleOK(s) ==
  LET stale == session[s].stale
  IN  /\ stale.procs \subseteq DOMAIN procs
      /\ s \notin stale.owners
      /\ Phase(s) \in {"idle", "list"} => stale.procs = {} /\ stale.owners = {}
      /\ \A t \in stale.owners : \E i \in stale.procs : procs[i].owner = t
      /\ Phase(s) \in {"kill supervisors"} \cup Signalled => \A i \in stale.procs : Settled(i)
      /\ Phase(s) \in Signalled =>
           \A t \in stale.owners : Phase(t) = "ended" \/ session[t].asked

StaleInv == \A s \in Sessions : ProcsOK(s) /\ StaleOK(s)

\* What every step keeps of a session: an end, and a signal until then.
Onward(t) ==
  /\ session[t].phase = "ended" => session'[t].phase = "ended"
  /\ session[t].asked => session'[t].asked \/ session'[t].phase = "ended"

\* A session that comes no further in clearing its device, or is over.
Kept(t) ==
  \/ session'[t] = Over
  \/ /\ session'[t].stale = session[t].stale
     /\ \/ session'[t].phase = session[t].phase
        \/ {session[t].phase, session'[t].phase} \subseteq Signalled

\* The processes: none comes to life again, or is told to go on.
ProcsOnward ==
  /\ DOMAIN procs \subseteq DOMAIN procs'
  /\ \A i \in DOMAIN procs :
       procs'[i].owner = procs[i].owner /\ (Settled(i) => Settled(i)')

\* None is started besides.
ProcsQuiet ==
  /\ DOMAIN procs' = DOMAIN procs
  /\ \A i \in DOMAIN procs :
       /\ procs'[i].owner = procs[i].owner
       /\ procs'[i].alive => procs[i].alive
       /\ procs[i].fate # "owned" => procs'[i].fate # "owned"
  /\ \A t : Own(t)' = Own(t)

LEMMA QuietOnward == ProcsQuiet => ProcsOnward
BY DEF ProcsQuiet, ProcsOnward, Settled

LEMMA QuietSteps ==
  ASSUME SessionTypeOK,
         \/ UNCHANGED procs
         \/ \E killed : Kill(killed)
         \/ \E told, lost : Fates(told, lost)
         \/ \E i \in DOMAIN procs : ReadRun(i)
  PROVE  ProcsQuiet
<1>1. UNCHANGED procs => ProcsQuiet
  BY DEF ProcsQuiet, Own
<1>2. ASSUME NEW killed, Kill(killed) PROVE ProcsQuiet
  BY <1>2, Killed DEF ProcsQuiet, SessionTypeOK
<1>3. ASSUME NEW told, NEW lost, Fates(told, lost) PROVE ProcsQuiet
  BY <1>3, Doomed DEF ProcsQuiet, SessionTypeOK
<1>4. ASSUME NEW i \in DOMAIN procs, ReadRun(i) PROVE ProcsQuiet
  BY <1>4, Reads DEF ProcsQuiet, SessionTypeOK
<1>5. QED
  BY <1>1, <1>2, <1>3, <1>4

Owns(t, i) == i \in DOMAIN procs /\ procs[i].owner = t

\* How far a session may come without starting a process: it stays where it is; or
\* has no process yet; or goes on, with none running before the next is started;
\* or it is over, and leaves none that goes on for good.
Calm(t) ==
  \/ session'[t].phase = session[t].phase /\ session'[t].started = session[t].started
  \/ session[t].phase \notin {"wait", "ended"} /\ ~session[t].started
  \/ /\ session'[t].started /\ session'[t].phase # "ended"
     /\ session'[t].phase \in {"patch", "popen"} => \A i : Owns(t, i) => ~procs'[i].alive
  \/ session'[t].phase = "ended" /\ \A i : Owns(t, i) => Settled(i)'

LEMMA QuietKept ==
  ASSUME NEW t \in Sessions, ProcsOK(t), ProcsQuiet, Calm(t)
  PROVE  ProcsOK(t)'
<1> SUFFICES ASSUME NEW i \in DOMAIN procs', procs'[i].owner = t
             PROVE  /\ session'[t].phase \in {"wait", "ended"} \/ session'[t].started
                    /\ i \notin Own(t)' => ~procs'[i].alive
                    /\ session'[t].phase \in {"patch", "popen"} => ~procs'[i].alive
                    /\ session'[t].phase = "ended" => Settled(i)'
                    /\ session'[t].started \/ session'[t].phase = "ended" \/ i \in Own(t)'
  BY DEF ProcsOK, Phase
<1>1. Owns(t, i) /\ Own(t)' = Own(t) /\ (procs'[i].alive => procs[i].alive)
  BY DEF Owns, ProcsQuiet
<1>2. Settled(i) => Settled(i)'
  BY <1>1 DEF Owns, ProcsQuiet, Settled
<1>3. /\ session[t].phase \in {"wait", "ended"} \/ session[t].started
      /\ i \notin Own(t) => ~procs[i].alive
      /\ session[t].phase \in {"patch", "popen"} => ~procs[i].alive
      /\ session[t].phase = "ended" => Settled(i)
      /\ session[t].started \/ session[t].phase = "ended" \/ i \in Own(t)
  BY <1>1 DEF ProcsOK, Phase, Owns
<1>4. i \notin Own(t)' => ~procs'[i].alive
  BY <1>1, <1>3
<1> QED
  BY <1>1, <1>2, <1>3, <1>4 DEF Calm

\* A process is started by a session with none that runs.
LEMMA SpawnKept ==
  ASSUME SessionTypeOK, StaleInv, NEW s \in Sessions, session[s].phase = "popen",
         NEW fate \in {"owned", "lost"}, procs' \in Spawned(s, fate),
         \A t \in Sessions \ {s} : session'[t] = session[t],
         \/ session'[s].phase = "ended" /\ fate = "lost"
         \/ session'[s].phase = "wait" /\ ~session[s].started
         \/ session'[s].phase = "up" /\ session[s].started /\ session'[s].started
  PROVE  ProcsOnward /\ \A t \in Sessions : ProcsOK(t)'
<1>1. session[s].target \subseteq Devices
  BY TypedRecord DEF Records
<1>2. PICK new :
        /\ new \notin DOMAIN procs /\ DOMAIN procs' = DOMAIN procs \cup {new}
        /\ \A i \in DOMAIN procs : procs'[i] = procs[i]
        /\ procs'[new].owner = s /\ procs'[new].fate = fate
        /\ Own(s)' = {new} /\ \A t : t # s => Own(t)' = Own(t)
  BY <1>1, Started DEF SessionTypeOK
<1>3. \A i \in DOMAIN procs : Settled(i)' = Settled(i)
  BY <1>2 DEF Settled
<1>4. ASSUME NEW t \in Sessions \ {s} PROVE ProcsOK(t)'
  <2>1. ProcsOK(t)
    BY DEF StaleInv
  <2>2. \A i \in DOMAIN procs' : procs'[i].owner = t => i \in DOMAIN procs
    BY <1>2
  <2>3. Own(t)' = Own(t) /\ session'[t] = session[t]
    BY <1>2
  <2>4. QED
    BY <1>2, <1>3, <2>1, <2>2, <2>3 DEF ProcsOK, Phase
<1>5. ProcsOK(s)'
  <2>1. \A i \in DOMAIN procs : procs[i].owner = s =>
          session[s].started /\ ~procs[i].alive
    BY DEF StaleInv, ProcsOK, Phase
  <2>2. ASSUME NEW i \in DOMAIN procs', procs'[i].owner = s
        PROVE  /\ session'[s].phase \in {"wait", "ended"} \/ session'[s].started
               /\ i \notin Own(s)' => ~procs'[i].alive
               /\ session'[s].phase \in {"patch", "popen"} => ~procs'[i].alive
               /\ session'[s].phase = "ended" => Settled(i)'
               /\ session'[s].started \/ session'[s].phase = "ended" \/ i \in Own(s)'
    <3>1. CASE i = new
      BY <1>2, <3>1 DEF Settled
    <3>2. CASE i \in DOMAIN procs
      BY <1>2, <2>1, <2>2, <3>2 DEF Settled
    <3>3. QED
      BY <1>2, <3>1, <3>2
  <2>3. QED
    BY <2>2 DEF ProcsOK, Phase
<1>6. QED
  BY <1>2, <1>3, <1>4, <1>5 DEF ProcsOnward

LEMMA StaleKept ==
  ASSUME SessionTypeOK, NEW s \in Sessions, StaleOK(s), ProcsOnward,
         \A t \in Sessions : Onward(t), Kept(s)
  PROVE  StaleOK(s)'
<1>1. session[s].stale.owners \subseteq Sessions
  BY TypedRecord DEF Records, Stale
<1>2. CASE session'[s] = Over
  <2>1. /\ session'[s].stale.procs = {} /\ session'[s].stale.owners = {}
        /\ session'[s].phase = "ended"
    BY <1>2 DEF Over, Fresh
  <2>2. QED
    BY <2>1 DEF StaleOK, Phase, Signalled
<1>3. CASE session'[s].stale = session[s].stale
  <2>1. /\ session[s].stale.procs \subseteq DOMAIN procs'
        /\ \A i \in session[s].stale.procs :
             procs'[i].owner = procs[i].owner /\ (Settled(i) => Settled(i)')
    BY DEF StaleOK, ProcsOnward
  <2>2. \A t \in session[s].stale.owners :
          session[t].phase = "ended" \/ session[t].asked =>
            session'[t].phase = "ended" \/ session'[t].asked
    BY <1>1 DEF Onward
  <2>3. CASE \/ session'[s].phase = session[s].phase
             \/ {session[s].phase, session'[s].phase} \subseteq Signalled
    <3>1. session'[s].phase \in {"idle", "list"} => session[s].phase \in {"idle", "list"}
      BY <2>3 DEF Signalled
    <3>2. session'[s].phase \in Signalled => session[s].phase \in Signalled
      BY <2>3
    <3>3. session'[s].phase = "kill supervisors" =>
            session[s].phase \in {"kill supervisors"} \cup Signalled
      BY <2>3
    <3>4. \A t \in session[s].stale.owners : \E i \in session[s].stale.procs :
            procs'[i].owner = t
      BY <2>1 DEF StaleOK
    <3>5. QED
      BY <1>3, <2>1, <2>2, <3>1, <3>2, <3>3, <3>4 DEF StaleOK, Phase
  <2>4. QED
    BY <1>2, <2>3 DEF Kept
<1>4. QED
  BY <1>2, <1>3 DEF Kept

LEMMA StaleInvKept ==
  ASSUME SessionTypeOK, StaleInv, ProcsOnward, \A t \in Sessions : Onward(t) /\ ProcsOK(t)',
         NEW s \in Sessions, \A t \in Sessions \ {s} : Kept(t), Kept(s) \/ StaleOK(s)'
  PROVE  StaleInv'
BY StaleKept DEF StaleInv

\* Steps that start no process.
LEMMA QuietStale ==
  ASSUME SessionTypeOK, StaleInv, ProcsQuiet, \A t \in Sessions : Onward(t) /\ Calm(t),
         NEW s \in Sessions, \A t \in Sessions \ {s} : Kept(t), Kept(s) \/ StaleOK(s)'
  PROVE  StaleInv'
BY QuietOnward, QuietKept, StaleInvKept DEF StaleInv

\* Steps that move one session and change nothing else of it.
LEMMA StepFields ==
  ASSUME SessionTypeOK, NEW s \in Sessions, NEW from, NEW to, Step(s, from, to)
  PROVE  /\ session[s].phase = from /\ session'[s].phase = to
         /\ session'[s].stale = session[s].stale
         /\ session'[s].started = session[s].started
         /\ session'[s].asked = session[s].asked
         /\ session'[s].disturbed = session[s].disturbed
         /\ session'[s].target = session[s].target
         /\ \A t \in Sessions \ {s} : session'[t] = session[t]
<1>1. session[s] \in Records
  BY TypedRecord
<1>2. PICK r : r = [session[s] EXCEPT !.phase = to]
  OBVIOUS
<1>3. /\ session[s].phase = from /\ session'[s] = r
      /\ \A t \in Sessions \ {s} : session'[t] = session[t]
  BY <1>2 DEF Step, Move, Phase, SessionTypeOK
<1>4. QED
  BY <1>1, <1>2, <1>3 DEF Records

LEMMA OverKept ==
  ASSUME SessionTypeOK, NEW s \in Sessions, session' = [session EXCEPT ![s] = Over]
  PROVE  /\ session'[s] = Over /\ session'[s].phase = "ended"
         /\ \A t \in Sessions \ {s} : session'[t] = session[t]
         /\ \A t \in Sessions : Onward(t) /\ Kept(t)
BY DEF SessionTypeOK, Onward, Kept, Over

\* A session is over, and has seen to its last process, if it has any.
LEMMA OverStale ==
  ASSUME SessionTypeOK, StaleInv, NEW s \in Sessions, session' = [session EXCEPT ![s] = Over],
         \/ UNCHANGED procs /\ session[s].phase \notin {"wait", "ended"} /\ ~session[s].started
         \/ Kill(Own(s)) \/ Fates({}, Own(s))
  PROVE  StaleInv'
<1>1. /\ session'[s].phase = "ended" /\ \A t \in Sessions : Onward(t) /\ Kept(t)
      /\ \A t \in Sessions \ {s} : session'[t] = session[t]
  BY OverKept
<1>2. ProcsQuiet
  BY QuietSteps
<1>3. Calm(s)
  <2>1. CASE Kill(Own(s)) \/ Fates({}, Own(s))
    <3>1. ASSUME NEW i, Owns(s, i) PROVE Settled(i)'
      <4>1. i \in DOMAIN procs /\ (i \notin Own(s) => ~procs[i].alive)
        BY <3>1 DEF Owns, StaleInv, ProcsOK
      <4>2. i \in Own(s) => ~procs'[i].alive \/ procs'[i].fate # "owned"
        BY <2>1, <4>1, Killed, Doomed DEF SessionTypeOK
      <4>3. procs'[i].alive => procs[i].alive
        BY <1>2, <4>1 DEF ProcsQuiet
      <4>4. QED
        BY <4>1, <4>2, <4>3 DEF Settled
    <3>2. QED
      BY <1>1, <3>1 DEF Calm
  <2>2. QED
    BY <2>1 DEF Calm
<1>4. \A t \in Sessions \ {s} : Calm(t)
  BY <1>1 DEF Calm
<1>5. QED
  BY <1>1, <1>2, <1>3, <1>4, QuietStale

\* Steps of one session that starts no process.
LEMMA OneStale ==
  ASSUME SessionTypeOK, StaleInv, ProcsQuiet, NEW s \in Sessions,
         \A t \in Sessions \ {s} : session'[t] = session[t],
         Onward(s), Calm(s), Kept(s) \/ StaleOK(s)'
  PROVE  StaleInv'
<1>1. \A t \in Sessions \ {s} : Onward(t) /\ Calm(t) /\ Kept(t)
  BY DEF Onward, Calm, Kept
<1>2. QED
  BY <1>1, QuietStale

\* Before it waits for its process a session that has not started has none.
LEMMA EarlyStale ==
  ASSUME SessionTypeOK, StaleInv, UNCHANGED procs, NEW s \in Sessions, NEW from, NEW to,
         Step(s, from, to), from \notin {"wait", "ended"}, ~session[s].started,
         StaleOK(s)' \/ {from, to} \subseteq Signalled
  PROVE  StaleInv'
<1>1. /\ session[s].phase = from /\ session'[s].phase = to
      /\ session'[s].stale = session[s].stale
      /\ session'[s].asked = session[s].asked
      /\ \A t \in Sessions \ {s} : session'[t] = session[t]
  BY StepFields
<1>2. Onward(s) /\ Calm(s) /\ (Kept(s) \/ StaleOK(s)')
  BY <1>1 DEF Onward, Calm, Kept
<1>3. QED
  BY <1>1, <1>2, OneStale, QuietSteps

LEMMA ResolveTargetStale ==
  ASSUME SessionTypeOK, StaleInv, NEW s \in Sessions, NEW udid, ResolveTarget(s, udid)
  PROVE  StaleInv'
<1>1. PICK r : /\ session' = [session EXCEPT ![s] = r] /\ session[s].phase = "idle"
               /\ r = Over \/ \E found : r = [Fresh EXCEPT !.phase = "list", !.target = found]
  BY DEF ResolveTarget, Move, Phase
<1>2. r.stale.procs = {} /\ r.stale.owners = {} /\ r.phase \in {"list", "ended"}
  <2>1. CASE r = Over
    BY <2>1, OverFields
  <2>2. ASSUME NEW found, r = [Fresh EXCEPT !.phase = "list", !.target = found]
        PROVE  r.stale.procs = {} /\ r.stale.owners = {} /\ r.phase \in {"list", "ended"}
    BY <2>2 DEF Fresh
  <2>3. QED
    BY <1>1, <2>1, <2>2
<1>3. session'[s] = r /\ \A t \in Sessions \ {s} : session'[t] = session[t]
  BY <1>1 DEF SessionTypeOK
<1>4. ~session[s].started /\ ~session[s].asked
  BY <1>1 DEF SessionTypeOK, RecordOK
<1>5. Onward(s) /\ Calm(s)
  BY <1>1, <1>4 DEF Onward, Calm
<1>6. StaleOK(s)'
  BY <1>2, <1>3 DEF StaleOK, Phase, Signalled
<1>7. ProcsQuiet
  BY QuietSteps DEF ResolveTarget
<1>8. QED
  BY <1>3, <1>5, <1>6, <1>7, OneStale

LEMMA ListStaleStale ==
  ASSUME SessionTypeOK, StaleInv, NEW s \in Sessions, ListStale(s)
  PROVE  StaleInv'
<1>1. PICK found, owners, to :
        /\ found = {i \in Living : procs[i].device \in session[s].target}
        /\ owners = {t \in {procs[i].owner : i \in found} : Phase(t) # "ended"}
        /\ to = IF found = {} THEN "boot" ELSE "kill runners"
        /\ session[s].phase = "list"
        /\ session' = [session EXCEPT ![s] =
             [session[s] EXCEPT !.phase = to, !.stale = [procs |-> found, owners |-> owners]]]
  BY DEF ListStale, Move, Phase
<1>2. PICK r : r = [session[s] EXCEPT !.phase = to, !.stale = [procs |-> found, owners |-> owners]]
  OBVIOUS
<1>3. /\ r.phase = to /\ r.stale = [procs |-> found, owners |-> owners]
      /\ r.started = session[s].started /\ r.asked = session[s].asked
  BY <1>2, TypedRecord DEF Records
<1>4. session'[s] = r /\ \A t \in Sessions \ {s} : session'[t] = session[t]
  BY <1>1, <1>2 DEF SessionTypeOK
<1>5. ~session[s].started /\ ~session[s].asked
  BY <1>1 DEF SessionTypeOK, RecordOK
<1>6. Onward(s) /\ Calm(s)
  BY <1>1, <1>5 DEF Onward, Calm
<1>7. /\ found \subseteq DOMAIN procs /\ (found = {} => owners = {})
      /\ \A t \in owners : \E i \in found : procs[i].owner = t
  BY <1>1 DEF Living
<1>8. s \notin owners
  <2>1. \A i \in DOMAIN procs : procs[i].owner # s
    BY <1>1, <1>5 DEF StaleInv, ProcsOK, Phase
  <2>2. QED
    BY <1>7, <2>1
<1>9. StaleOK(s)'
  <2>1. /\ session'[s].stale.procs = found /\ session'[s].stale.owners = owners
        /\ session'[s].phase = to /\ UNCHANGED procs
    BY <1>3, <1>4 DEF ListStale
  <2>2. to = "kill runners" \/ (to = "boot" /\ found = {} /\ owners = {})
    BY <1>1, <1>7
  <2>3. QED
    BY <1>7, <1>8, <2>1, <2>2 DEF StaleOK, Phase, Signalled
<1>10. ProcsQuiet
  BY QuietSteps DEF ListStale
<1>11. QED
  BY <1>4, <1>6, <1>9, <1>10, OneStale

LEMMA ListFailsStale ==
  ASSUME SessionTypeOK, StaleInv, NEW s \in Sessions, ListFails(s)
  PROVE  StaleInv'
<1>1. Step(s, "list", "boot") /\ UNCHANGED procs
  BY DEF ListFails
<1>2. /\ session[s].phase = "list" /\ session'[s].phase = "boot"
      /\ session'[s].stale = session[s].stale
  BY <1>1, StepFields
<1>3. session[s].stale.procs = {} /\ session[s].stale.owners = {}
  BY <1>2 DEF StaleInv, StaleOK, Phase
<1>4. StaleOK(s)'
  BY <1>2, <1>3 DEF StaleOK, Phase, Signalled
<1>5. ~session[s].started
  BY <1>2 DEF SessionTypeOK, RecordOK
<1>6. QED
  BY <1>1, <1>4, <1>5, EarlyStale

\* What a signal has reached is told to end, what it has missed is lost.
LEMMA KillRunnersStale ==
  ASSUME SessionTypeOK, StaleInv, NEW s \in Sessions, KillRunners(s)
  PROVE  StaleInv'
<1>1. /\ session[s].phase = "kill runners" /\ session'[s].phase = "kill supervisors"
      /\ session'[s].stale = session[s].stale
      /\ session'[s].started = session[s].started /\ session'[s].asked = session[s].asked
      /\ \A t \in Sessions \ {s} : session'[t] = session[t]
  BY StepFields DEF KillRunners
<1>2. PICK missed : Fates(session[s].stale.procs \ missed, missed)
  BY DEF KillRunners
<1>3. ProcsQuiet
  BY <1>2, QuietSteps
<1>4. ~session[s].started
  BY <1>1 DEF SessionTypeOK, RecordOK
<1>5. Onward(s) /\ Calm(s)
  BY <1>1, <1>4 DEF Onward, Calm
<1>6. session[s].stale.procs \subseteq DOMAIN procs /\ StaleOK(s)
  BY DEF StaleInv, StaleOK
<1>7. \A i \in session[s].stale.procs :
        procs'[i].owner = procs[i].owner /\ procs'[i].fate # "owned"
  BY <1>2, <1>6, Doomed DEF SessionTypeOK
<1>8. DOMAIN procs' = DOMAIN procs
  BY <1>3 DEF ProcsQuiet
<1>9. StaleOK(s)'
  <2>1. \A i \in session[s].stale.procs : Settled(i)'
    BY <1>7 DEF Settled
  <2>2. /\ s \notin session[s].stale.owners
        /\ \A t \in session[s].stale.owners : \E i \in session[s].stale.procs :
             procs'[i].owner = t
    BY <1>6, <1>7 DEF StaleOK
  <2>3. QED
    BY <1>1, <1>6, <1>8, <2>1, <2>2 DEF StaleOK, Phase, Signalled
<1>10. QED
  BY <1>1, <1>3, <1>5, <1>9, OneStale

\* A controller that has not started yet has but the process that was found, and
\* that has its signal, or was missed.
LEMMA KillSupervisorsStale ==
  ASSUME SessionTypeOK, StaleInv, NEW s \in Sessions, KillSupervisors(s)
  PROVE  StaleInv'
<1>1. PICK missed :
        /\ session[s].phase = "kill supervisors" /\ UNCHANGED procs
        /\ session' = [t \in Sessions |->
             IF t = s THEN [session[t] EXCEPT !.phase = "pause", !.stale.owners = @ \ missed]
             ELSE IF t \notin session[s].stale.owners \ missed THEN session[t]
             ELSE IF session[t].started THEN [session[t] EXCEPT !.asked = TRUE] ELSE Over]
  BY DEF KillSupervisors, Phase
<1>2. PICK reached : reached = session[s].stale.owners \ missed
  OBVIOUS
<1>3. ProcsQuiet
  BY <1>1, QuietSteps
<1>4. session[s] \in Records /\ StaleOK(s) /\ ~session[s].started
  BY <1>1, TypedRecord DEF SessionTypeOK, RecordOK, StaleInv
<1>5. /\ session'[s].phase = "pause"
      /\ session'[s].stale.procs = session[s].stale.procs
      /\ session'[s].stale.owners = reached
      /\ session'[s].started = session[s].started /\ session'[s].asked = session[s].asked
  BY <1>1, <1>2, <1>4 DEF Records, Stale
<1>6. Onward(s) /\ Calm(s)
  BY <1>1, <1>4, <1>5 DEF Onward, Calm
<1>7. ASSUME NEW t \in Sessions \ {s}
      PROVE  /\ Onward(t) /\ Kept(t) /\ Calm(t)
             /\ t \in reached => session'[t].asked \/ session'[t].phase = "ended"
  <2>1. session[t] \in Records
    BY TypedRecord
  <2>2. CASE t \notin reached
    <3>1. session'[t] = session[t]
      BY <1>1, <1>2, <2>2
    <3>2. QED
      BY <2>2, <3>1 DEF Onward, Kept, Calm
  <2>3. CASE t \in reached /\ session[t].started
    <3>1. session'[t] = [session[t] EXCEPT !.asked = TRUE]
      BY <1>1, <1>2, <2>3
    <3>2. /\ session'[t].asked /\ session'[t].phase = session[t].phase
          /\ session'[t].started = session[t].started
          /\ session'[t].stale = session[t].stale
      BY <2>1, <3>1 DEF Records
    <3>3. QED
      BY <3>2 DEF Onward, Kept, Calm
  <2>4. CASE t \in reached /\ ~session[t].started
    <3>1. session'[t] = Over /\ session'[t].phase = "ended" /\ ~session'[t].started
      BY <1>1, <1>2, <2>4, OverFields
    <3>2. Onward(t) /\ Kept(t)
      BY <3>1 DEF Onward, Kept
    <3>3. CASE session[t].phase = "wait"
      <4>1. PICK i \in session[s].stale.procs : procs[i].owner = t
        BY <1>2, <1>4, <2>4 DEF StaleOK
      <4>2. i \in DOMAIN procs /\ Settled(i)
        BY <1>1, <1>4, <4>1 DEF StaleOK, Phase
      <4>3. ASSUME NEW j, Owns(t, j) PROVE j = i
        <5>1. i \in Own(t) /\ j \in Own(t)
          BY <2>4, <3>3, <4>1, <4>2, <4>3 DEF StaleInv, ProcsOK, Phase, Owns
        <5>2. procs[i].owner = t /\ procs[j].owner = t /\ i <= j /\ j <= i
          BY <5>1 DEF Own
        <5>3. i \in Nat /\ j \in Nat
          BY <5>1 DEF Own, SessionTypeOK
        <5>4. QED
          BY <5>2, <5>3
      <4>4. \A j : Owns(t, j) => Settled(j)'
        BY <1>1, <4>2, <4>3 DEF Settled
      <4>5. QED
        BY <3>1, <3>2, <4>4 DEF Calm
    <3>4. CASE session[t].phase # "wait"
      <4>1. session[t].started = FALSE /\ session'[t].started = FALSE
        BY <2>1, <2>4, <3>1 DEF Records, Over, Fresh
      <4>2. Calm(t)
        BY <3>1, <3>4, <4>1 DEF Calm
      <4>3. QED
        BY <3>1, <3>2, <4>2
    <3>5. QED
      BY <3>3, <3>4
  <2>5. QED
    BY <2>2, <2>3, <2>4
<1>8. reached \subseteq session[s].stale.owners /\ reached \subseteq Sessions \ {s}
  BY <1>2, <1>4 DEF Records, Stale, StaleOK
<1>9. StaleOK(s)'
  <2>1. \A t \in reached : session'[t].phase = "ended" \/ session'[t].asked
    BY <1>7, <1>8
  <2>2. /\ session[s].stale.procs \subseteq DOMAIN procs
        /\ \A t \in reached : \E i \in session[s].stale.procs : procs[i].owner = t
        /\ \A i \in session[s].stale.procs : Settled(i)
    BY <1>1, <1>4, <1>8 DEF StaleOK, Phase
  <2>3. \A i \in session[s].stale.procs : Settled(i)'
    BY <1>1, <2>2 DEF Settled
  <2>4. s \notin reached
    BY <1>8
  <2>5. QED
    BY <1>1, <1>5, <2>1, <2>2, <2>3, <2>4 DEF StaleOK, Phase, Signalled
<1>10. QED
  BY <1>3, <1>6, <1>7, <1>9, QuietStale

LEMMA TakeBuildStale ==
  ASSUME SessionTypeOK, StaleInv, NEW s \in Sessions, TakeBuild(s)
  PROVE  StaleInv'
<1>1. PICK run : run = Located(s)
  OBVIOUS
<1>2. PICK r : /\ r = Over \/ r = [session[s] EXCEPT !.phase = "patch", !.run = run]
               /\ session' = [session EXCEPT ![s] = r] /\ session[s].phase = "locate"
  BY <1>1 DEF TakeBuild, Move, Phase
<1>3. ~session[s].started /\ UNCHANGED procs
  BY <1>2 DEF SessionTypeOK, RecordOK, TakeBuild
<1>4. CASE r = Over
  BY <1>2, <1>3, <1>4, OverStale
<1>5. CASE r = [session[s] EXCEPT !.phase = "patch", !.run = run]
  <2>1. /\ r.phase = "patch" /\ r.stale = session[s].stale
        /\ r.started = session[s].started /\ r.asked = session[s].asked
    BY <1>5, TypedRecord DEF Records
  <2>2. session'[s] = r /\ \A t \in Sessions \ {s} : session'[t] = session[t]
    BY <1>2 DEF SessionTypeOK
  <2>3. Onward(s) /\ Calm(s) /\ Kept(s)
    BY <1>2, <1>3, <2>1, <2>2 DEF Onward, Calm, Kept, Signalled
  <2>4. QED
    BY <1>3, <2>2, <2>3, OneStale, QuietSteps
<1>6. QED
  BY <1>2, <1>4, <1>5

LEMMA PatchStale ==
  ASSUME SessionTypeOK, StaleInv, NEW s \in Sessions, Patch(s)
  PROVE  StaleInv'
<1>1. /\ session[s].phase = "patch" /\ UNCHANGED procs
      /\ session' = [t \in Sessions |->
           IF t = s THEN [session[t] EXCEPT !.phase = "popen", !.disturbed = FALSE]
           ELSE [session[t] EXCEPT !.disturbed = @ \/ Reading(t)]]
  BY DEF Patch, Phase
<1>2. /\ session'[s].phase = "popen" /\ session'[s].stale = session[s].stale
      /\ session'[s].started = session[s].started /\ session'[s].asked = session[s].asked
  BY <1>1, TypedRecord DEF Records
<1>3. ASSUME NEW t \in Sessions \ {s} PROVE Onward(t) /\ Kept(t) /\ Calm(t)
  <2>1. PICK b : b = (session[t].disturbed \/ Reading(t))
    OBVIOUS
  <2>2. session'[t] = [session[t] EXCEPT !.disturbed = b]
    BY <1>1, <2>1
  <2>3. /\ session'[t].phase = session[t].phase /\ session'[t].stale = session[t].stale
        /\ session'[t].started = session[t].started
        /\ session'[t].asked = session[t].asked
    BY <2>2, TypedRecord DEF Records
  <2>4. QED
    BY <2>3 DEF Onward, Kept, Calm
<1>4. Onward(s) /\ Kept(s)
  BY <1>1, <1>2 DEF Onward, Kept, Signalled
<1>5. Calm(s)
  <2>1. \A i : Owns(s, i) => ~procs'[i].alive
    BY <1>1 DEF StaleInv, ProcsOK, Owns, Phase
  <2>2. QED
    BY <1>1, <1>2, <2>1 DEF Calm
<1>6. QED
  BY <1>1, <1>3, <1>4, <1>5, QuietStale, QuietSteps

LEMMA PopenStale ==
  ASSUME SessionTypeOK, StaleInv, NEW s \in Sessions, Popen(s)
  PROVE  StaleInv'
<1>1. PICK to : Step(s, "popen", to) /\ to = IF session[s].started THEN "up" ELSE "wait"
  BY DEF Popen
<1>2. /\ session[s].phase = "popen" /\ session'[s].phase = to
      /\ session'[s].started = session[s].started /\ session'[s].asked = session[s].asked
      /\ session'[s].stale = session[s].stale
      /\ \A t \in Sessions \ {s} : session'[t] = session[t]
  BY <1>1, StepFields
<1>3. ProcsOnward /\ \A t \in Sessions : ProcsOK(t)'
  BY <1>1, <1>2, SpawnKept DEF Popen
<1>4. \A t \in Sessions : Onward(t) /\ Kept(t)
  BY <1>1, <1>2 DEF Onward, Kept, Signalled
<1>5. QED
  BY <1>3, <1>4, StaleInvKept

LEMMA StartReturnsStale ==
  ASSUME SessionTypeOK, StaleInv, NEW s \in Sessions, StartReturns(s)
  PROVE  StaleInv'
<1>1. PICK r : /\ r = [session[s] EXCEPT !.phase = "up", !.started = TRUE]
               /\ session' = [session EXCEPT ![s] = r] /\ session[s].phase = "wait"
  BY DEF StartReturns, Move, Phase
<1>2. /\ r.phase = "up" /\ r.stale = session[s].stale
      /\ r.started /\ r.asked = session[s].asked
  BY <1>1, TypedRecord DEF Records
<1>3. session'[s] = r /\ \A t \in Sessions \ {s} : session'[t] = session[t]
  BY <1>1 DEF SessionTypeOK
<1>4. Onward(s) /\ Calm(s) /\ Kept(s)
  BY <1>1, <1>2, <1>3 DEF Onward, Calm, Kept, Signalled
<1>5. ProcsQuiet
  BY QuietSteps DEF StartReturns
<1>6. QED
  BY <1>3, <1>4, <1>5, OneStale

LEMMA RespawnStale ==
  ASSUME SessionTypeOK, StaleInv, NEW s \in Sessions, Respawn(s)
  PROVE  StaleInv'
<1>1. /\ session[s].phase = "up" /\ session'[s].phase = "patch"
      /\ session'[s].stale = session[s].stale
      /\ session'[s].started = session[s].started /\ session'[s].asked = session[s].asked
      /\ \A t \in Sessions \ {s} : session'[t] = session[t]
  BY StepFields DEF Respawn
<1>2. \A i : Owns(s, i) => ~procs'[i].alive
  BY DEF Respawn, StaleInv, ProcsOK, Owns
<1>3. session[s].started
  BY <1>1 DEF SessionTypeOK, RecordOK
<1>4. Onward(s) /\ Calm(s) /\ Kept(s)
  BY <1>1, <1>2, <1>3 DEF Onward, Calm, Kept, Signalled
<1>5. ProcsQuiet
  BY QuietSteps DEF Respawn
<1>6. QED
  BY <1>1, <1>4, <1>5, OneStale

LEMMA CtrlCStale ==
  ASSUME SessionTypeOK, StaleInv, NEW s \in Sessions, CtrlC(s)
  PROVE  StaleInv'
<1>1. PICK r : r = [session[s] EXCEPT !.asked = TRUE] /\ session' = [session EXCEPT ![s] = r]
  BY DEF CtrlC, SessionTypeOK
<1>2. /\ r.phase = session[s].phase /\ r.stale = session[s].stale
      /\ r.started = session[s].started /\ r.asked
  BY <1>1, TypedRecord DEF Records
<1>3. session'[s] = r /\ \A t \in Sessions \ {s} : session'[t] = session[t]
  BY <1>1 DEF SessionTypeOK
<1>4. Onward(s) /\ Calm(s) /\ Kept(s)
  BY <1>2, <1>3 DEF Onward, Calm, Kept
<1>5. ProcsQuiet
  BY QuietSteps DEF CtrlC
<1>6. QED
  BY <1>3, <1>4, <1>5, OneStale

\* stop() ends the process it sees, and what it does not see is lost.
LEMMA EndStale ==
  ASSUME SessionTypeOK, StaleInv, NEW s \in Sessions,
         StartRaises(s) \/ StopSession(s) \/ ControllerDies(s)
  PROVE  StaleInv'
<1>1. session' = [session EXCEPT ![s] = Over]
  BY DEF StartRaises, StopSession, ControllerDies, Move
<1>2. CASE Kill(Own(s)) \/ Fates({}, Own(s))
  BY <1>1, <1>2, OverStale
<1>3. CASE session[s].phase = "popen" /\ procs' \in Spawned(s, "lost")
  <2>1. /\ session'[s].phase = "ended" /\ \A t \in Sessions : Onward(t) /\ Kept(t)
        /\ \A t \in Sessions \ {s} : session'[t] = session[t]
    BY <1>1, OverKept
  <2>2. ProcsOnward /\ \A t \in Sessions : ProcsOK(t)'
    BY <1>3, <2>1, SpawnKept
  <2>3. QED
    BY <2>1, <2>2, StaleInvKept
<1>4. QED
  BY <1>2, <1>3 DEF StartRaises, StopSession, ControllerDies, Phase

LEMMA SessionStepStale ==
  ASSUME SessionTypeOK, StaleInv, NEW s \in Sessions, SessionStep(s)
  PROVE  StaleInv'
<1>1. CASE Pause(s) \/ Boot(s)
  <2>1. PICK from, to : /\ Step(s, from, to) /\ UNCHANGED procs
                        /\ << from, to >> \in {<< "pause", "boot" >>, << "boot", "locate" >>}
    BY <1>1 DEF Pause, Boot
  <2>2. from \notin {"wait", "ended"} /\ {from, to} \subseteq Signalled
    BY <2>1 DEF Signalled
  <2>3. ~session[s].started
    BY <2>1, StepFields DEF SessionTypeOK, RecordOK
  <2>4. QED
    BY <2>1, <2>2, <2>3, EarlyStale
<1>2. QED
  BY <1>1, ResolveTargetStale, ListStaleStale, ListFailsStale, KillRunnersStale,
     KillSupervisorsStale, TakeBuildStale, PatchStale, PopenStale, StartReturnsStale,
     RespawnStale, CtrlCStale, EndStale DEF SessionStep

LEMMA ProcessStepStale ==
  ASSUME SessionTypeOK, StaleInv, NEW i \in DOMAIN procs, ProcessStep(i)
  PROVE  StaleInv'
<1>1. UNCHANGED session
  BY DEF ProcessStep, ReadRun, ProcessEnds
<1>2. ProcsQuiet
  BY QuietSteps DEF ProcessStep, ProcessEnds
<1>3. \A t \in Sessions : Onward(t) /\ Calm(t) /\ Kept(t)
  BY <1>1 DEF Onward, Calm, Kept
<1>4. ProcsOnward /\ \A t \in Sessions : ProcsOK(t)'
  BY <1>2, <1>3, QuietOnward, QuietKept DEF StaleInv
<1>5. \A t \in Sessions : StaleOK(t)'
  BY <1>3, <1>4, StaleKept DEF StaleInv
<1>6. QED
  BY <1>4, <1>5 DEF StaleInv

-----------------------------------------------------------------------------
(* Sessions: whose agent serves *)

\* Unless another session wrote the file meanwhile: it is this session's own
\* when its process is started, as long as that process has not read it, and so
\* is what the process has read.
ServedOK(s) ==
  ~session[s].disturbed =>
    /\ Phase(s) = "popen" => \A e \in patched : e.owner = s
    /\ Phase(s) \in {"wait", "up"} => \A i \in Own(s) :
         /\ \A e \in procs[i].env : e.owner = s
         /\ procs[i].alive /\ procs[i].env = {} => \A e \in patched : e.owner = s

\* Nothing comes closer to a process of its own, and of its processes none
\* reads.
PlaceKept(s) ==
  /\ session'[s].disturbed = session[s].disturbed
  /\ \/ session'[s].phase = session[s].phase
     \/ {session[s].phase, session'[s].phase} \subseteq {"wait", "up"}

ProcsKept(s) ==
  /\ Own(s)' = Own(s)
  /\ \A i \in Own(s) :
       /\ procs'[i].env = procs[i].env \/ procs'[i].env = {}
       /\ procs'[i].alive => procs[i].alive /\ procs'[i].env = procs[i].env

LEMMA ServedKept ==
  ASSUME NEW s \in Sessions, ServedOK(s), UNCHANGED patched, PlaceKept(s), ProcsKept(s)
  PROVE  ServedOK(s)'
BY DEF ServedOK, PlaceKept, ProcsKept, Phase

LEMMA ServedElsewhere ==
  ASSUME NEW s \in Sessions, session'[s].phase \notin {"popen", "wait", "up"}
  PROVE  ServedOK(s)'
BY DEF ServedOK, Phase

\* What a step does to the processes of the sessions that do not take it.
LEMMA OthersProcs ==
  ASSUME SessionTypeOK, NEW s \in Sessions, NEW t \in Sessions,
         \/ UNCHANGED procs
         \/ \E killed : Kill(killed)
         \/ \E told, lost : Fates(told, lost)
         \/ t # s /\ \E fate \in {"owned", "lost"} : procs' \in Spawned(t, fate)
  PROVE  ProcsKept(s)
<1>1. CASE UNCHANGED procs
  BY <1>1 DEF ProcsKept, Own
<1>2. ASSUME NEW killed, Kill(killed) PROVE ProcsKept(s)
  <2>1. Own(s) \subseteq DOMAIN procs
    BY DEF Own
  <2>2. QED
    BY <1>2, <2>1, Killed DEF ProcsKept, SessionTypeOK
<1>3. ASSUME NEW told, NEW lost, Fates(told, lost) PROVE ProcsKept(s)
  <2>1. Own(s) \subseteq DOMAIN procs
    BY DEF Own
  <2>2. QED
    BY <1>3, <2>1, Doomed DEF ProcsKept, SessionTypeOK
<1>4. ASSUME t # s, NEW fate \in {"owned", "lost"}, procs' \in Spawned(t, fate)
      PROVE  ProcsKept(s)
  <2>1. Own(s) \subseteq DOMAIN procs /\ session[t].target \subseteq Devices
    BY TypedRecord DEF Own, Records
  <2>2. QED
    BY <1>4, <2>1, Started DEF ProcsKept, SessionTypeOK
<1>5. QED
  BY <1>1, <1>2, <1>3, <1>4

LEMMA PatchServed ==
  ASSUME SessionTypeOK, NEW t \in Sessions, Patch(t), NEW s \in Sessions, ServedOK(s)
  PROVE  ServedOK(s)'
<1>1. /\ patched' = {[owner |-> t, platform |-> Platform(d)] : d \in session[t].target}
      /\ session' = [u \in Sessions |->
           IF u = t THEN [session[u] EXCEPT !.phase = "popen", !.disturbed = FALSE]
           ELSE [session[u] EXCEPT !.disturbed = @ \/ Reading(u)]]
      /\ UNCHANGED procs /\ session[s] \in Records
  BY TypedRecord DEF Patch
<1>2. Own(s)' = Own(s)
  BY <1>1 DEF Own
<1>3. CASE s = t
  <2>1. session'[s].phase = "popen"
    BY <1>1, <1>3 DEF Records
  <2>2. ASSUME NEW e \in patched' PROVE e.owner = s
    <3>1. PICK d \in session[t].target : e = [owner |-> t, platform |-> Platform(d)]
      BY <1>1
    <3>2. QED
      BY <1>3, <3>1
  <2>3. QED
    BY <2>1, <2>2 DEF ServedOK, Phase
<1>4. CASE s # t
  <2>1. PICK b \in BOOLEAN : b = (session[s].disturbed \/ Reading(s))
    OBVIOUS
  <2>2. session'[s] = [session[s] EXCEPT !.disturbed = b]
    BY <1>1, <1>4, <2>1
  <2>3. session'[s].phase = session[s].phase /\ session'[s].disturbed = b
    BY <1>1, <2>2 DEF Records
  <2>4. CASE b
    BY <2>3, <2>4 DEF ServedOK
  <2>5. CASE ~b
    <3>1. ~session[s].disturbed /\ ~Reading(s)
      BY <2>1, <2>5
    <3>2. /\ session[s].phase # "popen"
          /\ \A i \in Own(s) : ~(procs[i].alive /\ procs[i].env = {})
      BY <3>1 DEF Reading, Phase
    <3>3. QED
      BY <1>1, <1>2, <2>3, <3>1, <3>2 DEF ServedOK, Phase
  <2>6. QED
    BY <2>4, <2>5
<1>5. QED
  BY <1>3, <1>4

LEMMA PopenServed ==
  ASSUME SessionTypeOK, NEW s \in Sessions, Popen(s), ServedOK(s)
  PROVE  ServedOK(s)'
<1>1. PICK to : Step(s, "popen", to) /\ to \in {"wait", "up"}
  BY DEF Popen
<1>2. /\ session[s].phase = "popen" /\ session'[s].phase \in {"wait", "up"}
      /\ session'[s].disturbed = session[s].disturbed
  BY <1>1, StepFields
<1>3. session[s].target \subseteq Devices
  BY TypedRecord DEF Records
<1>4. UNCHANGED patched /\ \A i \in Own(s)' : procs'[i].env = {}
  BY <1>3, Started DEF Popen, SessionTypeOK
<1>5. QED
  BY <1>2, <1>4 DEF ServedOK, Phase

\* The step of another session, unless it patches the file.
LEMMA OtherStepServed ==
  ASSUME SessionTypeOK, NEW t \in Sessions, SessionStep(t), ~Patch(t),
         NEW s \in Sessions \ {t}, ServedOK(s)
  PROVE  ServedOK(s)'
<1>1. UNCHANGED patched /\ ProcsKept(s)
  <2>1. \/ UNCHANGED procs
        \/ \E killed : Kill(killed)
        \/ \E told, lost : Fates(told, lost)
        \/ \E fate \in {"owned", "lost"} : procs' \in Spawned(t, fate)
    BY DEF SessionStep, ResolveTarget, ListStale, ListFails, KillRunners, KillSupervisors, Pause, Boot,
           TakeBuild, Popen, StartReturns, StartRaises, Respawn, CtrlC, StopSession,
           ControllerDies
  <2>2. UNCHANGED patched
    BY DEF SessionStep, ResolveTarget, ListStale, ListFails, KillRunners, KillSupervisors, Pause, Boot,
           TakeBuild, Popen, StartReturns, StartRaises, Respawn, CtrlC, StopSession,
           ControllerDies
  <2>3. QED
    BY <2>1, <2>2, OthersProcs
<1>2. CASE KillSupervisors(t)
  <2>1. \/ session'[s] = session[s]
        \/ session'[s] = [session[s] EXCEPT !.asked = TRUE]
        \/ session'[s] = Over
    BY <1>2 DEF KillSupervisors
  <2>2. CASE session'[s] = Over
    BY <2>2, OverFields, ServedElsewhere
  <2>3. CASE session'[s] = session[s] \/ session'[s] = [session[s] EXCEPT !.asked = TRUE]
    <3>1. PlaceKept(s)
      BY <2>3, TypedRecord DEF Records, PlaceKept
    <3>2. QED
      BY <1>1, <3>1, ServedKept
  <2>4. QED
    BY <2>1, <2>2, <2>3
<1>3. CASE ~KillSupervisors(t)
  <2>1. \E r : session' = [session EXCEPT ![t] = r]
    BY <1>3 DEF SessionStep, ResolveTarget, ListStale, ListFails, KillRunners, Pause, Boot, TakeBuild,
                Popen, StartReturns, StartRaises, Respawn, CtrlC, StopSession, ControllerDies,
                Step, Move
  <2>2. session'[s] = session[s]
    BY <2>1 DEF SessionTypeOK
  <2>3. PlaceKept(s)
    BY <2>2 DEF PlaceKept
  <2>4. QED
    BY <1>1, <2>3, ServedKept
<1>4. QED
  BY <1>2, <1>3

\* Its own step, unless it patches the file or starts a process.
LEMMA OwnStepServed ==
  ASSUME SessionTypeOK, NEW s \in Sessions, SessionStep(s), ~Patch(s), ~Popen(s), ServedOK(s)
  PROVE  ServedOK(s)'
<1>0. session[s] \in Records /\ session \in [Sessions -> Records]
  BY DEF SessionTypeOK
<1>1. CASE CtrlC(s) \/ StartReturns(s)
  <2>1. PlaceKept(s)
    <3>1. CASE CtrlC(s)
      <4>1. session'[s] = [session[s] EXCEPT !.asked = TRUE]
        BY <1>0, <3>1 DEF CtrlC
      <4>2. QED
        BY <1>0, <4>1 DEF Records, PlaceKept
    <3>2. CASE StartReturns(s)
      <4>1. /\ session'[s] = [session[s] EXCEPT !.phase = "up", !.started = TRUE]
            /\ session[s].phase = "wait"
        BY <1>0, <3>2 DEF StartReturns, Move, Phase
      <4>2. QED
        BY <1>0, <4>1 DEF Records, PlaceKept
    <3>3. QED
      BY <1>1, <3>1, <3>2
  <2>2. UNCHANGED patched /\ ProcsKept(s)
    BY <1>1, OthersProcs DEF CtrlC, StartReturns
  <2>3. QED
    BY <2>1, <2>2, ServedKept
<1>2. ASSUME NEW from, NEW to, Step(s, from, to), to \notin {"popen", "wait", "up"}
      PROVE  ServedOK(s)'
  BY <1>2, StepFields, ServedElsewhere
<1>3. CASE session' = [session EXCEPT ![s] = Over]
  BY <1>3, OverKept, ServedElsewhere
<1>4. ASSUME NEW udid, ResolveTarget(s, udid) PROVE ServedOK(s)'
  <2>1. PICK r : /\ session' = [session EXCEPT ![s] = r]
                 /\ \/ r = Over
                    \/ \E found : r = [Fresh EXCEPT !.phase = "list", !.target = found]
    BY <1>4 DEF ResolveTarget, Move
  <2>2. r.phase \in {"ended", "list"}
    BY <2>1, OverFields DEF Fresh
  <2>3. QED
    BY <1>0, <2>1, <2>2, ServedElsewhere
<1>5. CASE ListStale(s)
  <2> DEFINE found == {i \in Living : procs[i].device \in session[s].target}
             owners == {t \in {procs[i].owner : i \in found} : Phase(t) # "ended"}
  <2>1. PICK to : to = IF found = {} THEN "boot" ELSE "kill runners"
    OBVIOUS
  <2>2. PICK stale : stale = [procs |-> found, owners |-> owners]
    OBVIOUS
  <2>3. session' = [session EXCEPT ![s] = [session[s] EXCEPT !.phase = to, !.stale = stale]]
    BY <1>5, <2>1, <2>2 DEF ListStale, Move
  <2>4. session'[s].phase = to
    BY <1>0, <2>3 DEF Records
  <2>5. QED
    BY <2>1, <2>4, ServedElsewhere
<1>6. CASE KillSupervisors(s)
  <2>1. PICK missed :
          session'[s] = [session[s] EXCEPT !.phase = "pause", !.stale.owners = @ \ missed]
    BY <1>6 DEF KillSupervisors
  <2>2. session'[s].phase = "pause"
    BY <1>0, <2>1 DEF Records
  <2>3. QED
    BY <2>2, ServedElsewhere
<1>7. CASE TakeBuild(s)
  <2>1. PICK run : \/ session' = [session EXCEPT ![s] = Over]
                   \/ session'[s] = [session[s] EXCEPT !.phase = "patch", !.run = run]
    BY <1>0, <1>7 DEF TakeBuild, Move
  <2>2. CASE session'[s] = [session[s] EXCEPT !.phase = "patch", !.run = run]
    <3>1. session'[s].phase = "patch"
      BY <1>0, <2>2 DEF Records
    <3>2. QED
      BY <3>1, ServedElsewhere
  <2>3. QED
    BY <1>3, <2>1, <2>2
<1>8. QED
  BY <1>1, <1>2, <1>3, <1>4, <1>5, <1>6, <1>7
     DEF SessionStep, ListFails, KillRunners, Pause, Boot, StartRaises, Respawn, StopSession,
         ControllerDies, Move

LEMMA ProcessStepServed ==
  ASSUME SessionTypeOK, NEW i \in DOMAIN procs, ProcessStep(i),
         NEW s \in Sessions, ServedOK(s)
  PROVE  ServedOK(s)'
<1>1. UNCHANGED <<session, patched>>
  BY DEF ProcessStep, ReadRun, ProcessEnds
<1>2. PlaceKept(s)
  BY <1>1 DEF PlaceKept
<1>3. CASE ReadRun(i)
  <2>1. /\ Own(s)' = Own(s) /\ Own(s) \subseteq DOMAIN procs
        /\ \A j \in DOMAIN procs : /\ procs'[j].alive = procs[j].alive
                                   /\ j # i => procs'[j] = procs[j]
        /\ procs'[i].env = patched
    <3>1. Own(s) \subseteq DOMAIN procs
      BY DEF Own
    <3>2. QED
      BY <1>3, <3>1, Reads DEF SessionTypeOK
  <2>2. procs[i].alive /\ procs[i].env = {}
    BY <1>3 DEF ReadRun
  <2>3. QED
    BY <1>1, <2>1, <2>2 DEF ServedOK, Phase
<1>4. CASE ProcessEnds(i)
  BY <1>1, <1>2, <1>4, OthersProcs, ServedKept DEF ProcessEnds
<1>5. QED
  BY <1>3, <1>4 DEF ProcessStep

-----------------------------------------------------------------------------
(* The workstation *)

SessionInv ==
  /\ SessionTypeOK /\ StaleInv
  /\ \A s \in Sessions : ServedOK(s)

LEMMA InitSessionInv == Init => SessionInv
<1> SUFFICES ASSUME Init PROVE SessionInv
  OBVIOUS
<1>1. /\ session = [s \in Sessions |-> Fresh] /\ patched = {} /\ procs = <<>> /\ faults = 0
      /\ booted \subseteq Udids
  BY DEF Init, MacInit, SessionsInit, Udids
<1>2. /\ Fresh \in Records /\ Fresh.phase = "idle" /\ ~Fresh.asked /\ ~Fresh.started
      /\ Fresh.target = {} /\ Fresh.stale.procs = {} /\ Fresh.stale.owners = {}
  BY DEF Fresh, Records, Stale, Phases
<1>3. DOMAIN procs = {} /\ procs \in Seq(Processes)
  BY <1>1
<1>4. SessionTypeOK
  BY <1>1, <1>2, <1>3, SessionsAssumption DEF SessionTypeOK, RecordOK, AtMostOne
<1>5. StaleInv
  BY <1>1, <1>2, <1>3 DEF StaleInv, ProcsOK, StaleOK, Phase, Signalled
<1>6. \A s \in Sessions : ServedOK(s)
  BY <1>1, <1>2 DEF ServedOK, Phase
<1>7. QED
  BY <1>4, <1>5, <1>6 DEF SessionInv

LEMMA NextSessionInv == MacTypeOK /\ SessionInv /\ [Next]_vars => SessionInv'
<1> SUFFICES ASSUME MacTypeOK, SessionInv, [Next]_vars PROVE SessionInv'
  OBVIOUS
<1>1. SessionTypeOK /\ StaleInv /\ \A s \in Sessions : ServedOK(s)
  BY DEF SessionInv
<1>2. ASSUME NEW t \in Sessions, SessionStep(t) PROVE SessionInv'
  <2>1. SessionTypeOK' /\ StaleInv'
    BY <1>1, <1>2, SessionStepType, SessionStepStale
  <2>2. \A s \in Sessions : ServedOK(s)'
    BY <1>1, <1>2, PatchServed, PopenServed, OtherStepServed, OwnStepServed
  <2>3. QED
    BY <2>1, <2>2 DEF SessionInv
<1>3. ASSUME NEW i \in DOMAIN procs, ProcessStep(i) PROVE SessionInv'
  BY <1>1, <1>3, ProcessStepType, ProcessStepStale, ProcessStepServed DEF SessionInv
<1>4. CASE UNCHANGED sessionVars /\ booted' \subseteq Udids
  <2> USE <1>1, <1>4 DEF sessionVars
  <2>1. \A t : Own(t)' = Own(t)
    BY DEF Own
  <2>2. SessionTypeOK'
    BY <2>1 DEF SessionTypeOK
  <2>3. StaleInv'
    BY <2>1 DEF StaleInv, ProcsOK, StaleOK, Phase, Settled
  <2>4. \A s \in Sessions : ServedOK(s)'
    BY <2>1 DEF ServedOK, Phase
  <2>5. QED
    BY <2>2, <2>3, <2>4 DEF SessionInv
<1>5. ASSUME NEW p \in Setups, SetupStep(p) PROVE UNCHANGED booted
  BY <1>5 DEF SetupStep, macVars
<1>6. UserChangesMac => UNCHANGED booted
  BY DEF UserChangesMac
<1>7. booted \subseteq Udids
  BY <1>1 DEF SessionTypeOK
<1>8. CASE Next
  <2>1. CASE \E p \in Setups : SetupStep(p) /\ UNCHANGED sessionVars
    BY <1>4, <1>5, <1>7, <2>1
  <2>2. CASE UserChangesMac /\ UNCHANGED <<setupVars, sessionVars>>
    BY <1>4, <1>6, <1>7, <2>2
  <2>3. QED
    BY <1>2, <1>3, <1>8, <2>1, <2>2 DEF Next
<1>9. CASE UNCHANGED vars
  BY <1>4, <1>7, <1>9 DEF vars, macVars
<1>10. QED
  BY <1>8, <1>9

\* Setups and sessions keep each other's invariants, and their own.
LEMMA WorkstationInvariant == Spec => [](SetupInv /\ SessionInv)
<1>1. Init => SessionInv
  BY InitSessionInv
<1>2. MacTypeOK /\ SessionInv /\ [Next]_vars => SessionInv'
  BY NextSessionInv
<1>3. SetupInv => MacTypeOK
  BY DEF SetupInv
<1>4. QED
  BY <1>1, <1>2, <1>3, SetupInvariant, PTL DEF Spec

\* The parts of the Mac, the setups and the sessions are what they are meant to
\* be, for any number of them: whoever is past the choice of a device has one
\* (build.py, devices.py), and a session that is up has a process (agent.py).
THEOREM WorkstationTypeCorrect == Spec => []TypeOK
<1>1. ASSUME SetupInv, SessionInv PROVE TypeOK
  <2>1. /\ MacTypeOK /\ SetupTypeOK /\ SessionTypeOK
    BY <1>1 DEF SetupInv, SessionInv
  <2>2. /\ attached \subseteq Udids /\ booted \subseteq Udids /\ sdk \in Sdks
        /\ changes \in 0 .. MaxChanges /\ faults \in 0 .. MaxFaults
        /\ \A f \in Platforms : \A b \in products[f] : b.number \in 0 .. builds
        /\ project.author \in Setups \cup {Nobody} /\ scheme.author \in Setups \cup {Nobody}
    <3>1. \A f \in Platforms : \A b \in products[f] : b \in [number : 0 .. builds, sdk : Sdks \cup {0}]
      BY <2>1 DEF MacTypeOK
    <3>2. QED
      BY <2>1, <3>1 DEF MacTypeOK, SetupTypeOK, SessionTypeOK
  <2>3. ASSUME NEW p \in Setups
        PROVE  /\ Cardinality(setup[p].device) <= 1 /\ Cardinality(setup[p].profile) <= 1
               /\ setup[p].at \in Places
               /\ setup[p].at \notin {"idle"} \cup Exits => Cardinality(setup[p].args) = 1
               /\ setup[p].at \notin {"idle"} \cup Exits => setup[p].device # {}
    <3>1. RunTypeOK(setup[p])
      BY <2>1 DEF SetupTypeOK
    <3>2. AtMostOne(setup[p].device) /\ AtMostOne(setup[p].profile)
      BY <3>1 DEF RunTypeOK
    <3>3. Busy(setup[p]) => Cardinality(setup[p].args) = 1
      <4>1. ASSUME NEW args, setup[p].args = {args} PROVE Cardinality(setup[p].args) = 1
        BY <4>1, FS_Singleton
      <4>2. QED
        BY <3>1, <4>1 DEF RunTypeOK
    <3>4. QED
      BY <3>1, <3>2, <3>3, CardinalityAtMostOne DEF RunTypeOK, Busy
  <2>4. Cardinality(patched) <= 1
    BY <2>1, CardinalityAtMostOne DEF SessionTypeOK
  <2>5. ASSUME NEW s \in Sessions
        PROVE  /\ Phase(s) \in Phases
               /\ Phase(s) \in {"patch", "popen", "wait", "up"} =>
                    session[s].run # {} /\ session[s].target # {}
               /\ Phase(s) = "up" => session[s].started /\ Own(s) # {}
    <3>1. session[s] \in Records /\ RecordOK(session[s], Own(s))
      BY <2>1 DEF SessionTypeOK
    <3>2. QED
      BY <3>1 DEF Records, RecordOK, Phase
  <2>6. QED
    BY <2>2, <2>3, <2>4, <2>5 DEF TypeOK, Places, Phases
<1>2. QED
  BY <1>1, WorkstationInvariant, PTL

\* What a session found on its device, as a process or as the controller of
\* one, does not go on for good once its signals are sent, however many
\* sessions clear the same device at the same time, and although the
\* controllers start again what ends under them: their processes are told to
\* end or left to a controller that is told to, but for what a signal missed
\* or a controller has left behind (agent.py:265).
THEOREM StaleSessionsAreGone == Spec => []StaleSessionsEnd
<1>1. ASSUME SessionInv PROVE StaleSessionsEnd
  <2>1. /\ \A s \in Sessions : StaleOK(s) /\ ProcsOK(s)
        /\ \A s \in Sessions : session[s].stale.owners \subseteq Sessions
    BY <1>1, TypedRecord DEF SessionInv, StaleInv, Records, Stale
  <2>2. QED
    BY <2>1 DEF StaleOK, ProcsOK, Signalled, StaleSessionsEnd
<1>2. QED
  BY <1>1, WorkstationInvariant, PTL

\* The process of a session that is up runs with the session's own port and
\* token, unless another session wrote the one patched file between its _spawn
\* and the moment xcodebuild read it: with any number of sessions, that is the
\* only way to be served by another's agent (agent.py:186).
THEOREM SessionsServedByTheirOwn == Spec => []ServedByItsOwnAgent
<1>1. ASSUME SessionInv PROVE ServedByItsOwnAgent
  <2>1. \A s \in Sessions : ServedOK(s)
    BY <1>1 DEF SessionInv
  <2>2. QED
    BY <2>1 DEF ServedOK, ServedByItsOwnAgent
<1>2. QED
  BY <1>1, WorkstationInvariant, PTL
================================================================================
