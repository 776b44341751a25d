------------------------------ MODULE SetupProofs ------------------------------
(***************************************************************************)
(* Theorems of Workstation about its setups, for any number of them beside *)
(* any number of sessions, and for any profiles, arguments and devices.    *)
(***************************************************************************)
EXTENDS Workstation, FiniteSetTheorems, SequenceTheorems, TLAPS

AtMostOne(S) == \A x, y \in S : x = y

LEMMA CardinalityAtMostOne ==
  ASSUME NEW S, AtMostOne(S)
  PROVE  Cardinality(S) <= 1 /\ (S # {} => Cardinality(S) = 1)
<1>1. CASE S = {}
  BY <1>1, FS_EmptySet
<1>2. CASE S # {}
  <2>1. PICK x : x \in S
    BY <1>2
  <2>2. S = {x}
    BY <2>1 DEF AtMostOne
  <2>3. QED
    BY <2>2, FS_Singleton
<1>3. QED
  BY <1>1, <1>2

-----------------------------------------------------------------------------
(* The Mac *)

\* What resolve_device returns is one known device.
LEMMA Resolved ==
  ASSUME NEW udid
  PROVE  ResolveDevice(udid) \subseteq Devices /\ AtMostOne(ResolveDevice(udid))
<1>1. ASSUME NEW places, places \subseteq DOMAIN Known
      PROVE  First(places) \subseteq Devices /\ AtMostOne(First(places))
  <2>1. DOMAIN Known \subseteq Nat
    BY MacAssumption
  <2>2. QED
    BY <1>1, <2>1 DEF First, Devices, AtMostOne
<1>2. /\ DiscoverDevices \subseteq DOMAIN Known
      /\ DiscoverPhysicalDevices \subseteq DOMAIN Known
      /\ DiscoverSimulators \subseteq DOMAIN Known
  BY DEF DiscoverDevices, DiscoverPhysicalDevices, DiscoverSimulators
<1>3. QED
  BY <1>1, <1>2 DEF ResolveDevice

-----------------------------------------------------------------------------
(* Setups: types *)

\* The shape of a run's record.  What a profile is does not matter here.
RunFields == {"at", "args", "device", "profile", "sdk", "built", "result"}

IsRun(r) == r = [f \in RunFields |-> r[f]]

Places == {"idle", "profile", "project", "scheme", "check", "build", "xcodebuild", "locate"}
            \cup Exits

Busy(r) == r.at \notin {"idle"} \cup Exits

\* Whoever is past the choice of a device has one, and the arguments.
RunTypeOK(r) ==
  /\ IsRun(r)
  /\ r.at \in Places
  /\ r.sdk \in Sdks \cup {0} /\ r.built \in 0 .. builds
  /\ r.device \subseteq Devices /\ AtMostOne(r.device)
  /\ AtMostOne(r.profile)
  /\ Busy(r) => (\E args \in Commands : r.args = {args}) /\ r.device # {}

MacTypeOK ==
  /\ attached \subseteq Udids
  /\ sdk \in Sdks /\ changes \in 0 .. MaxChanges
  /\ builds \in Nat
  /\ products \in [Platforms -> SUBSET [number : 0 .. builds, sdk : Sdks \cup {0}]]

SetupTypeOK ==
  /\ setup = [p \in Setups |-> setup[p]] /\ \A p \in Setups : RunTypeOK(setup[p])
  /\ project.author \in Setups \cup {Nobody} /\ scheme.author \in Setups \cup {Nobody}

LEMMA AtFields ==
  ASSUME NEW r, NEW at, IsRun(r)
  PROVE  /\ IsRun(At(r, at)) /\ At(r, at).at = at
         /\ at \in Exits => /\ At(r, at).args = {} /\ At(r, at).device = {}
                            /\ At(r, at).profile = {} /\ At(r, at).result = {}
                            /\ At(r, at).built = 0 /\ At(r, at).sdk = 0
         /\ at \notin Exits => /\ At(r, at).args = r.args /\ At(r, at).device = r.device
                               /\ At(r, at).profile = r.profile /\ At(r, at).result = r.result
                               /\ At(r, at).built = r.built /\ At(r, at).sdk = r.sdk
BY DEF IsRun, RunFields, At, Idle

LEMMA AtPlace ==
  ASSUME NEW r, IsRun(r)
  PROVE  \A to : At(r, to).at = to
BY AtFields

\* A step of one run leaves the records of the others alone.
LEMMA RunMoves ==
  ASSUME SetupTypeOK, NEW p \in Setups, NEW r, setup' = [setup EXCEPT ![p] = r]
  PROVE  /\ setup' = [q \in Setups |-> setup'[q]]
         /\ setup'[p] = r
         /\ \A q \in Setups \ {p} : setup'[q] = setup[q]
BY DEF SetupTypeOK

\* A typed record stays typed where its run goes on, and where it exits.
LEMMA AtType ==
  ASSUME MacTypeOK, NEW r, RunTypeOK(r), NEW to \in Places \ {"idle"},
         to \notin Exits => (\E args \in Commands : r.args = {args}) /\ r.device # {}
  PROVE  RunTypeOK(At(r, to))
<1>1. IsRun(At(r, to)) /\ At(r, to).at = to
  BY AtFields DEF RunTypeOK
<1>2. CASE to \in Exits
  <2>1. /\ At(r, to).device = {} /\ At(r, to).profile = {}
        /\ At(r, to).built = 0 /\ At(r, to).sdk = 0
    BY <1>2, AtFields DEF RunTypeOK
  <2>2. 0 \in 0 .. builds /\ AtMostOne({})
    BY DEF MacTypeOK, AtMostOne
  <2>3. QED
    BY <1>1, <1>2, <2>1, <2>2 DEF RunTypeOK, Busy
<1>3. CASE to \notin Exits
  <2>1. /\ At(r, to).device = r.device /\ At(r, to).profile = r.profile
        /\ At(r, to).built = r.built /\ At(r, to).sdk = r.sdk /\ At(r, to).args = r.args
    BY <1>3, AtFields DEF RunTypeOK
  <2>2. QED
    BY <1>1, <1>3, <2>1 DEF RunTypeOK, Busy
<1>4. QED
  BY <1>2, <1>3

\* The type is preserved when one run takes on a typed record, and nothing but
\* its place is needed where it moves with the record it has.
LEMMA RunsType ==
  ASSUME SetupTypeOK, NEW p \in Setups, NEW r, setup' = [setup EXCEPT ![p] = r],
         RunTypeOK(r), UNCHANGED builds
  PROVE  setup' = [q \in Setups |-> setup'[q]] /\ \A q \in Setups : RunTypeOK(setup[q])'
<1>1. /\ setup' = [q \in Setups |-> setup'[q]]
      /\ setup'[p] = r
      /\ \A q \in Setups \ {p} : setup'[q] = setup[q]
  BY RunMoves
<1>2. RunTypeOK(setup[p])'
  BY <1>1 DEF RunTypeOK
<1>3. \A q \in Setups \ {p} : RunTypeOK(setup[q])'
  BY <1>1 DEF SetupTypeOK, RunTypeOK
<1>4. QED
  BY <1>1, <1>2, <1>3

LEMMA GoType ==
  ASSUME MacTypeOK, SetupTypeOK, NEW p \in Setups, NEW from \in Places \ ({"idle"} \cup Exits),
         NEW to \in Places \ {"idle"}, Go(p, from, to), UNCHANGED builds
  PROVE  setup' = [q \in Setups |-> setup'[q]] /\ \A q \in Setups : RunTypeOK(setup[q])'
<1>1. RunTypeOK(setup[p]) /\ Busy(setup[p])
  BY DEF SetupTypeOK, Go, Busy
<1>2. RunTypeOK(At(setup[p], to))
  BY <1>1, AtType DEF RunTypeOK
<1>3. QED
  BY <1>2, RunsType DEF Go

LEMMA TheArgs ==
  ASSUME SetupTypeOK, NEW p \in Setups, Busy(setup[p])
  PROVE  /\ setup[p].args = {Args(p)} /\ Args(p) \in Commands
         /\ TheDevice(p) \in Devices /\ setup[p].device = {TheDevice(p)}
<1>1. RunTypeOK(setup[p])
  BY DEF SetupTypeOK
<1>2. PICK args \in Commands : setup[p].args = {args}
  BY <1>1 DEF RunTypeOK
<1>3. PICK d : d \in setup[p].device
  BY <1>1 DEF RunTypeOK
<1>4. setup[p].device = {d} /\ d \in Devices
  BY <1>1, <1>3 DEF RunTypeOK, AtMostOne
<1>5. QED
  BY <1>2, <1>4 DEF Args, TheDevice

LEMMA SetupStepType ==
  ASSUME MacTypeOK, SetupTypeOK, NEW p \in Setups, SetupStep(p)
  PROVE  MacTypeOK' /\ SetupTypeOK'
<1> DEFINE Runs == setup' = [q \in Setups |-> setup'[q]]
                     /\ \A q \in Setups : RunTypeOK(setup[q])'
<1>0. RunTypeOK(setup[p]) /\ IsRun(setup[p])
  BY DEF SetupTypeOK, RunTypeOK
<1>1. ASSUME Runs, UNCHANGED <<macVars, builds>>,
             project'.author \in {project.author, p}, scheme'.author \in {scheme.author, p}
      PROVE  MacTypeOK' /\ SetupTypeOK'
  BY <1>1 DEF SetupTypeOK, MacTypeOK, macVars
<1>2. ASSUME DetectXcodeFails(p), UNCHANGED macVars PROVE MacTypeOK' /\ SetupTypeOK'
  <2>1. RunTypeOK(At(setup[p], "exit 1"))
    BY <1>0, AtType DEF Places, Exits
  <2>2. Runs
    BY <1>2, <2>1, RunsType DEF DetectXcodeFails, Go
  <2>3. QED
    BY <1>1, <1>2, <2>2 DEF DetectXcodeFails
<1>3. ASSUME NEW args \in Commands, Preflight(p, args), UNCHANGED macVars
      PROVE  MacTypeOK' /\ SetupTypeOK'
  <2> DEFINE found == ResolveDevice(args.udid)
             r == [setup[p] EXCEPT !.args = {args}, !.device = found]
             to == IF found = {} THEN "exit 1"
                   ELSE IF \E d \in found : DeveloperModeOff(d) THEN "exit 2"
                   ELSE IF Configures(args) THEN "profile" ELSE "build"
  <2>1. found \subseteq Devices /\ AtMostOne(found)
    BY Resolved
  <2>2. /\ IsRun(r) /\ r.at = "idle" /\ r.args = {args} /\ r.device = found
        /\ r.profile = setup[p].profile /\ r.sdk = setup[p].sdk /\ r.built = setup[p].built
    BY <1>0, <1>3 DEF Preflight, IsRun, RunFields
  <2>3. RunTypeOK(r)
    BY <1>0, <2>1, <2>2 DEF RunTypeOK, Busy, Places
  <2>4. /\ to \in Places \ {"idle"}
        /\ to \notin Exits => (\E a \in Commands : r.args = {a}) /\ r.device # {}
    BY <2>2 DEF Places, Exits
  <2>5. RunTypeOK(At(r, to))
    BY <2>3, <2>4, AtType
  <2>6. setup' = [setup EXCEPT ![p] = At(r, to)]
    BY <1>3 DEF Preflight
  <2>7. Runs
    BY <1>3, <2>5, <2>6, RunsType DEF Preflight
  <2>8. QED
    BY <1>1, <1>3, <2>7 DEF Preflight
<1>4. ASSUME ChooseProfile(p), UNCHANGED macVars PROVE MacTypeOK' /\ SetupTypeOK'
  <2> DEFINE found == UNION {FindProfile(Files, q) : q \in Args(p).profile}
             r == [setup[p] EXCEPT !.profile = found]
             to == IF Args(p).profile # {} /\ found = {} THEN "exit 2" ELSE "project"
  <2>1. Busy(setup[p])
    BY <1>4 DEF ChooseProfile, Busy, Exits
  <2>2. AtMostOne(found)
    <3>1. \A q : AtMostOne(FindProfile(Files, q))
      BY DEF FindProfile, AtMostOne
    <3>2. \A q1, q2 \in Args(p).profile : q1 = q2
      BY <2>1, TheArgs, SetupAssumption
    <3>3. QED
      BY <3>1, <3>2 DEF AtMostOne
  <2>3. /\ IsRun(r) /\ r.at = "profile" /\ r.profile = found
        /\ r.args = setup[p].args /\ r.device = setup[p].device
        /\ r.sdk = setup[p].sdk /\ r.built = setup[p].built
    BY <1>0, <1>4 DEF ChooseProfile, IsRun, RunFields
  <2>4. RunTypeOK(r)
    BY <1>0, <2>1, <2>2, <2>3 DEF RunTypeOK, Busy, Places
  <2>5. /\ to \in Places \ {"idle"}
        /\ (\E a \in Commands : r.args = {a}) /\ r.device # {}
    BY <1>0, <2>1, <2>3 DEF RunTypeOK, Places, Exits
  <2>6. RunTypeOK(At(r, to))
    BY <2>4, <2>5, AtType
  <2>7. setup' = [setup EXCEPT ![p] = At(r, to)]
    BY <1>4 DEF ChooseProfile
  <2>8. Runs
    BY <1>4, <2>6, <2>7, RunsType DEF ChooseProfile
  <2>9. QED
    BY <1>1, <1>4, <2>8 DEF ChooseProfile
<1>5. ASSUME WriteProject(p), UNCHANGED macVars PROVE MacTypeOK' /\ SetupTypeOK'
  <2>1. Runs
    BY <1>5, GoType DEF WriteProject, Places, Exits
  <2>2. project'.author = p
    BY <1>5 DEF WriteProject, Render, Project
  <2>3. QED
    BY <1>1, <1>5, <2>1, <2>2 DEF WriteProject
<1>6. ASSUME WriteScheme(p), UNCHANGED macVars PROVE MacTypeOK' /\ SetupTypeOK'
  <2>1. Runs
    BY <1>6, GoType DEF WriteScheme, Places, Exits
  <2>2. QED
    BY <1>1, <1>6, <2>1 DEF WriteScheme
<1>7. ASSUME CheckProfile(p), UNCHANGED macVars PROVE MacTypeOK' /\ SetupTypeOK'
  <2>1. PICK to \in {"build", "exit 2"} : Go(p, "check", to)
    BY <1>7 DEF CheckProfile
  <2>2. Runs
    BY <1>7, <2>1, GoType DEF CheckProfile, Places, Exits
  <2>3. QED
    BY <1>1, <1>7, <2>2 DEF CheckProfile
<1>8. ASSUME StartBuild(p), UNCHANGED macVars PROVE MacTypeOK' /\ SetupTypeOK'
  <2> DEFINE r == [setup[p] EXCEPT !.sdk = sdk]
  <2>1. PICK to \in {"xcodebuild", "exit 1"} :
          setup[p].at = "build" /\ setup' = [setup EXCEPT ![p] = At(r, to)]
    BY <1>8 DEF StartBuild
  <2>2. /\ IsRun(r) /\ r.at = "build" /\ r.sdk = sdk
        /\ r.args = setup[p].args /\ r.device = setup[p].device
        /\ r.profile = setup[p].profile /\ r.built = setup[p].built
    BY <1>0, <2>1 DEF IsRun, RunFields
  <2>3. RunTypeOK(r) /\ (\E a \in Commands : r.args = {a}) /\ r.device # {}
    BY <1>0, <2>1, <2>2 DEF MacTypeOK, RunTypeOK, Busy, Places, Exits
  <2>4. RunTypeOK(At(r, to))
    BY <2>3, AtType DEF Places, Exits
  <2>5. Runs
    BY <1>8, <2>1, <2>4, RunsType DEF StartBuild
  <2>6. QED
    BY <1>1, <1>8, <2>5 DEF StartBuild
<1>9. ASSUME XcodebuildFails(p), UNCHANGED macVars PROVE MacTypeOK' /\ SetupTypeOK'
  <2>1. Runs
    BY <1>9, GoType DEF XcodebuildFails, Places, Exits
  <2>2. QED
    BY <1>1, <1>9, <2>1 DEF XcodebuildFails
<1>10. ASSUME Locate(p), UNCHANGED macVars PROVE MacTypeOK' /\ SetupTypeOK'
  <2> DEFINE result == LocateBuild(Platform(TheDevice(p)))
             r == [Idle EXCEPT !.at = "exit 0", !.built = setup[p].built, !.result = result]
  <2>1. /\ IsRun(r) /\ r.at = "exit 0" /\ r.device = {} /\ r.profile = {} /\ r.sdk = 0
        /\ r.built = setup[p].built
    BY DEF Idle, IsRun, RunFields
  <2>2. RunTypeOK(r)
    BY <1>0, <2>1 DEF RunTypeOK, Busy, Places, Exits, AtMostOne
  <2>3. Runs
    BY <1>10, <2>2, RunsType DEF Locate
  <2>4. QED
    BY <1>1, <1>10, <2>3 DEF Locate
<1>11. ASSUME XcodebuildSucceeds(p), UNCHANGED <<attached, booted, sdk, changes>>
       PROVE  MacTypeOK' /\ SetupTypeOK'
  <2> DEFINE build == [number |-> builds + 1, sdk |-> setup[p].sdk]
             platform == Platform(TheDevice(p))
             r == [setup[p] EXCEPT !.at = "locate", !.built = builds + 1]
  <2>1. builds' = builds + 1 /\ builds' \in Nat /\ 0 .. builds \subseteq 0 .. builds'
    BY <1>11 DEF XcodebuildSucceeds, MacTypeOK
  <2>2. platform \in Platforms
    BY DEF Platform, Platforms
  <2>3. build \in [number : 0 .. builds', sdk : Sdks \cup {0}]
    BY <1>0, <2>1 DEF RunTypeOK, MacTypeOK
  <2>4. products' \in [Platforms -> SUBSET [number : 0 .. builds', sdk : Sdks \cup {0}]]
    <3>1. \A f \in Platforms : products[f] \subseteq [number : 0 .. builds', sdk : Sdks \cup {0}]
      BY <2>1 DEF MacTypeOK
    <3>2. products' = [products EXCEPT ![platform] =
                         {b \in products[platform] : b.sdk # build.sdk} \cup {build}]
      BY <1>11 DEF XcodebuildSucceeds, Produce
    <3>3. QED
      BY <2>2, <2>3, <3>1, <3>2 DEF MacTypeOK
  <2>5. setup' = [setup EXCEPT ![p] = r]
    BY <1>11 DEF XcodebuildSucceeds, SetupTypeOK
  <2>6. /\ IsRun(r) /\ r.at = "locate" /\ r.built = builds + 1
        /\ r.args = setup[p].args /\ r.device = setup[p].device
        /\ r.profile = setup[p].profile /\ r.sdk = setup[p].sdk
    BY <1>0 DEF IsRun, RunFields
  <2>8. Runs
    <3>1. /\ setup' = [q \in Setups |-> setup'[q]] /\ setup'[p] = r
          /\ \A q \in Setups \ {p} : setup'[q] = setup[q]
      BY <2>5, RunMoves
    <3>2. RunTypeOK(setup[p])'
      <4>1. setup[p].at = "xcodebuild" /\ Busy(setup[p])
        BY <1>11 DEF XcodebuildSucceeds, Busy, Exits
      <4>2. builds + 1 \in 0 .. builds'
        BY <2>1 DEF MacTypeOK
      <4>3. IsRun(setup'[p]) /\ setup'[p].at \in Places
        BY <2>6, <3>1 DEF Places
      <4>4. QED
        BY <1>0, <2>6, <3>1, <4>1, <4>2, <4>3 DEF RunTypeOK
    <3>3. \A q \in Setups \ {p} : RunTypeOK(setup[q])'
      BY <2>1, <3>1 DEF SetupTypeOK, RunTypeOK
    <3>4. QED
      BY <3>1, <3>2, <3>3
  <2>9. QED
    BY <1>11, <2>1, <2>4, <2>8 DEF XcodebuildSucceeds, MacTypeOK, SetupTypeOK
<1>12. QED
  BY <1>2, <1>3, <1>4, <1>5, <1>6, <1>7, <1>8, <1>9, <1>10, <1>11 DEF SetupStep

-----------------------------------------------------------------------------
(* Setups: what is built is what was checked *)

\* A run that has not written the project (the scheme) is not its author; as
\* long as a run is, the file is what its arguments make of it; and past the
\* check, its profile can sign the runner, or it was forced.
Before(p, places) == setup[p].at \in places

Written(p) == Render(p, Args(p), setup[p].profile)

ProjectOK(p) ==
  /\ Before(p, {"idle", "profile", "project"}) => project.author # p
  /\ Before(p, {"scheme", "check", "build", "xcodebuild"}) /\ project.author = p =>
       project = Written(p)

SchemeOK(p) ==
  /\ Before(p, {"idle", "profile", "project", "scheme"}) => scheme.author # p
  /\ Before(p, {"check", "build", "xcodebuild"}) /\ scheme.author = p =>
       scheme.demo = IncludeDemo(Args(p), setup[p].profile)

Checked(p) ==
  Before(p, {"build", "xcodebuild"}) /\ project.author = p =>
    Args(p).force \/ \A q \in setup[p].profile : SignsRunner(q, Written(p).agent)

WrittenOK(p) == ProjectOK(p) /\ SchemeOK(p) /\ Checked(p)

LEMMA SetupSigns ==
  ASSUME \A p \in Setups : WrittenOK(p)
  PROVE  SignsWhatItBuilds
<1> SUFFICES ASSUME NEW p \in Setups, setup[p].at = "xcodebuild", project.author = p,
                    scheme.author = p, NEW q \in setup[p].profile
             PROVE  /\ Args(p).force \/ MatchesBundleId(q, RequiredAppId(project.agent))
                    /\ ~q.wildcard => ~BuildsDemo
  BY DEF SignsWhatItBuilds
<1>1. project = Written(p) /\ scheme.demo = IncludeDemo(Args(p), setup[p].profile)
  BY DEF WrittenOK, ProjectOK, SchemeOK, Before
<1>2. Args(p).force \/ SignsRunner(q, project.agent)
  BY <1>1 DEF WrittenOK, Checked, Before
<1>3. project.dependency = IncludeDemo(Args(p), setup[p].profile)
  BY <1>1 DEF Written, Render, Project
<1>4. QED
  BY <1>1, <1>2, <1>3 DEF SignsRunner, BuildsDemo, IncludeDemo

\* Whatever another run writes has that run as its author.
LEMMA OthersWritten ==
  ASSUME NEW p, NEW q, q # p, WrittenOK(q), setup'[q] = setup[q],
         project' = project \/ project'.author = p,
         scheme' = scheme \/ scheme'.author = p
  PROVE  WrittenOK(q)'
BY DEF WrittenOK, ProjectOK, SchemeOK, Checked, Before, Written, Args

LEMMA SetupStepWritten ==
  ASSUME SetupTypeOK, NEW p \in Setups, SetupStep(p), \A q \in Setups : WrittenOK(q)
  PROVE  \A q \in Setups : WrittenOK(q)'
<1> USE DEF ProjectOK, SchemeOK, Checked, Before
<1>0. IsRun(setup[p]) /\ WrittenOK(p)
  BY DEF SetupTypeOK, RunTypeOK
<1>1. ASSUME NEW r, setup' = [setup EXCEPT ![p] = r], WrittenOK(p)',
             project' = project \/ project'.author = p,
             scheme' = scheme \/ scheme'.author = p
      PROVE  \A q \in Setups : WrittenOK(q)'
  <2>1. \A q \in Setups \ {p} : setup'[q] = setup[q]
    BY <1>1, RunMoves
  <2>2. \A q \in Setups \ {p} : WrittenOK(q)'
    BY <1>1, <2>1, OthersWritten
  <2>3. QED
    BY <1>1, <2>2
<1>2. ASSUME NEW to \in Exits, NEW r, setup' = [setup EXCEPT ![p] = r], r.at = to,
             UNCHANGED <<project, scheme>>
      PROVE  \A q \in Setups : WrittenOK(q)'
  <2>1. setup'[p].at = to
    BY <1>2, RunMoves
  <2>2. WrittenOK(p)'
    BY <2>1 DEF WrittenOK, Exits
  <2>3. QED
    BY <1>1, <1>2, <2>2
<1>3. ASSUME NEW from, NEW to, to \notin Exits, Go(p, from, to)
      PROVE  /\ setup[p].at = from /\ setup'[p].at = to
             /\ Args(p)' = Args(p) /\ setup'[p].profile = setup[p].profile
  <2>1. setup[p].at = from /\ setup'[p] = At(setup[p], to)
    BY <1>3, RunMoves DEF Go
  <2>2. /\ setup'[p].at = to /\ setup'[p].args = setup[p].args
        /\ setup'[p].profile = setup[p].profile
    BY <1>0, <1>3, <2>1, AtFields
  <2>3. QED
    BY <2>1, <2>2 DEF Args
<1>4. ASSUME NEW from, NEW to \in Exits, Go(p, from, to), UNCHANGED <<project, scheme>>
      PROVE  \A q \in Setups : WrittenOK(q)'
  <2>1. At(setup[p], to).at = to
    BY <1>0, AtFields
  <2>2. setup' = [setup EXCEPT ![p] = At(setup[p], to)]
    BY <1>4 DEF Go
  <2>3. QED
    BY <1>2, <1>4, <2>1, <2>2
<1>5. CASE DetectXcodeFails(p)
  BY <1>4, <1>5 DEF DetectXcodeFails, Exits
<1>6. ASSUME NEW args \in Commands, Preflight(p, args) PROVE \A q \in Setups : WrittenOK(q)'
  <2>1. PICK to, r : /\ setup' = [setup EXCEPT ![p] = r] /\ r.at = to
                     /\ to \in {"exit 1", "exit 2", "profile", "build"}
    <3> DEFINE r == [setup[p] EXCEPT !.args = {args}, !.device = ResolveDevice(args.udid)]
    <3>1. IsRun(r)
      BY <1>0 DEF IsRun, RunFields
    <3>2. \A to : At(r, to).at = to
      BY <3>1, AtPlace
    <3>3. QED
      BY <1>6, <3>2 DEF Preflight
  <2>2. setup[p].at = "idle" /\ setup'[p].at = to
    BY <1>6, <2>1, RunMoves DEF Preflight
  <2>3. project.author # p /\ scheme.author # p /\ UNCHANGED <<project, scheme>>
    BY <1>0, <1>6, <2>2 DEF Preflight, WrittenOK
  <2>4. WrittenOK(p)'
    BY <2>1, <2>2, <2>3 DEF WrittenOK
  <2>5. QED
    BY <1>1, <2>1, <2>3, <2>4
<1>7. CASE ChooseProfile(p)
  <2>1. PICK to, r : /\ setup' = [setup EXCEPT ![p] = r] /\ r.at = to
                     /\ to \in {"exit 2", "project"}
    <3> DEFINE r == [setup[p] EXCEPT !.profile =
                       UNION {FindProfile(Files, q) : q \in Args(p).profile}]
    <3>1. IsRun(r)
      BY <1>0 DEF IsRun, RunFields
    <3>2. \A to : At(r, to).at = to
      BY <3>1, AtPlace
    <3>3. QED
      BY <1>7, <3>2 DEF ChooseProfile
  <2>2. setup[p].at = "profile" /\ setup'[p].at = to
    BY <1>7, <2>1, RunMoves DEF ChooseProfile
  <2>3. project.author # p /\ scheme.author # p /\ UNCHANGED <<project, scheme>>
    BY <1>0, <1>7, <2>2 DEF ChooseProfile, WrittenOK
  <2>4. WrittenOK(p)'
    BY <2>1, <2>2, <2>3 DEF WrittenOK, Exits
  <2>5. QED
    BY <1>1, <2>1, <2>3, <2>4
<1>8. CASE WriteProject(p)
  <2>1. /\ setup[p].at = "project" /\ setup'[p].at = "scheme"
        /\ Args(p)' = Args(p) /\ setup'[p].profile = setup[p].profile
    BY <1>3, <1>8 DEF WriteProject, Exits
  <2>2. /\ project' = Render(p, Args(p), setup[p].profile) /\ project'.author = p
        /\ scheme' = scheme /\ scheme.author # p
    BY <1>0, <1>8, <2>1 DEF WriteProject, Render, Project, WrittenOK
  <2>3. WrittenOK(p)'
    BY <2>1, <2>2 DEF WrittenOK, Written
  <2>4. QED
    BY <1>1, <1>8, <2>2, <2>3 DEF WriteProject, Go
<1>9. CASE WriteScheme(p)
  <2>1. /\ setup[p].at = "scheme" /\ setup'[p].at = "check"
        /\ Args(p)' = Args(p) /\ setup'[p].profile = setup[p].profile
    BY <1>3, <1>9 DEF WriteScheme, Exits
  <2>2. /\ scheme'.author = p /\ scheme'.demo = IncludeDemo(Args(p), setup[p].profile)
        /\ project' = project
    BY <1>9 DEF WriteScheme
  <2>3. WrittenOK(p)'
    BY <1>0, <2>1, <2>2 DEF WrittenOK, Written
  <2>4. QED
    BY <1>1, <1>9, <2>2, <2>3 DEF WriteScheme, Go
<1>10. CASE CheckProfile(p)
  <2> DEFINE agent == Render(p, Args(p), setup[p].profile).agent
             ok    == Args(p).force \/ \A q \in setup[p].profile : SignsRunner(q, agent)
  <2>1. CASE ok
    <3>1. Go(p, "check", "build") /\ UNCHANGED <<project, scheme>>
      BY <1>10, <2>1 DEF CheckProfile
    <3>2. /\ setup[p].at = "check" /\ setup'[p].at = "build"
          /\ Args(p)' = Args(p) /\ setup'[p].profile = setup[p].profile
      BY <1>3, <3>1 DEF Exits
    <3>3. WrittenOK(p)'
      BY <1>0, <2>1, <3>1, <3>2 DEF WrittenOK, Written
    <3>4. QED
      BY <1>1, <3>1, <3>3 DEF Go
  <2>2. CASE ~ok
    <3>1. Go(p, "check", "exit 2") /\ UNCHANGED <<project, scheme>>
      BY <1>10, <2>2 DEF CheckProfile
    <3>2. QED
      BY <1>4, <3>1 DEF Exits
  <2>3. QED
    BY <2>1, <2>2
<1>11. CASE StartBuild(p)
  <2> DEFINE r == [setup[p] EXCEPT !.sdk = sdk]
  <2>1. PICK to \in {"xcodebuild", "exit 1"} :
          setup[p].at = "build" /\ setup' = [setup EXCEPT ![p] = At(r, to)]
    BY <1>11 DEF StartBuild
  <2>2. IsRun(r) /\ r.args = setup[p].args /\ r.profile = setup[p].profile
    BY <1>0 DEF IsRun, RunFields
  <2> HIDE DEF r
  <2>3. setup'[p] = At(r, to) /\ setup'[p].at = to /\ UNCHANGED <<project, scheme>>
    <3>1. setup'[p] = At(r, to)
      BY <2>1, RunMoves
    <3>2. At(r, to).at = to
      BY <2>2, AtPlace
    <3>3. UNCHANGED <<project, scheme>>
      BY <1>11 DEF StartBuild
    <3>4. QED
      BY <3>1, <3>2, <3>3
  <2>4. CASE to = "xcodebuild"
    <3>1. setup'[p].args = setup[p].args /\ setup'[p].profile = setup[p].profile
      <4>1. to \notin Exits
        BY <2>4 DEF Exits
      <4>2. At(r, to).args = r.args /\ At(r, to).profile = r.profile
        BY <2>2, <4>1, AtFields
      <4>3. QED
        BY <2>2, <2>3, <4>2
    <3>2. WrittenOK(p)'
      BY <1>0, <2>1, <2>3, <2>4, <3>1 DEF WrittenOK, Written, Args
    <3>3. QED
      BY <1>1, <2>1, <2>3, <3>2
  <2>5. CASE to = "exit 1"
    BY <1>2, <2>1, <2>2, <2>3, <2>5, AtFields DEF Exits
  <2>6. QED
    BY <2>4, <2>5
<1>12. CASE XcodebuildFails(p)
  BY <1>4, <1>12 DEF XcodebuildFails, Exits
<1>13. CASE XcodebuildSucceeds(p)
  <2> DEFINE r == [setup[p] EXCEPT !.at = "locate", !.built = builds + 1]
  <2>1. setup' = [setup EXCEPT ![p] = r] /\ UNCHANGED <<project, scheme>>
    BY <1>13 DEF XcodebuildSucceeds, SetupTypeOK
  <2>2. setup'[p].at = "locate"
    BY <1>0, <2>1, RunMoves DEF IsRun, RunFields
  <2>3. WrittenOK(p)'
    BY <2>2 DEF WrittenOK
  <2>4. QED
    BY <1>1, <2>1, <2>3
<1>14. CASE Locate(p)
  <2> DEFINE r == [Idle EXCEPT !.at = "exit 0", !.built = setup[p].built,
                               !.result = LocateBuild(Platform(TheDevice(p)))]
  <2>1. setup' = [setup EXCEPT ![p] = r] /\ UNCHANGED <<project, scheme>>
    BY <1>14 DEF Locate
  <2>2. r.at = "exit 0"
    BY DEF Idle
  <2>3. QED
    BY <1>2, <2>1, <2>2 DEF Exits
<1>15. QED
  BY <1>5, <1>6, <1>7, <1>8, <1>9, <1>10, <1>11, <1>12, <1>13, <1>14 DEF SetupStep

-----------------------------------------------------------------------------
(* Setups: what a run reports is not older than what it built *)

NotOlder(found, number) == \E b \in found : b.number >= number

BuiltOK(p) ==
  /\ setup[p].at = "locate" =>
       NotOlder(LocateBuild(Platform(TheDevice(p))), setup[p].built)
  /\ setup[p].at = "exit 0" => NotOlder(setup[p].result, setup[p].built)

\* A new test run is the newest of its platform: whoever was to find one that
\* is not older than its own finds this one.
LEMMA ProduceKeepsNewer ==
  ASSUME MacTypeOK, NEW platform \in Platforms, NEW major \in Sdks \cup {0},
         Produce(platform, [number |-> builds + 1, sdk |-> major])
  PROVE  /\ NotOlder(LocateBuild(platform)', builds + 1)
         /\ \A f \in Platforms : \A n \in 0 .. builds :
              NotOlder(LocateBuild(f), n) => NotOlder(LocateBuild(f)', n)
<1> DEFINE new == [number |-> builds + 1, sdk |-> major]
<1>1. /\ products'[platform] = {b \in products[platform] : b.sdk # major} \cup {new}
      /\ \A f \in Platforms \ {platform} : products'[f] = products[f]
  BY DEF Produce, MacTypeOK
<1>2. builds \in Nat /\ \A b \in products[platform] : b.number \in 0 .. builds
  BY DEF MacTypeOK
<1>3. new \in LocateBuild(platform)'
  BY <1>1, <1>2 DEF LocateBuild
<1>4. NotOlder(LocateBuild(platform)', builds + 1)
  BY <1>2, <1>3 DEF NotOlder
<1>5. \A n \in 0 .. builds : NotOlder(LocateBuild(platform)', n)
  BY <1>2, <1>3 DEF NotOlder
<1>6. \A f \in Platforms \ {platform} : LocateBuild(f)' = LocateBuild(f)
  BY <1>1 DEF LocateBuild
<1>7. QED
  BY <1>4, <1>5, <1>6 DEF NotOlder

LEMMA SetupStepBuilt ==
  ASSUME MacTypeOK, SetupTypeOK, NEW p \in Setups, \A q \in Setups : BuiltOK(q),
         \/ SetupStep(p) /\ UNCHANGED macVars
         \/ XcodebuildSucceeds(p)
  PROVE  \A q \in Setups : BuiltOK(q)'
<1>0. RunTypeOK(setup[p]) /\ IsRun(setup[p])
  BY DEF SetupTypeOK, RunTypeOK
<1>1. ASSUME NEW r, setup' = [setup EXCEPT ![p] = r], UNCHANGED products, BuiltOK(p)'
      PROVE  \A q \in Setups : BuiltOK(q)'
  <2>1. \A q \in Setups \ {p} : setup'[q] = setup[q]
    BY <1>1, RunMoves
  <2>2. \A q \in Setups \ {p} : BuiltOK(q)'
    BY <1>1, <2>1 DEF BuiltOK, LocateBuild, TheDevice
  <2>3. QED
    BY <1>1, <2>2
<1>2. ASSUME NEW r, setup' = [setup EXCEPT ![p] = r], r.at \notin {"locate", "exit 0"},
             UNCHANGED products
      PROVE  \A q \in Setups : BuiltOK(q)'
  <2>1. BuiltOK(p)'
    BY <1>2, RunMoves DEF BuiltOK
  <2>2. QED
    BY <1>1, <1>2, <2>1
<1>3. CASE DetectXcodeFails(p) /\ UNCHANGED macVars
  <2>1. At(setup[p], "exit 1").at = "exit 1"
    BY <1>0, AtPlace
  <2>2. QED
    BY <1>2, <1>3, <2>1 DEF DetectXcodeFails, Go, macVars
<1>4. ASSUME NEW args \in Commands, Preflight(p, args), UNCHANGED macVars
      PROVE  \A q \in Setups : BuiltOK(q)'
  <2> DEFINE r == [setup[p] EXCEPT !.args = {args}, !.device = ResolveDevice(args.udid)]
  <2>1. IsRun(r)
    BY <1>0 DEF IsRun, RunFields
  <2>2. \A to : At(r, to).at = to
    BY <2>1, AtPlace
  <2>3. QED
    BY <1>2, <1>4, <2>2 DEF Preflight, macVars
<1>5. CASE ChooseProfile(p) /\ UNCHANGED macVars
  <2> DEFINE r == [setup[p] EXCEPT !.profile =
                     UNION {FindProfile(Files, q) : q \in Args(p).profile}]
  <2>1. IsRun(r)
    BY <1>0 DEF IsRun, RunFields
  <2>2. \A to : At(r, to).at = to
    BY <2>1, AtPlace
  <2>3. QED
    BY <1>2, <1>5, <2>2 DEF ChooseProfile, macVars
<1>6. CASE (WriteProject(p) \/ WriteScheme(p) \/ CheckProfile(p) \/ XcodebuildFails(p))
           /\ UNCHANGED macVars
  <2>1. \A to : At(setup[p], to).at = to
    BY <1>0, AtPlace
  <2>2. QED
    BY <1>2, <1>6, <2>1
       DEF WriteProject, WriteScheme, CheckProfile, XcodebuildFails, Go, macVars
<1>7. CASE StartBuild(p) /\ UNCHANGED macVars
  <2> DEFINE r == [setup[p] EXCEPT !.sdk = sdk]
  <2>1. IsRun(r)
    BY <1>0 DEF IsRun, RunFields
  <2>2. \A to : At(r, to).at = to
    BY <2>1, AtPlace
  <2>3. QED
    BY <1>2, <1>7, <2>2 DEF StartBuild, macVars
<1>8. CASE Locate(p) /\ UNCHANGED macVars
  <2> DEFINE found == LocateBuild(Platform(TheDevice(p)))
             r == [Idle EXCEPT !.at = "exit 0", !.built = setup[p].built, !.result = found]
  <2>1. setup' = [setup EXCEPT ![p] = r] /\ UNCHANGED products /\ setup[p].at = "locate"
    BY <1>8 DEF Locate, macVars
  <2>2. r.at = "exit 0" /\ r.built = setup[p].built /\ r.result = found
    BY DEF Idle
  <2>3. NotOlder(r.result, r.built)
    BY <2>1, <2>2 DEF BuiltOK
  <2>4. BuiltOK(p)'
    BY <2>1, <2>2, <2>3, RunMoves DEF BuiltOK
  <2>5. QED
    BY <1>1, <2>1, <2>4
<1>9. CASE XcodebuildSucceeds(p)
  <2> DEFINE r == [setup[p] EXCEPT !.at = "locate", !.built = builds + 1]
  <2>0. PICK platform \in Platforms, major \in Sdks \cup {0} :
          platform = Platform(TheDevice(p)) /\ major = setup[p].sdk
    BY <1>0 DEF RunTypeOK, Platform, Platforms
  <2>1. /\ setup' = [setup EXCEPT ![p] = r]
        /\ Produce(platform, [number |-> builds + 1, sdk |-> major])
    BY <1>9, <2>0 DEF XcodebuildSucceeds, SetupTypeOK
  <2>2. /\ NotOlder(LocateBuild(platform)', builds + 1)
        /\ \A f \in Platforms : \A n \in 0 .. builds :
             NotOlder(LocateBuild(f), n) => NotOlder(LocateBuild(f)', n)
    BY <2>1, ProduceKeepsNewer
  <2>3. r.at = "locate" /\ r.built = builds + 1 /\ r.device = setup[p].device
    BY <1>0 DEF IsRun, RunFields
  <2> HIDE DEF r
  <2>4. setup'[p] = r /\ \A q \in Setups \ {p} : setup'[q] = setup[q]
    BY <2>1, RunMoves
  <2>5. BuiltOK(p)'
    <3>1. TheDevice(p)' = TheDevice(p)
      BY <2>3, <2>4 DEF TheDevice
    <3>2. QED
      BY <2>0, <2>2, <2>3, <2>4, <3>1 DEF BuiltOK
  <2>6. ASSUME NEW q \in Setups \ {p} PROVE BuiltOK(q)'
    <3>1. TheDevice(q)' = TheDevice(q) /\ setup'[q] = setup[q] /\ BuiltOK(q)
      BY <2>4 DEF TheDevice
    <3>2. setup[q].built \in 0 .. builds
      BY DEF SetupTypeOK, RunTypeOK
    <3>3. PICK f \in Platforms : f = Platform(TheDevice(q))
      BY DEF Platform, Platforms
    <3>4. LocateBuild(Platform(TheDevice(q)))' = LocateBuild(f)'
      BY <3>1, <3>3 DEF LocateBuild
    <3>5. QED
      BY <2>2, <3>1, <3>2, <3>3, <3>4 DEF BuiltOK
  <2>7. QED
    BY <2>5, <2>6
<1>10. QED
  BY <1>3, <1>4, <1>5, <1>6, <1>7, <1>8, <1>9 DEF SetupStep

-----------------------------------------------------------------------------
(* The steps of the Mac *)

SetupInv ==
  /\ MacTypeOK /\ SetupTypeOK
  /\ \A p \in Setups : WrittenOK(p) /\ BuiltOK(p)

LEMMA InitSetupInv == Init => SetupInv
<1> SUFFICES ASSUME Init PROVE SetupInv
  OBVIOUS
<1> USE DEF Init, MacInit, SetupInit
<1>1. MacTypeOK
  <2>1. attached \subseteq Udids
    BY DEF Udids
  <2>2. /\ [number |-> 0, sdk |-> sdk] \in [number : 0 .. builds, sdk : Sdks \cup {0}]
        /\ sdk \in Sdks /\ 0 \in 0 .. MaxChanges
    BY MacAssumption
  <2>3. QED
    BY <2>1, <2>2 DEF MacTypeOK
<1>2. SetupTypeOK
  <2>1. IsRun(Idle) /\ RunTypeOK(Idle)
    BY DEF IsRun, RunFields, Idle, RunTypeOK, Places, Busy, AtMostOne
  <2>2. QED
    BY <2>1 DEF SetupTypeOK, Project
<1>3. ASSUME NEW p \in Setups PROVE WrittenOK(p) /\ BuiltOK(p)
  <2>1. setup[p].at = "idle"
    BY DEF Idle
  <2>2. project.author # p /\ scheme.author # p
    BY SetupAssumption DEF Project
  <2>3. QED
    BY <2>1, <2>2 DEF WrittenOK, ProjectOK, SchemeOK, Checked, Before, BuiltOK
<1>4. QED
  BY <1>1, <1>2, <1>3 DEF SetupInv

LEMMA NextSetupInv == SetupInv /\ [Next]_vars => SetupInv'
<1> SUFFICES ASSUME SetupInv, [Next]_vars PROVE SetupInv'
  OBVIOUS
<1>1. MacTypeOK /\ SetupTypeOK /\ \A p \in Setups : WrittenOK(p) /\ BuiltOK(p)
  BY DEF SetupInv
<1>2. ASSUME UNCHANGED <<setupVars, products>>, MacTypeOK' PROVE SetupInv'
  <2> USE <1>1, <1>2 DEF setupVars
  <2>1. SetupTypeOK'
    BY DEF SetupTypeOK, RunTypeOK
  <2>2. ASSUME NEW p \in Setups PROVE WrittenOK(p)'
    BY DEF WrittenOK, ProjectOK, SchemeOK, Checked, Before, Written, Args
  <2>3. ASSUME NEW p \in Setups PROVE BuiltOK(p)'
    BY DEF BuiltOK, TheDevice, LocateBuild
  <2>4. QED
    BY <2>1, <2>2, <2>3 DEF SetupInv
<1>3. ASSUME NEW p \in Setups, SetupStep(p) PROVE SetupInv'
  <2>1. MacTypeOK' /\ SetupTypeOK'
    BY <1>1, <1>3, SetupStepType
  <2>2. \A q \in Setups : WrittenOK(q)'
    BY <1>1, <1>3, SetupStepWritten
  <2>3. \A q \in Setups : BuiltOK(q)'
    <3>1. (SetupStep(p) /\ UNCHANGED macVars) \/ XcodebuildSucceeds(p)
      BY <1>3 DEF SetupStep
    <3>2. QED
      BY <1>1, <3>1, SetupStepBuilt
  <2>4. QED
    BY <2>1, <2>2, <2>3 DEF SetupInv
<1>4. CASE UNCHANGED <<setupVars, attached, sdk, products, changes>>
  <2>1. MacTypeOK'
    BY <1>1, <1>4 DEF MacTypeOK, setupVars
  <2>2. QED
    BY <1>2, <1>4, <2>1
<1>5. CASE UserChangesMac /\ UNCHANGED <<setupVars, sessionVars>>
  <2>1. MacTypeOK'
    <3>1. attached' \subseteq Udids
      BY <1>1, <1>5 DEF UserChangesMac, MacTypeOK, SymDiff, Udids
    <3>2. sdk' \in Sdks /\ changes' \in 0 .. MaxChanges
      BY <1>1, <1>5, MacAssumption DEF UserChangesMac, MacTypeOK
    <3>3. QED
      BY <1>1, <1>5, <3>1, <3>2 DEF UserChangesMac, MacTypeOK, setupVars
  <2>2. QED
    BY <1>2, <1>5, <2>1 DEF UserChangesMac
<1>6. CASE UNCHANGED vars
  BY <1>4, <1>6 DEF vars, macVars
<1>7. QED
  BY <1>3, <1>4, <1>5, <1>6 DEF Next

LEMMA SetupInvariant == Spec => []SetupInv
<1>1. Init => SetupInv
  BY InitSetupInv
<1>2. SetupInv /\ [Next]_vars => SetupInv'
  BY NextSetupInv
<1>3. QED
  BY <1>1, <1>2, PTL DEF Spec

\* "setup detects an unusable profile before running xcodebuild"
\* (docs/PHYSICAL_DEVICE.md:220), for any profiles, arguments and number of
\* setups: a run that builds the project it has written itself builds a runner
\* that its profile can sign, unless it was forced, and with an explicit profile
\* no demo app besides.
THEOREM SetupBuildsWhatItChecked == Spec => []SignsWhatItBuilds
<1>1. SetupInv => SignsWhatItBuilds
  BY SetupSigns DEF SetupInv
<1>2. QED
  BY <1>1, SetupInvariant, PTL

\* What a setup reports as its build is not older than what it built, although
\* other setups write test runs of the same platform in the meantime, and of
\* another SDK (build.py:337).
THEOREM SetupReportsItsBuild == Spec => []ReportsItsOwnBuild
<1>1. SetupInv => ReportsItsOwnBuild
  BY DEF SetupInv, BuiltOK, NotOlder, ReportsItsOwnBuild
<1>2. QED
  BY <1>1, SetupInvariant, PTL
================================================================================
