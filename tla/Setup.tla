---------------------------------- MODULE Setup ----------------------------------
(***************************************************************************)
(* "sandstorm ios setup" (cmd_setup of cli.py, build.py, the project       *)
(* generator): choose a device and a profile, rewrite the Xcode project,   *)
(* check that the profile can sign the runner, run xcodebuild and look for *)
(* what it made.  Every run of the command is a process of its own; they   *)
(* share the one project of the checkout and its build products.           *)
(***************************************************************************)
EXTENDS Mac, Profiles

CONSTANTS
  Setups,        \* runs of the command
  Commands,      \* the arguments a run may be given
  Files,         \* the installed profiles, as ListProfiles takes them
  EnvironmentTeam, CertificateTeam, PreferenceTeam,  \* each one team or none
  SkipSdkCheck,  \* SANDSTORM_SKIP_SDK_CHECK=1
  DefaultDemo, DefaultAgent,
  Nobody         \* the author of the project as it is checked out

\* An argument names at most one profile.
ASSUME SetupAssumption ==
  /\ \A args \in Commands : \A q, r \in args.profile : q = r
  /\ Nobody \notin Setups

VARIABLES
  setup,    \* setup[p]: where a run is and what it has found out
  project,  \* project.pbxproj, with the run that wrote it
  scheme,   \* whether the scheme builds the demo app too, with its author
  builds    \* xcodebuild's successes so far

setupVars == <<setup, project, scheme, builds>>

Idle == [at |-> "idle", args |-> {}, device |-> {}, profile |-> {}, sdk |-> 0, built |-> 0,
         result |-> {}]

Project(author, demo, agent, style, team, profile, dependency) ==
  [author |-> author, demo |-> demo, agent |-> agent, style |-> style, team |-> team,
   profile |-> profile, dependency |-> dependency]

SetupInit ==
  /\ setup = [p \in Setups |-> Idle]
  /\ project = Project(Nobody, DefaultDemo, DefaultAgent, "Automatic", {}, {}, TRUE)
  /\ scheme = [author |-> Nobody, demo |-> TRUE]
  /\ builds = 0

\* The command's record at p: exactly one of each after the first step.
Args(p)    == CHOOSE a \in setup[p].args : TRUE
TheDevice(p) == CHOOSE d \in setup[p].device : TRUE

\* Exit 1 is an IOSError, exit 2 the command's own refusal.  A process that has
\* ended knows nothing any more; what one reports is its result.
Exits == {"exit 0", "exit 1", "exit 2"}

At(run, at) == IF at \in Exits THEN [Idle EXCEPT !.at = at] ELSE [run EXCEPT !.at = at]

Go(p, from, to) == setup[p].at = from /\ setup' = [setup EXCEPT ![p] = At(@, to)]

\* Identifiers or signing are asked for; --no-demo alone is not.
Configures(args) ==
  \E flag \in {"profile", "prefix", "agent", "demo"} : args[flag] # {}

\* There is no Xcode, or it does not run.
DetectXcodeFails(p) ==
  /\ Go(p, "idle", "exit 1")
  /\ UNCHANGED <<project, scheme, builds>>

Preflight(p, args) ==
  /\ setup[p].at = "idle"
  /\ LET found == ResolveDevice(args.udid)
     IN  setup' = [setup EXCEPT ![p] =
           At([@ EXCEPT !.args = {args}, !.device = found],
              IF found = {} THEN "exit 1"
              ELSE IF \E d \in found : DeveloperModeOff(d) THEN "exit 2"
              ELSE IF Configures(args) THEN "profile" ELSE "build")]
  /\ UNCHANGED <<project, scheme, builds>>

SigningStyle(args) == IF args.profile = {} THEN "Automatic" ELSE "Manual"

\* An explicit profile signs one target.
IncludeDemo(args, profile) == ~args.noDemo /\ \A q \in profile : q.wildcard

\* render(): the agent's identifier is put in after the demo's, wherever the
\* default one stands.
Render(author, args, profile) ==
  LET plan == PlanBundleIds(profile, args)
      agent == CHOOSE x \in OrElse(plan.agent, {DefaultAgent}) : TRUE
      demo  == CHOOSE x \in OrElse(plan.demo, {DefaultDemo}) : TRUE
  IN  Project(author,
              IF IsPrefix(DefaultAgent, demo)
              THEN agent \o SubSeq(demo, Len(DefaultAgent) + 1, Len(demo)) ELSE demo,
              agent, SigningStyle(args),
              OrElse(args.team, {q.team : q \in profile}),
              {q.name : q \in profile},
              IncludeDemo(args, profile))

ChooseProfile(p) ==
  LET found == UNION {FindProfile(Files, r) : r \in Args(p).profile}
  IN  /\ setup[p].at = "profile"
      /\ setup' = [setup EXCEPT ![p] =
           At([@ EXCEPT !.profile = found],
              IF Args(p).profile # {} /\ found = {} THEN "exit 2" ELSE "project")]
      /\ UNCHANGED <<project, scheme, builds>>

WriteProject(p) ==
  /\ Go(p, "project", "scheme")
  /\ project' = Render(p, Args(p), setup[p].profile)
  /\ UNCHANGED <<scheme, builds>>

WriteScheme(p) ==
  /\ Go(p, "scheme", "check")
  /\ scheme' = [author |-> p, demo |-> IncludeDemo(Args(p), setup[p].profile)]
  /\ UNCHANGED <<project, builds>>

\* The identifier checked is the one this run has written.  A device that the
\* profile does not provision is only a warning.
CheckProfile(p) ==
  /\ LET agent == Render(p, Args(p), setup[p].profile).agent
     IN  Go(p, "check", IF Args(p).force \/ \A q \in setup[p].profile : SignsRunner(q, agent)
                        THEN "build" ELSE "exit 2")
  /\ UNCHANGED <<project, scheme, builds>>

DetectDevelopmentTeam == OrElse(CertificateTeam, PreferenceTeam)

\* Automatic signing for an iPhone needs a team.
HasTeam(p) == \/ TheDevice(p).simulator
              \/ SigningStyle(Args(p)) = "Manual"
              \/ OrElse(OrElse(Args(p).team, EnvironmentTeam), DetectDevelopmentTeam) # {}

\* build_for_testing up to xcodebuild, which is that of the Xcode of now.
StartBuild(p) ==
  /\ setup[p].at = "build"
  /\ LET ok == (SdkSupports(TheDevice(p)) \/ SkipSdkCheck) /\ HasTeam(p)
     IN  setup' = [setup EXCEPT ![p] =
           At([@ EXCEPT !.sdk = sdk], IF ok THEN "xcodebuild" ELSE "exit 1")]
  /\ UNCHANGED <<project, scheme, builds>>

BuildsDemo == scheme.demo \/ project.dependency

\* What Xcode demands of a profile before it signs for an iPhone.
XcodeSigns(p) ==
  TheDevice(p).simulator \/ SigningStyle(Args(p)) = "Automatic" \/
    \A name \in project.profile : \E file \in Range(Files) : \E q \in file :
      /\ q.name = name /\ ~IsExpired(q) /\ ProvisionsDevice(q, TheDevice(p).udid)
      /\ SignsRunner(q, project.agent)
      /\ BuildsDemo => MatchesBundleId(q, project.demo)

\* It builds the project as it finds it, by whomever it was written.
XcodebuildSucceeds(p) ==
  /\ setup[p].at = "xcodebuild"
  /\ XcodeSigns(p)
  /\ setup' = [setup EXCEPT ![p].at = "locate", ![p].built = builds + 1]
  /\ builds' = builds + 1
  /\ Produce(Platform(TheDevice(p)), [number |-> builds + 1, sdk |-> setup[p].sdk])
  /\ UNCHANGED <<project, scheme>>

XcodebuildFails(p) ==
  /\ Go(p, "xcodebuild", "exit 1")
  /\ UNCHANGED <<project, scheme, builds>>

\* locate_build, after xcodebuild has ended; then the demo app, if there is
\* one, is installed, whatever comes of it.
Locate(p) ==
  /\ setup[p].at = "locate"
  /\ setup' = [setup EXCEPT ![p] =
       [Idle EXCEPT !.at = "exit 0", !.built = setup[p].built,
                    !.result = LocateBuild(Platform(TheDevice(p)))]]
  /\ UNCHANGED <<project, scheme, builds>>

SetupStep(p) ==
  \/ /\ \/ DetectXcodeFails(p)
        \/ \E args \in Commands : Preflight(p, args)
        \/ ChooseProfile(p) \/ WriteProject(p) \/ WriteScheme(p) \/ CheckProfile(p)
        \/ StartBuild(p) \/ XcodebuildFails(p) \/ Locate(p)
     /\ UNCHANGED macVars
  \/ XcodebuildSucceeds(p) /\ UNCHANGED <<attached, booted, sdk, changes>>
=============================================================================
