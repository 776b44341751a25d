---------------------------------- MODULE Mac ----------------------------------
(***************************************************************************)
(* What the commands of one Mac share: the devices it sees (devices.py),   *)
(* the selected Xcode, and the products of the agent's builds (build.py),  *)
(* one directory for all platforms.                                        *)
(***************************************************************************)
EXTENDS Naturals, Sequences, SequencesExt, FiniteSets

CONSTANTS
  Known,      \* sequence of device records: iPhones first, then simulators
  NoUdid,     \* no --udid
  Sdks,       \* major versions of the SDKs the user switches between, 0 unreadable
  FirstSdk,   \* the one that is selected to begin with
  Earlier,    \* platforms that have been built for before
  MaxChanges  \* bound on what the user does to the Mac

VARIABLES
  attached,  \* udids of the iPhones on USB
  booted,    \* udids of the simulators that are booted
  sdk,       \* of the selected Xcode
  products,  \* per platform: the .xctestrun files, numbered in the order of their times
  changes    \* what the user did so far

macVars == <<attached, booted, sdk, products, changes>>

Devices   == {Known[i] : i \in DOMAIN Known}
Udids     == {d.udid : d \in Devices}
Platforms == {"iphoneos", "iphonesimulator"}

ASSUME MacAssumption == Known \in Seq(Devices) /\ FirstSdk \in Sdks /\ MaxChanges \in Nat

\* mode is the developer mode: "on", "off", or "unknown" when the tool that
\* lists the iPhone does not tell it and the probe fails.
Device(udid, simulator, version, mode) ==
  [udid |-> udid, simulator |-> simulator, version |-> version, mode |-> mode]

Platform(device) == IF device.simulator THEN "iphonesimulator" ELSE "iphoneos"

MacInit ==
  /\ attached = {d.udid : d \in {d \in Devices : ~d.simulator}}
  /\ booted = {}
  /\ sdk = FirstSdk
  /\ products = [f \in Platforms |->
                   IF f \in Earlier THEN {[number |-> 0, sdk |-> sdk]} ELSE {}]
  /\ changes = 0

\* Where in Known they are.  devicectl's list, or pymobiledevice3's when that is
\* empty.
DiscoverPhysicalDevices ==
  {i \in DOMAIN Known : ~Known[i].simulator /\ Known[i].udid \in attached}

DiscoverSimulators == {i \in DOMAIN Known : Known[i].simulator}

DiscoverDevices == DiscoverPhysicalDevices \cup DiscoverSimulators

First(places) == {Known[i] : i \in {i \in places : \A j \in places : i <= j}}

\* XCTest needs the developer mode; not to know is not to mind.
DeveloperModeOff(device) == ~device.simulator /\ device.mode = "off"

\* Without a udid: a booted simulator, then an iPhone, then any simulator.
ResolveDevice(udid) ==
  LET running == {i \in DiscoverSimulators : Known[i].udid \in booted}
  IN  First(IF udid # NoUdid THEN {i \in DiscoverDevices : Known[i].udid = udid}
            ELSE IF running # {} THEN running
            ELSE IF DiscoverPhysicalDevices # {} THEN DiscoverPhysicalDevices
            ELSE DiscoverSimulators)

\* An iPhone's major version is at most that of the SDK, as far as it is known.
SdkSupports(device) == device.simulator \/ sdk = 0 \/ device.version <= sdk

\* Mutant: the files are sorted by their names, which tell the SDK.
LocateByName(platform) ==
  {b \in products[platform] : \A c \in products[platform] : c.sdk <= b.sdk}

\* The newest test run of the platform, if there is one.
LocateBuild(platform) ==
  {b \in products[platform] : \A c \in products[platform] : c.number <= b.number}

\* xcodebuild's output: a test run is named after the SDK and replaces one of
\* its name.
Produce(platform, build) ==
  products' = [products EXCEPT ![platform] = {b \in @ : b.sdk # build.sdk} \cup {build}]

\* bootstatus -b: returns when the simulator runs.
BootSimulator(udid) == booted' = booted \cup {udid}

\* The user switches Xcode, or plugs and unplugs an iPhone.
UserChangesMac ==
  /\ changes < MaxChanges
  /\ changes' = changes + 1
  /\ \/ sdk' \in Sdks \ {sdk} /\ UNCHANGED attached
     \/ /\ \E d \in Devices :
             ~d.simulator /\ attached' = SymDiff(attached, {d.udid})
        /\ UNCHANGED sdk
  /\ UNCHANGED <<booted, products>>
=============================================================================
