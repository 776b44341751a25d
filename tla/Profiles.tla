------------------------------- MODULE Profiles -------------------------------
(***************************************************************************)
(* Provisioning profiles and bundle identifiers (profiles.py, and          *)
(* _plan_bundle_ids of cli.py).  An identifier is the sequence of its      *)
(* parts between the dots; a pattern with an asterisk is the parts before  *)
(* it.  What may be missing is a set of at most one element.               *)
(***************************************************************************)
EXTENDS Naturals, Sequences, SequencesExt, FiniteSets

CONSTANTS
  NoExpiry,   \* a profile without an expiration date
  Today       \* the day of the calls

ASSUME TodayAssumption == Today \in Nat /\ NoExpiry \notin Nat

\* application-identifier is an App ID prefix, mostly the team, and a pattern.
Profile(uuid, name, team, appPrefix, parts, wildcard, expires, devices) ==
  [uuid |-> uuid, name |-> name, team |-> team, appPrefix |-> appPrefix, parts |-> parts,
   wildcard |-> wildcard, expires |-> expires, devices |-> devices]

IsExpired(p) == p.expires # NoExpiry /\ p.expires < Today

\* Only the team's own prefix is taken off.
BundleIdPattern(p) == IF p.appPrefix = p.team THEN p.parts ELSE <<p.appPrefix>> \o p.parts

MatchesBundleId(p, id) ==
  IF p.wildcard
  THEN IsStrictPrefix(BundleIdPattern(p), id)
  ELSE id = BundleIdPattern(p)

ProvisionsDevice(p, udid) == udid \in p.devices

\* XCTest installs the runner under the agent's identifier and this part.
RequiredAppId(agent) == Append(agent, "xctrunner")

\* Mutant: a profile for the agent's own identifier will do.
SignsAgent(p, agent) == MatchesBundleId(p, agent)

SignsRunner(p, agent) == MatchesBundleId(p, RequiredAppId(agent))

AgentBundleIdForRunner(p) ==
  IF p.wildcard THEN {}
  ELSE LET pattern == BundleIdPattern(p)
       IN  {IF Len(pattern) > 1 /\ Last(pattern) = "xctrunner" THEN Front(pattern) ELSE pattern}

\* The files of the directories in order, each a profile or, when it cannot be
\* decoded, none.  The first file of a uuid counts, expired or not.
ListProfiles(files, includeExpired) ==
  LET first == {i \in DOMAIN files : \A p \in files[i] :
                  \A j \in 1 .. i - 1 : \A q \in files[j] : q.uuid # p.uuid}
      kept  == {i \in first : \E p \in files[i] : includeExpired \/ ~IsExpired(p)}
      The(i) == CHOOSE p \in files[i] : TRUE
      Newer(p, q) == \/ p.expires = NoExpiry /\ q.expires # NoExpiry
                     \/ NoExpiry \notin {p.expires, q.expires} /\ p.expires > q.expires
      Before(i, j) == \/ Newer(The(i), The(j))
                      \/ ~Newer(The(j), The(i)) /\ i < j
      order == SetToSortSeq(kept, Before)
  IN  [i \in DOMAIN order |-> The(order[i])]

\* By uuid or by name, expired ones too: the newest of those that match.
FindProfile(files, reference) ==
  LET found == SelectSeq(ListProfiles(files, TRUE),
                         LAMBDA p : reference \in {p.uuid, p.name})
  IN  {found[i] : i \in {1} \cap DOMAIN found}

OrElse(given, default) == IF given = {} THEN default ELSE given

PlanBundleIds(profile, args) ==
  LET implied == IF args.prefix = {} /\ args.agent = {}
                 THEN UNION {AgentBundleIdForRunner(p) : p \in profile}
                 ELSE args.agent
  IN  [agent |-> OrElse(implied, {Append(x, "sandstormagent") : x \in args.prefix}),
       demo  |-> OrElse(args.demo, {Append(x, "sandstormdemo") : x \in args.prefix})]
=============================================================================
