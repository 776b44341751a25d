----------------------------- MODULE MCWorkstation -----------------------------
(***************************************************************************)
(* An instance of Workstation for TLC: an iPhone and a simulator, and the  *)
(* profiles and arguments that send a setup to each of its ends.           *)
(***************************************************************************)
EXTENDS Workstation

CONSTANTS i1, i2, sim, p1, p2, s1, s2

OnePhone  == <<Device(i1, FALSE, 26, "unknown"), Device(sim, TRUE, 18, "on")>>
TwoPhones == <<Device(i1, FALSE, 18, "on"), Device(i2, FALSE, 18, "off")>>

Demo0  == <<"sandstorm", "demo">>
Agent0 == <<"sandstorm", "agent">>

Profile1(name, parts, wildcard, expires) ==
  Profile(name, name, "team", "team", parts, wildcard, expires, {i1})

\* A profile for the bare agent, and a wildcard; the wildcard's old one has expired,
\* one file cannot be decoded.
MCFiles ==
  <<{},
    {Profile1("bare", <<"com", "agent">>, FALSE, 5)},
    {Profile1("any", <<"com">>, TRUE, 9)},
    {Profile1("any", <<"com">>, TRUE, 2)}>>

None == [udid |-> NoUdid, profile |-> {}, prefix |-> {}, agent |-> {}, demo |-> {},
         noDemo |-> FALSE, force |-> FALSE, team |-> {}]

\* Profiles are for the iPhone, which may be unplugged by then.
Phone == [None EXCEPT !.udid = i1]

\* The project as it is, a profile that cannot sign the runner, one that can, and one
\* that is not installed.
MCCommands ==
  {None,
   [Phone EXCEPT !.profile = {"bare"}],
   [Phone EXCEPT !.profile = {"any"}, !.prefix = {<<"com">>}],
   [Phone EXCEPT !.profile = {"missing"}]}

FewCommands == {[Phone EXCEPT !.team = {"team"}], [None EXCEPT !.udid = sim]}

Symmetry == Permutations(Setups) \cup Permutations(Sessions)
=============================================================================
