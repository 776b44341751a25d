---------------------------- MODULE MCAgentSession ----------------------------
(***************************************************************************)
(* Instances of AgentSession for TLC: which method each call is.           *)
(***************************************************************************)
EXTENDS AgentSession, TLC

CONSTANTS c1, c2, c3, c4

TwoCommands == c1 :> "connect" @@ c2 :> "command" @@ c3 :> "command"

OddCalls == c1 :> "connect" @@ c2 :> "command" @@ c3 :> "nan" @@ c4 :> "close"

PingAndStop == c1 :> "connect" @@ c2 :> "ping" @@ c3 :> "stop"

\* The slots are interchangeable, and so are the two commands.
Symmetry == Permutations(Conns) \cup Permutations({c2, c3})

SlotSymmetry == Permutations(Conns)
=============================================================================
