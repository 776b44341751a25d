----------------------------- MODULE AtLeastOnce -----------------------------
(***************************************************************************)
(* What a caller of the SDK may rely on.  A command is executed at most    *)
(* Budget[c] times; it has been executed at least once when the caller is  *)
(* given an answer of the agent; without an answer it may have been        *)
(* executed any number of times in between, before the caller is told or   *)
(* after.                                                                  *)
(***************************************************************************)
EXTENDS Naturals

CONSTANTS
  Calls,  \* the commands
  Budget  \* Budget[c]: how often c may be executed

VARIABLES phase, answered, executions

vars == <<phase, answered, executions>>

Init ==
  /\ phase = [c \in Calls |-> "idle"]
  /\ answered = {}
  /\ executions = [c \in Calls |-> 0]

Begin(c) ==
  /\ phase[c] = "idle"
  /\ phase' = [phase EXCEPT ![c] = "running"]
  /\ UNCHANGED <<answered, executions>>

Reject(c) ==
  /\ phase[c] = "idle"
  /\ phase' = [phase EXCEPT ![c] = "over"]
  /\ UNCHANGED <<answered, executions>>

Perform(c) ==
  /\ phase[c] # "idle"
  /\ executions[c] < Budget[c]
  /\ executions' = [executions EXCEPT ![c] = @ + 1]
  /\ UNCHANGED <<phase, answered>>

Answer(c) ==
  /\ phase[c] = "running"
  /\ executions[c] > 0
  /\ phase' = [phase EXCEPT ![c] = "over"]
  /\ answered' = answered \cup {c}
  /\ UNCHANGED executions

GiveUp(c) ==
  /\ phase[c] = "running"
  /\ phase' = [phase EXCEPT ![c] = "over"]
  /\ UNCHANGED <<answered, executions>>

Next == \E c \in Calls : Begin(c) \/ Reject(c) \/ Perform(c) \/ Answer(c) \/ GiveUp(c)

Spec == Init /\ [][Next]_vars
=============================================================================
