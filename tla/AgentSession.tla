----------------------------- MODULE AgentSession -----------------------------
(***************************************************************************)
(* One IOSControllerClient, used by the calls in Calls, talking to one     *)
(* agent: ControllerClient and CommandServer over Wire.                    *)
(***************************************************************************)
EXTENDS ControllerClient, CommandServer

vars == <<wireVars, clientVars, serverVars>>

Init == WireInit /\ ClientInit /\ ServerInit

Begin(c) == Start(c) /\ UNCHANGED serverVars

ClientStep(c) == Progress(c, agent = "up") /\ UNCHANGED serverVars

ClientFaults(c) == ClientFault(c) /\ UNCHANGED serverVars

NetworkStep(k) == Network(k) /\ UNCHANGED clientVars

SurveyStep == FinishHandshake /\ UNCHANGED clientVars

XCTestStep == XCTestThread /\ UNCHANGED clientVars

OtherClientVars == <<sock, handshake, lock, nextId, pc, attempt, tries, cur, sent, outcome>>

CrashStep == Crash /\ Fault /\ UNCHANGED OtherClientVars

ResetStep(k) == Reset(k) /\ Fault /\ UNCHANGED OtherClientVars

RestartStep == Restart /\ UNCHANGED clientVars

\* The calls that could begin are over and nothing is left to do: the agent
\* spins in its loop, or is down for good.
AllOver ==
  /\ \A c \in Calls : pc[c] = "idle" => OverSession(c) /\ ~SessionExists
  /\ Active = {}
  /\ IF agent = "up" THEN pending = <<>> /\ loop = "drain" /\ ~stopRequested
     ELSE restarts = MaxRestarts
  /\ UNCHANGED vars

Next ==
  \/ \E c \in Calls : Begin(c) \/ ClientStep(c) \/ ClientFaults(c)
  \/ \E k \in Conns : NetworkStep(k) \/ ResetStep(k)
  \/ SurveyStep
  \/ XCTestStep
  \/ CrashStep
  \/ RestartStep
  \/ AllOver

Spec == Init /\ [][Next]_vars

\* Every thread that can take a step eventually does: a running call (its
\* socket timeouts bound every wait), the network queue, the XCTest thread
\* (a handler's waits have timeouts of their own).  Nobody has to begin a
\* call, restart the agent or suffer a fault.
Fairness ==
  /\ \A c \in Calls : WF_vars(ClientStep(c))
  /\ \A k \in Conns : WF_vars(NetworkStep(k))
  /\ WF_vars(SurveyStep)
  /\ WF_vars(XCTestStep)

FairSpec == Spec /\ Fairness

-----------------------------------------------------------------------------
TypeOK == WireTypeOK /\ ClientTypeOK /\ ServerTypeOK

\* Whoever waits for a frame holds the lock, on a socket that is open and is
\* the client's own: no other call's close() or connect() pulls it away.
ReaderOwnsSocket ==
  \A c \in Calls :
    /\ pc[c] \in {"reading", "hello"} <=> lock = c
    /\ lock = c => sock # NoConn /\ cli[sock] = "open"

\* At rest, the handshake the client reports (session id, device info) is
\* the one of the socket it holds.  Assumes a single direct connect(): a
\* second one on a connected client replaces the socket first.
HandshakeIsCurrent ==
  lock = NoCall /\ handshake # NoConn => handshake = sock

\* A call that was given an answer was given its own: the agent executed
\* the very request the call sent last.  (docs/PROTOCOL.md: late or orphaned
\* replies are discarded rather than mis-attributed.)
AnswersAreOwn ==
  \A c \in Calls :
    outcome[c] \in {"ok", "error"} /\ Kind[c] \notin {"connect", "close"}
      => cur[c] \in sent[c] \cap executed

\* A request is handed to the XCTest thread once: none is queued twice, or
\* queued again after its execution was begun.
HandedOverOnce ==
  /\ \A i, j \in DOMAIN pending : pending[i].id = pending[j].id => i = j
  /\ \A i \in DOMAIN pending : pending[i].id \notin executed

\* XCUITest is driven by one thread at a time: the screenshot a handshake
\* takes on the network queue never overlaps a command.
XCUITestExclusive == ~(surveying # NoConn /\ loop = "busy")

\* A reply on its way to the client answers a request that was executed.
RepliesWereExecuted ==
  \A k \in Conns : \A i \in DOMAIN down[k] :
    down[k][i].kind \in {"result", "failure"} => down[k][i].id \in executed

-----------------------------------------------------------------------------
(* Refinement: AtLeastOnce *)

Phase(c) == IF pc[c] = "idle" THEN "idle"
            ELSE IF outcome[c] = "none" THEN "running" ELSE "over"

Commands == {c \in Calls : Kind[c] \notin {"connect", "close"}}

Guarantee == INSTANCE AtLeastOnce WITH
  Calls      <- Commands,
  Budget     <- [c \in Commands |-> IF Kind[c] = "stop" THEN 1 ELSE MaxRetries + 1],
  phase      <- [c \in Commands |-> Phase(c)],
  answered   <- {c \in Commands : outcome[c] \in {"ok", "error"}},
  executions <- [c \in Commands |-> Cardinality(sent[c] \cap executed)]

\* The SDK gives at-least-once execution, within the retry budget.
ImplementsAtLeastOnce == Guarantee!Spec

-----------------------------------------------------------------------------
(* Liveness *)

\* Every call returns or raises, whatever happens to the agent or the wire.
CallsReturn == \A c \in Calls : pc[c] # "idle" ~> pc[c] = "done"

\* How many more times a call can move on, at the most: an attempt is three
\* steps (write, read, close) and two tries to reconnect of three steps each.
StepsLeft(c) ==
  LET Retries == IF Kind[c] = "connect" THEN 0 ELSE Attempts(c) - attempt[c]
      InAttempt ==
        CASE pc[c] = "attempt" -> 9
          [] pc[c] = "reading" -> 8
          [] pc[c] = "failed"  -> 7
          [] pc[c] = "connect" -> 3 * tries[c]
          [] pc[c] = "hello"   -> 3 * tries[c] - 1
          [] OTHER             -> 3 * tries[c] - 2
  IN  CASE pc[c] \in {"idle", "done"} -> 0
        [] pc[c] = "closing"          -> 1
        [] OTHER                      -> 9 * Retries + InAttempt

\* A call runs down: whatever the agent, the wire and the other calls do, each
\* of its steps leaves fewer of them, but for a stale reply that it discards,
\* and then there is one reply less.  No step of anybody sets it back: neither
\* loop of invoke and connect (transport.py:82, 141) can go on for ever.
CallsRunDown ==
  [][\A c \in Active :
       /\ StepsLeft(c)' \in 0 .. StepsLeft(c)
       /\ ClientStep(c) => \/ StepsLeft(c)' < StepsLeft(c)
                           \/ Len(down'[sock]) < Len(down[sock])]_vars

\* session.stop, once executed, ends the test run.
StopEndsTheRun == stopRequested ~> agent = "down"

\* Every request that reached the queue is executed, also when its client has
\* long given up on it, unless the agent goes down first.
Waiting(c) == \E i \in DOMAIN pending : pending[i].id \in sent[c]

QueuedAreExecuted == \A c \in Calls : Waiting(c) ~> (~Waiting(c) \/ agent = "down")

-----------------------------------------------------------------------------
(* What the document says of the program, and it does not do *)

\* docs/ARCHITECTURE.md:66: commands are executed strictly in order.
ExecutedInOrder ==
  [][\A n \in executed' \ executed : \A m \in executed : m < n]_vars
=============================================================================
