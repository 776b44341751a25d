---------------------------- MODULE CommandServer ----------------------------
(***************************************************************************)
(* The agent: CommandServer and AgentConnection (Net/CommandServer.swift), *)
(* the XCTest loop of AutomationServerTests.swift, and the part of         *)
(* CommandRouter that the loop depends on.                                 *)
(*                                                                         *)
(* Two threads of control.  The network queue is serial: it accepts,       *)
(* parses and queues, and is occupied by a handshake for as long as        *)
(* deviceDescriptor() has to take a screenshot (surveying).  The XCTest    *)
(* thread runs the loop: drain the queue, check whether to stop, repeat.   *)
(***************************************************************************)
EXTENDS Wire

CONSTANTS
  NoItem,        \* the XCTest thread is not executing a command
  IdleShutdown,  \* TRUE: SANDSTORM_IDLE_TIMEOUT is set
  Encodable,     \* FALSE: a reply may hold a number JSON cannot carry
  MaxRestarts    \* bound on how often the agent is started again

Item == [id : Nat, conn : Conns \cup {NoConn}, stop : BOOLEAN]

ASSUME ServerAssumption ==
  /\ NoItem \notin Item
  /\ IdleShutdown \in BOOLEAN
  /\ Encodable \in BOOLEAN
  /\ MaxRestarts \in Nat

VARIABLES
  agent,          \* is the agent's process up?
  tokenOk,        \* it was started with the token this client presents
  pending,        \* CommandServer.pending
  loop,           \* where the XCTest thread is in its loop
  running,        \* the command it is executing
  stopRequested,  \* CommandRouter.stopRequested
  boundsCached,   \* CommandRouter.cachedScreenBounds is set
  surveying,      \* the connection whose handshake occupies the network queue
  executed,       \* history: the ids whose execution was begun
  restarts        \* restarts so far

serverVars == <<agent, tokenOk, pending, loop, running, stopRequested, boundsCached,
                surveying, executed, restarts>>

ServerTypeOK ==
  /\ agent \in {"up", "down"}
  /\ tokenOk \in BOOLEAN
  /\ pending \in Seq(Item)
  /\ loop \in {"drain", "check", "busy"}
  /\ running \in Item \cup {NoItem}
  /\ stopRequested \in BOOLEAN
  /\ boundsCached \in BOOLEAN
  /\ surveying \in Conns \cup {NoConn}
  /\ executed \in SUBSET Nat
  /\ restarts \in Nat

\* A process that has just printed READY.
Fresh ==
  /\ pending = <<>>
  /\ loop = "drain"
  /\ running = NoItem
  /\ stopRequested = FALSE
  /\ boundsCached = FALSE
  /\ surveying = NoConn

ServerInit ==
  /\ agent = "up"
  /\ tokenOk = TRUE
  /\ Fresh
  /\ executed = {}
  /\ restarts = 0

-----------------------------------------------------------------------------
(* The network queue *)

QueueFree == agent = "up" /\ surveying = NoConn

Arriving(k) == QueueFree /\ Live(k) /\ up[k] # <<>>

\* What the loss of connection k does to the commands that came over it:
\* they stay queued, and their replies go nowhere.
Orphaned(item, k) == IF item.conn = k THEN [item EXCEPT !.conn = NoConn] ELSE item

Disown(k) ==
  /\ pending' = [i \in DOMAIN pending |-> Orphaned(pending[i], k)]
  /\ running' = IF running = NoItem THEN NoItem ELSE Orphaned(running, k)

Consume(k) == up' = [up EXCEPT ![k] = Tail(@)]

\* performHandshake succeeds.  The descriptor needs the screen bounds; the
\* first one since the agent started takes a screenshot, on this queue.
AcceptHandshake(k) ==
  /\ Arriving(k) /\ srv[k] = "new"
  /\ Head(up[k]).kind = "hello" /\ tokenOk
  /\ srv' = [srv EXCEPT ![k] = "ready"]
  /\ Consume(k)
  /\ IF boundsCached
     THEN down' = Delivered(k, Welcome) /\ UNCHANGED surveying
     ELSE surveying' = k /\ UNCHANGED down
  /\ UNCHANGED <<cli, agent, tokenOk, pending, loop, running, stopRequested,
                 boundsCached, executed, restarts>>

\* Mutant: the screen bounds are not cached.
FinishHandshakeUncached ==
  /\ agent = "up" /\ surveying # NoConn
  /\ surveying' = NoConn
  /\ down' = Delivered(surveying, Welcome)
  /\ UNCHANGED <<cli, srv, up, agent, tokenOk, pending, loop, running, stopRequested,
                 boundsCached, executed, restarts>>

FinishHandshake ==
  /\ agent = "up" /\ surveying # NoConn
  /\ boundsCached' = TRUE
  /\ surveying' = NoConn
  /\ down' = Delivered(surveying, Welcome)
  /\ UNCHANGED <<cli, srv, up, agent, tokenOk, pending, loop, running, stopRequested,
                 executed, restarts>>

\* performHandshake fails: an error reply with id 0, then cancel(), which
\* may or may not let the reply out.
RefuseHandshake(k) ==
  /\ Arriving(k) /\ srv[k] = "new"
  /\ Head(up[k]).kind # "hello" \/ ~tokenOk
  /\ \E lost \in {{}, {k}} : AgentCloses({k}, lost, Delivered(k, HandshakeError))
  /\ Disown(k)
  /\ UNCHANGED <<agent, tokenOk, loop, stopRequested, boundsCached, surveying,
                 executed, restarts>>

\* A frame that decodes is queued for the XCTest thread.
ReceiveRequest(k) ==
  /\ Arriving(k) /\ srv[k] = "ready"
  /\ Head(up[k]).kind \in {"request", "stop"}
  /\ pending' = Append(pending, [id   |-> Head(up[k]).id,
                                 conn |-> k,
                                 stop |-> Head(up[k]).kind = "stop"])
  /\ Consume(k)
  /\ UNCHANGED <<cli, srv, down, agent, tokenOk, loop, running, stopRequested,
                 boundsCached, surveying, executed, restarts>>

\* One that does not is answered at once, under the id -1.
RejectMalformed(k) ==
  /\ Arriving(k) /\ srv[k] = "ready"
  /\ Head(up[k]).kind = "unparsable"
  /\ down' = Delivered(k, MalformedReply)
  /\ Consume(k)
  /\ UNCHANGED <<cli, srv, serverVars>>

\* After a truncated frame the codec takes the start of the next frame for
\* the rest of it: it may wait for more bytes, hand over a payload that does
\* not decode, or meet an impossible header, which closes the connection.
ReceiveGarbled(k) ==
  /\ Arriving(k) /\ srv[k] = "ready"
  /\ Head(up[k]).kind = "partial" /\ Len(up[k]) > 1
  /\ \/ /\ up' = [up EXCEPT ![k] = <<Partial>> \o SubSeq(@, 3, Len(@))]
        /\ down' \in {down, Delivered(k, MalformedReply)}
        /\ UNCHANGED <<cli, srv, pending, running>>
     \/ AgentCloses({k}, {}, down) /\ Disown(k)
  /\ UNCHANGED <<agent, tokenOk, loop, stopRequested, boundsCached, surveying,
                 executed, restarts>>

\* receive completes with isComplete or an error: the client is gone.  What
\* it had still on its way may be lost with it (a reset connection).
ConnectionEnds(k) ==
  /\ QueueFree /\ Live(k) /\ cli[k] = "closed"
  /\ AgentCloses({k}, {}, down)
  /\ Disown(k)
  /\ UNCHANGED <<agent, tokenOk, loop, stopRequested, boundsCached, surveying,
                 executed, restarts>>

Network(k) ==
  \/ AcceptHandshake(k)
  \/ RefuseHandshake(k)
  \/ ReceiveRequest(k)
  \/ RejectMalformed(k)
  \/ ReceiveGarbled(k)
  \/ ConnectionEnds(k)

-----------------------------------------------------------------------------
(* The XCTest thread *)

\* Mutant: the head is read but not removed.
DequeueKeepsHead ==
  /\ agent = "up" /\ loop = "drain" /\ pending # <<>>
  /\ loop' = "busy"
  /\ running' = Head(pending)
  /\ executed' = executed \cup {Head(pending).id}
  /\ UNCHANGED <<wireVars, agent, tokenOk, pending, stopRequested, boundsCached, surveying,
                 restarts>>

\* Mutant: commands of a closed connection are left in the queue.
DequeueConnected ==
  /\ agent = "up" /\ loop = "drain" /\ pending # <<>>
  /\ Head(pending).conn # NoConn
  /\ loop' = "busy"
  /\ running' = Head(pending)
  /\ pending' = Tail(pending)
  /\ executed' = executed \cup {Head(pending).id}
  /\ UNCHANGED <<wireVars, agent, tokenOk, stopRequested, boundsCached, surveying, restarts>>

Dequeue ==
  /\ agent = "up" /\ loop = "drain" /\ pending # <<>>
  /\ loop' = "busy"
  /\ running' = Head(pending)
  /\ pending' = Tail(pending)
  /\ executed' = executed \cup {Head(pending).id}
  /\ UNCHANGED <<wireVars, agent, tokenOk, stopRequested, boundsCached, surveying, restarts>>

Reply(kind) == down' = Delivered(running.conn, [kind |-> kind, id |-> running.id])

\* router.handle returns, the reply is written; one that cannot be encoded
\* is only logged.  session.stop has set the flag that ends the loop, and
\* does not fail.
FinishCommand ==
  /\ agent = "up" /\ loop = "busy"
  /\ \/ Reply("result")
     \/ ~running.stop /\ Reply("failure")
     \/ ~running.stop /\ ~Encodable /\ UNCHANGED down
  /\ stopRequested' = (stopRequested \/ running.stop)
  /\ loop' = "drain"
  /\ running' = NoItem
  /\ UNCHANGED <<cli, srv, up, agent, tokenOk, pending, boundsCached, surveying, executed,
                 restarts>>

\* The queue was found empty, and the loop has a reason to look whether to
\* end.  (Without one it spins: pump, find nothing, pump again.)
Drained ==
  /\ agent = "up" /\ loop = "drain" /\ pending = <<>>
  /\ stopRequested \/ IdleShutdown
  /\ loop' = "check"
  /\ UNCHANGED <<wireVars, agent, tokenOk, pending, running, stopRequested, boundsCached,
                 surveying, executed, restarts>>

\* The idle timeout has not passed: pump the run loop and drain again.
KeepServing ==
  /\ agent = "up" /\ loop = "check" /\ ~stopRequested
  /\ loop' = "drain"
  /\ UNCHANGED <<wireVars, agent, tokenOk, pending, running, stopRequested, boundsCached,
                 surveying, executed, restarts>>

\* The end of the process: every connection with it, whatever was queued,
\* and the handshake in progress.
Down ==
  /\ agent' = "down"
  /\ \E lost \in SUBSET Conns : AgentCloses(Conns, lost, down)
  /\ pending' = <<>>
  /\ loop' = "drain"
  /\ running' = NoItem
  /\ stopRequested' = FALSE
  /\ boundsCached' = FALSE
  /\ surveying' = NoConn
  /\ UNCHANGED <<tokenOk, executed, restarts>>

\* Mutant: the loop ends only on the idle timeout.
StopServingWhenIdle ==
  /\ agent = "up" /\ loop = "check"
  /\ IdleShutdown
  /\ Down

\* server.stop(), and the test method returns - on session.stop, or when
\* the idle timeout, counted from the start of the last command, has passed.
StopServing ==
  /\ agent = "up" /\ loop = "check"
  /\ stopRequested \/ IdleShutdown
  /\ Down

XCTestThread == Dequeue \/ FinishCommand \/ Drained \/ KeepServing \/ StopServing

-----------------------------------------------------------------------------
(* Faults *)

Crash == agent = "up" /\ Down

\* The tunnel drops connection k: both ends lose it.
Reset(k) ==
  /\ QueueFree /\ Live(k) /\ cli[k] = "open"
  /\ \E lost \in {{}, {k}} : AgentCloses({k}, lost, down)
  /\ Disown(k)
  /\ UNCHANGED <<agent, tokenOk, loop, stopRequested, boundsCached, surveying,
                 executed, restarts>>

\* The runner (or another controller, with a token of its own) starts the
\* agent again.
Restart ==
  /\ agent = "down" /\ restarts < MaxRestarts
  /\ agent' = "up"
  /\ restarts' = restarts + 1
  /\ tokenOk' \in BOOLEAN
  /\ UNCHANGED <<wireVars, pending, loop, running, stopRequested, boundsCached, surveying,
                 executed>>
=============================================================================
