--------------------------- MODULE ControllerClient ---------------------------
(***************************************************************************)
(* IOSControllerClient (ios-sdk/sandstorm_ios/transport.py) and the calls  *)
(* IOSDevice and IOSSession make on it.  A call is one method invocation   *)
(* running in some thread; calls that overlap run in different threads,    *)
(* and share the client object: its RLock, socket, handshake and id        *)
(* counter.  Kind says which method a call is:                             *)
(*                                                                         *)
(*   connect   IOSControllerClient.connect                                 *)
(*   command   IOSSession.invoke: any command of the SDK                   *)
(*   nan       the same, with a number JSON cannot carry among its params  *)
(*   ping      IOSControllerClient.invoke, without the session's guard     *)
(*   stop      IOSSession.stop_agent: session.stop, retry=False, close     *)
(*   close     IOSControllerClient.close                                   *)
(*                                                                         *)
(* Control points of a call (pc):                                          *)
(*   attempt   about to take the lock in _invoke_once                      *)
(*   reading   holds the lock, in read_frame for the reply                 *)
(*   failed    in invoke's except clause, about to close()                 *)
(*   connect   in connect, about to take the lock and open a socket        *)
(*   hello     holds the lock, in read_frame for the handshake reply       *)
(*   greet     lock released, about to read self._handshake                *)
(*   connfail  in connect's except clause, about to close()                *)
(*   closing   about to close()                                            *)
(***************************************************************************)
EXTENDS Wire

CONSTANTS
  Calls,           \* the calls
  NoCall,          \* nobody
  Kind,            \* Kind[c]: which method c is
  MaxRetries,      \* max_retries: how often invoke reconnects and re-sends
  ConnectRetries,  \* the retries argument of a direct connect()
  MaxActive,       \* how many calls may overlap (1: a single-threaded user)
  MaxFaults        \* bound on the faults of a behaviour

Kinds == {"connect", "command", "nan", "ping", "stop", "close"}

ASSUME ClientAssumption ==
  /\ NoCall \notin Calls
  /\ Kind \in [Calls -> Kinds]
  /\ MaxRetries \in Nat
  /\ ConnectRetries \in Nat
  /\ MaxActive \in Nat
  /\ MaxFaults \in Nat

VARIABLES
  sock,       \* self._socket (and self._reader)
  handshake,  \* self._handshake: the connection it was performed on
  lock,       \* who is inside self._lock across more than one step
  nextId,     \* self._next_id
  pc,         \* the control point of each call
  attempt,    \* invoke's loop: attempts begun
  tries,      \* connect's loop: tries left
  cur,        \* command.id of the call's last request
  sent,       \* history: the ids the call has used
  outcome,    \* what the call returned or raised
  faults      \* faults so far

clientVars == <<sock, handshake, lock, nextId, pc, attempt, tries, cur, sent, outcome, faults>>

PCs == {"idle", "attempt", "reading", "failed", "connect", "hello", "greet",
        "connfail", "closing", "done"}

Outcomes == {"none",         \* still running
             "ok",           \* returned
             "error",        \* the agent's failure reply, as an IOSError
             "timeout",      \* IOSCommandTimeout
             "lost",         \* IOSSessionLost
             "unreachable",  \* IOSAgentConnectionError
             "refused",      \* IOSUnauthorized / IOSProtocolError of a handshake
             "crashed",      \* AttributeError
             "interrupted"}  \* KeyboardInterrupt

ClientTypeOK ==
  /\ sock \in Conns \cup {NoConn}
  /\ handshake \in Conns \cup {NoConn}
  /\ lock \in Calls \cup {NoCall}
  /\ nextId \in Nat
  /\ pc \in [Calls -> PCs]
  /\ attempt \in [Calls -> Nat]
  /\ tries \in [Calls -> Nat]
  /\ cur \in [Calls -> Nat]
  /\ sent \in [Calls -> SUBSET Nat]
  /\ outcome \in [Calls -> Outcomes]
  /\ faults \in Nat

ClientInit ==
  /\ sock = NoConn
  /\ handshake = NoConn
  /\ lock = NoCall
  /\ nextId = 0
  /\ pc = [c \in Calls |-> "idle"]
  /\ attempt = [c \in Calls |-> 0]
  /\ tries = [c \in Calls |-> 0]
  /\ cur = [c \in Calls |-> 0]
  /\ sent = [c \in Calls |-> {}]
  /\ outcome = [c \in Calls |-> "none"]
  /\ faults = 0

-----------------------------------------------------------------------------
\* Mutant: retry=False is ignored.
AttemptsWithoutRetryFlag(c) == MaxRetries + 1

\* attempts = self.max_retries + 1 if retry else 1
Attempts(c) == IF Kind[c] = "stop" THEN 1 ELSE MaxRetries + 1

\* connect's range(retries + 1); invoke reconnects with retries=1.
Tries(c) == IF Kind[c] = "connect" THEN ConnectRetries + 1 ELSE 2

Active == {c \in Calls : pc[c] \notin {"idle", "done"}}

RequestKind(c) == CASE Kind[c] = "stop" -> "stop"
                    [] Kind[c] = "nan"  -> "unparsable"
                    [] OTHER            -> "request"

Goto(c, p) == pc' = [pc EXCEPT ![c] = p]

\* The call returns or raises, and its loop variables are gone.  stop_agent
\* has a finally clause that closes.
Finish(c, result) ==
  /\ Goto(c, IF Kind[c] = "stop" THEN "closing" ELSE "done")
  /\ outcome' = [outcome EXCEPT ![c] = result]
  /\ attempt' = [attempt EXCEPT ![c] = 0]
  /\ tries' = [tries EXCEPT ![c] = 0]

\* The call is still running, in the same attempt.
Continue(c, p) ==
  /\ Goto(c, p)
  /\ UNCHANGED <<attempt, tries, outcome>>

\* Mutant: the handshake survives the socket it was performed on.
CloseSocketKeepsHandshake ==
  /\ ClientCloses(sock)
  /\ sock' = NoConn
  /\ UNCHANGED handshake

\* close(): under the lock; handshake, reader and socket are dropped.
CloseSocket ==
  /\ ClientCloses(sock)
  /\ sock' = NoConn
  /\ handshake' = NoConn

\* Mutant: there is no lock.
AcquirableAlways == TRUE

Acquirable == lock = NoCall

Fault == faults < MaxFaults /\ faults' = faults + 1
-----------------------------------------------------------------------------
(* Entering a method *)

\* Calls made through the IOSSession, which a successful connect creates.
OverSession(c) == Kind[c] \in {"command", "nan", "stop"}

SessionExists == \E d \in Calls : Kind[d] = "connect" /\ outcome[d] = "ok"

\* IOSSession.invoke refuses at once when the client has no socket; the
\* check is made outside the lock.
SessionClosed(c) == OverSession(c) /\ sock = NoConn

Start(c) ==
  /\ pc[c] = "idle"
  /\ Cardinality(Active) < MaxActive
  /\ OverSession(c) => SessionExists
  /\ IF SessionClosed(c)
     THEN Finish(c, "lost")
     ELSE /\ Goto(c, CASE Kind[c] = "connect" -> "connect"
                       [] Kind[c] = "close"   -> "closing"
                       [] OTHER               -> "attempt")
          /\ attempt' = [attempt EXCEPT ![c] = 1]
          /\ tries' = [tries EXCEPT ![c] = Tries(c)]
          /\ UNCHANGED outcome
  /\ UNCHANGED <<wireVars, sock, handshake, lock, nextId, cur, sent, faults>>

-----------------------------------------------------------------------------
(* _invoke_once *)

\* No socket: IOSSessionLost, which invoke treats as a connection loss.
NotConnected(c) ==
  /\ pc[c] = "attempt" /\ Acquirable
  /\ sock = NoConn
  /\ Continue(c, "failed")
  /\ UNCHANGED <<wireVars, sock, handshake, lock, nextId, cur, sent, faults>>

\* Every attempt is a new command with a new id.
TakeId(c) ==
  /\ pc[c] = "attempt" /\ Acquirable
  /\ sock # NoConn
  /\ nextId' = nextId + 1
  /\ cur' = [cur EXCEPT ![c] = nextId']
  /\ sent' = [sent EXCEPT ![c] = @ \cup {nextId'}]

SendRequest(c) ==
  /\ TakeId(c)
  /\ ClientWrites(sock, [kind |-> RequestKind(c), id |-> nextId'])
  /\ Continue(c, "reading")
  /\ lock' = c
  /\ UNCHANGED <<sock, handshake, faults>>

\* sendall raises OSError: the peer is gone.
SendFails(c) ==
  /\ TakeId(c)
  /\ ~Live(sock)
  /\ Continue(c, "failed")
  /\ UNCHANGED <<wireVars, sock, handshake, lock, faults>>

\* sendall times out half way: IOSCommandTimeout, which invoke does not
\* catch.  The socket stays, with a truncated frame on it.
SendTimesOut(c) ==
  /\ TakeId(c)
  /\ Fault
  /\ Live(sock)
  /\ ClientWrites(sock, Partial)
  /\ Finish(c, "timeout")
  /\ UNCHANGED <<sock, handshake, lock>>

Incoming(c, p) == pc[c] = p /\ lock = c /\ down[sock] # <<>>

PopReply == /\ down' = [down EXCEPT ![sock] = Tail(@)]
            /\ UNCHANGED <<cli, srv, up>>

\* Mutant: the next reply is taken for the answer, whatever its id.
AnswersAnything(c, reply) == reply.id = reply.id

Answers(c, reply) == reply.id = cur[c]

\* The reply whose id is the command's: returned, or raised as a typed error.
ReadReply(c) ==
  /\ Incoming(c, "reading")
  /\ Answers(c, Head(down[sock]))
  /\ PopReply
  /\ Finish(c, IF Head(down[sock]).kind = "result" THEN "ok" ELSE "error")
  /\ lock' = NoCall
  /\ UNCHANGED <<sock, handshake, nextId, cur, sent, faults>>

\* Any other reply is stale and discarded; only then is the deadline looked
\* at, and the socket stays open when it has passed.
DiscardStale(c) ==
  /\ Incoming(c, "reading")
  /\ ~Answers(c, Head(down[sock]))
  /\ PopReply
  /\ \/ Continue(c, "reading") /\ UNCHANGED lock
     \/ Finish(c, "timeout") /\ lock' = NoCall
  /\ UNCHANGED <<sock, handshake, nextId, cur, sent, faults>>

\* Mutant: recv has no timeout, only the end of the stream ends the wait.
ReadFailsAtEndOfStream(c) ==
  /\ pc[c] = "reading" /\ lock = c
  /\ ~Live(sock)
  /\ Continue(c, "failed")
  /\ lock' = NoCall
  /\ UNCHANGED <<wireVars, sock, handshake, nextId, cur, sent, faults>>

\* read_frame fails: end of stream, or - at any moment - recv's timeout,
\* which FrameReader reports as the same IOSAgentConnectionError.
ReadFails(c) ==
  /\ pc[c] = "reading" /\ lock = c
  /\ Continue(c, "failed")
  /\ lock' = NoCall
  /\ UNCHANGED <<wireVars, sock, handshake, nextId, cur, sent, faults>>

-----------------------------------------------------------------------------
(* invoke's retry loop *)

\* Mutant: one reconnect and attempt too many.
CloseAfterFailureOneMore(c) ==
  /\ pc[c] = "failed" /\ Acquirable
  /\ CloseSocket
  /\ IF attempt[c] <= Attempts(c)
     THEN /\ Goto(c, "connect")
          /\ tries' = [tries EXCEPT ![c] = Tries(c)]
          /\ UNCHANGED <<attempt, outcome>>
     ELSE Finish(c, "lost")
  /\ UNCHANGED <<lock, nextId, cur, sent, faults>>

CloseAfterFailure(c) ==
  /\ pc[c] = "failed" /\ Acquirable
  /\ CloseSocket
  /\ IF attempt[c] < Attempts(c)
     THEN /\ Goto(c, "connect")
          /\ tries' = [tries EXCEPT ![c] = Tries(c)]
          /\ UNCHANGED <<attempt, outcome>>
     ELSE Finish(c, "lost")
  /\ UNCHANGED <<lock, nextId, cur, sent, faults>>

-----------------------------------------------------------------------------
(* connect *)

\* _open_socket and the request of _perform_handshake.
OpenSocket(c, k, listening) ==
  /\ pc[c] = "connect" /\ Acquirable
  /\ OpenConnection(k, sock, listening)
  /\ sock' = k
  /\ Continue(c, "hello")
  /\ lock' = c
  /\ UNCHANGED <<handshake, nextId, cur, sent, faults>>

OpenFails(c) ==
  /\ pc[c] = "connect" /\ Acquirable
  /\ Continue(c, "connfail")
  /\ UNCHANGED <<wireVars, sock, handshake, lock, nextId, cur, sent, faults>>

\* The answer to the handshake.  A failure is raised as a typed error that
\* neither connect nor invoke catches; the socket stays.
ReadHandshake(c) ==
  /\ Incoming(c, "hello")
  /\ PopReply
  /\ IF Head(down[sock]).kind = "welcome"
     THEN Continue(c, "greet") /\ handshake' = sock
     ELSE Finish(c, "refused") /\ UNCHANGED handshake
  /\ lock' = NoCall
  /\ UNCHANGED <<sock, nextId, cur, sent, faults>>

HandshakeFails(c) ==
  /\ pc[c] = "hello" /\ lock = c
  /\ Continue(c, "connfail")
  /\ lock' = NoCall
  /\ UNCHANGED <<wireVars, sock, handshake, nextId, cur, sent, faults>>

\* invoke goes on to its next attempt, whether connect succeeded or not.
NextAttempt(c) ==
  /\ Goto(c, "attempt")
  /\ attempt' = [attempt EXCEPT ![c] = @ + 1]
  /\ tries' = [tries EXCEPT ![c] = 0]
  /\ UNCHANGED outcome

\* The log line reads self._handshake.agent_version without the lock.
Greet(c) ==
  /\ pc[c] = "greet"
  /\ IF handshake = NoConn THEN Finish(c, "crashed")
     ELSE IF Kind[c] = "connect" THEN Finish(c, "ok")
     ELSE NextAttempt(c)
  /\ UNCHANGED <<wireVars, sock, handshake, lock, nextId, cur, sent, faults>>

\* Mutant: the loop does not notice that it has no tries left.
CloseAfterConnectFailureUnbounded(c) ==
  /\ pc[c] = "connfail" /\ Acquirable
  /\ CloseSocket
  /\ Goto(c, "connect")
  /\ tries' = [tries EXCEPT ![c] = @ - 1]
  /\ UNCHANGED <<lock, nextId, attempt, outcome, cur, sent, faults>>

\* connect tries again, or raises IOSAgentConnectionError, which invoke
\* swallows.
CloseAfterConnectFailure(c) ==
  /\ pc[c] = "connfail" /\ Acquirable
  /\ CloseSocket
  /\ IF tries[c] > 1
     THEN /\ Goto(c, "connect")
          /\ tries' = [tries EXCEPT ![c] = @ - 1]
          /\ UNCHANGED <<attempt, outcome>>
     ELSE IF Kind[c] = "connect" THEN Finish(c, "unreachable")
     ELSE NextAttempt(c)
  /\ UNCHANGED <<lock, nextId, cur, sent, faults>>

-----------------------------------------------------------------------------
(* close, and a signal *)

\* Mutant: close() does not take the lock.
CloseUnlocked(c) ==
  /\ pc[c] = "closing"
  /\ CloseSocket
  /\ Goto(c, "done")
  /\ outcome' = [outcome EXCEPT ![c] = IF @ = "none" THEN "ok" ELSE @]
  /\ UNCHANGED <<lock, nextId, attempt, tries, cur, sent, faults>>

Close(c) ==
  /\ pc[c] = "closing" /\ Acquirable
  /\ CloseSocket
  /\ Goto(c, "done")
  /\ outcome' = [outcome EXCEPT ![c] = IF @ = "none" THEN "ok" ELSE @]
  /\ UNCHANGED <<lock, nextId, attempt, tries, cur, sent, faults>>

\* KeyboardInterrupt (Ctrl-C, a test timeout) while the thread waits in
\* recv: the with statement releases the lock, nothing closes the socket.
Interrupt(c) ==
  /\ pc[c] \in {"reading", "hello"} /\ lock = c
  /\ Fault
  /\ Finish(c, "interrupted")
  /\ lock' = NoCall
  /\ UNCHANGED <<wireVars, sock, handshake, nextId, cur, sent>>

-----------------------------------------------------------------------------
\* What a running call does by itself, with an agent that is (or is not)
\* accepting connections.
Progress(c, listening) ==
  \/ NotConnected(c)
  \/ SendRequest(c)
  \/ SendFails(c)
  \/ ReadReply(c)
  \/ DiscardStale(c)
  \/ ReadFails(c)
  \/ CloseAfterFailure(c)
  \/ \E k \in Conns : OpenSocket(c, k, listening)
  \/ OpenFails(c)
  \/ ReadHandshake(c)
  \/ HandshakeFails(c)
  \/ Greet(c)
  \/ CloseAfterConnectFailure(c)
  \/ Close(c)

ClientFault(c) == SendTimesOut(c) \/ Interrupt(c)
=============================================================================
