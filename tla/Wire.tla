------------------------------- MODULE Wire -------------------------------
(***************************************************************************)
(* The TCP connections between IOSControllerClient (Python, host) and the  *)
(* CommandServer (Swift, device).                                          *)
(*                                                                         *)
(* A connection is a slot of a finite pool: a slot is reused only once     *)
(* both of its ends are gone.  In each direction a connection is a FIFO of *)
(* frames; what one end has not read when the other end dies may be lost.  *)
(*                                                                         *)
(* Frame payloads are abstracted to a kind and the JSON "id" field, with   *)
(* the values the protocol gives it: requests count from 1, the handshake  *)
(* failure carries 0, the "malformed request" reply and a handshake        *)
(* response read as a reply carry -1.                                      *)
(***************************************************************************)
EXTENDS Integers, Sequences, FiniteSets

CONSTANTS
  Conns,    \* connection slots
  NoConn    \* "no connection" (None / a cancelled NWConnection)

ASSUME NoConnAssumption == NoConn \notin Conns

VARIABLES
  cli,      \* cli[k]: the client end, the Python socket object
  srv,      \* srv[k]: the server end, the Swift AgentConnection
  up,       \* up[k]: frames on their way to the agent
  down      \* down[k]: frames on their way to the client

wireVars == <<cli, srv, up, down>>

UpKinds   == {"hello", "request", "stop", "unparsable", "partial"}
DownKinds == {"welcome", "refused", "result", "failure", "malformed"}

UpFrame   == [kind : UpKinds, id : Nat]
DownFrame == [kind : DownKinds, id : Int]

Hello           == [kind |-> "hello", id |-> 0]
Partial         == [kind |-> "partial", id |-> 0]
Welcome         == [kind |-> "welcome", id |-> -1]
HandshakeError  == [kind |-> "refused", id |-> 0]
MalformedReply  == [kind |-> "malformed", id |-> -1]

WireTypeOK ==
  /\ cli  \in [Conns -> {"closed", "open"}]
  /\ srv  \in [Conns -> {"none", "new", "ready", "closed"}]
  /\ up   \in [Conns -> Seq(UpFrame)]
  /\ down \in [Conns -> Seq(DownFrame)]

WireInit ==
  /\ cli  = [k \in Conns |-> "closed"]
  /\ srv  = [k \in Conns |-> "none"]
  /\ up   = [k \in Conns |-> <<>>]
  /\ down = [k \in Conns |-> <<>>]

\* The agent still holds its end of k.
Live(k) == srv[k] \in {"new", "ready"}

\* Both ends of k are gone: the slot can carry a new connection.
Free(k) == cli[k] = "closed" /\ srv[k] = "none"

\* socket.create_connection: k is opened and carries its first frame.  The
\* connection may be accepted by a tunnel that has no agent behind it.  The
\* socket object it replaces (if any) is unreferenced from now on: closed.
OpenConnection(k, replaced, listening) ==
  /\ Free(k)
  /\ cli' = [j \in Conns |-> IF j = k THEN "open"
                             ELSE IF j = replaced THEN "closed" ELSE cli[j]]
  /\ srv' = [j \in Conns |->
               IF j = k THEN (IF listening THEN "new" ELSE "closed")
               ELSE IF j = replaced /\ srv[j] = "closed" THEN "none" ELSE srv[j]]
  /\ up'  = [up EXCEPT ![k] = IF listening THEN <<Hello>> ELSE <<>>]
  /\ down' = [j \in Conns |-> IF j = replaced THEN <<>> ELSE down[j]]

\* socket.close(): what the client had not read is gone, what it had
\* written is still on its way.
ClientCloses(k) ==
  /\ cli'  = [j \in Conns |-> IF j = k THEN "closed" ELSE cli[j]]
  /\ srv'  = [j \in Conns |-> IF j = k /\ srv[j] = "closed" THEN "none" ELSE srv[j]]
  /\ down' = [j \in Conns |-> IF j = k THEN <<>> ELSE down[j]]
  /\ UNCHANGED up

\* A write by the client: bytes written to a connection whose peer is gone
\* are lost.
ClientWrites(k, frame) ==
  /\ up' = IF Live(k) THEN [up EXCEPT ![k] = Append(@, frame)] ELSE up
  /\ UNCHANGED <<cli, srv, down>>

\* What a write by the agent leaves on its way to the client: nothing when
\* the connection was cancelled or the client has closed its end.
Delivered(k, frame) ==
  IF k # NoConn /\ Live(k) /\ cli[k] = "open"
  THEN [down EXCEPT ![k] = Append(@, frame)]
  ELSE down

\* NWConnection.cancel(), or the death of the process, for the connections
\* in K: their unread requests are gone, and of the replies still on their
\* way those on the connections in lost never arrive.
AgentCloses(K, lost, replies) ==
  /\ srv'  = [k \in Conns |-> IF k \notin K THEN srv[k]
                              ELSE IF cli[k] = "open" THEN "closed" ELSE "none"]
  /\ up'   = [k \in Conns |-> IF k \in K THEN <<>> ELSE up[k]]
  /\ down' = [k \in Conns |-> IF k \in lost THEN <<>> ELSE replies[k]]
  /\ UNCHANGED cli
=============================================================================
