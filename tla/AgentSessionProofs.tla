-------------------------- MODULE AgentSessionProofs --------------------------
(***************************************************************************)
(* Theorems of AgentSession, for every set of calls and of connections.    *)
(***************************************************************************)
EXTENDS AgentSession, SequenceTheorems, TLAPS

-----------------------------------------------------------------------------
(* Types: the wire *)

\* A sequence made of two known parts of a sequence: what the client and the
\* agent do to the frames of a connection stays a sequence of frames.
LEMMA MappedSequence ==
  ASSUME NEW S, NEW s \in Seq(S), NEW t, DOMAIN t = DOMAIN s,
         t = [i \in DOMAIN s |-> t[i]], \A i \in DOMAIN s : t[i] \in S
  PROVE  t \in Seq(S)
<1>1. DOMAIN s = 1 .. Len(s) /\ Len(s) \in Nat
  OBVIOUS
<1>2. t \in [1 .. Len(s) -> S]
  BY <1>1
<1> QED
  BY <1>1, <1>2

\* Opening a connection gives it a first frame and drops the replaced one.
LEMMA OpenConnectionType ==
  ASSUME WireTypeOK, NEW k \in Conns, NEW old \in Conns \cup {NoConn},
         NEW listening \in BOOLEAN, OpenConnection(k, old, listening)
  PROVE  WireTypeOK'
<1>1. <<Hello>> \in Seq(UpFrame)
  BY DEF Hello, UpFrame, UpKinds
<1> QED
  BY <1>1 DEF WireTypeOK, OpenConnection

\* So does closing the client's end.
LEMMA ClientClosesType ==
  ASSUME WireTypeOK, NEW k \in Conns \cup {NoConn}, ClientCloses(k)
  PROVE  WireTypeOK'
BY DEF WireTypeOK, ClientCloses

\* A frame the client writes.
LEMMA ClientWritesType ==
  ASSUME WireTypeOK, NEW k \in Conns, NEW f \in UpFrame, ClientWrites(k, f)
  PROVE  WireTypeOK'
BY DEF WireTypeOK, ClientWrites

\* A frame the agent writes.
LEMMA DeliveredType ==
  ASSUME WireTypeOK, NEW k \in Conns \cup {NoConn}, NEW f \in DownFrame
  PROVE  Delivered(k, f) \in [Conns -> Seq(DownFrame)]
BY DEF WireTypeOK, Delivered

\* The agent's end of some connections goes away.
LEMMA AgentClosesType ==
  ASSUME WireTypeOK, NEW K \in SUBSET Conns, NEW lost \in SUBSET Conns,
         NEW replies \in [Conns -> Seq(DownFrame)], AgentCloses(K, lost, replies)
  PROVE  WireTypeOK'
BY DEF WireTypeOK, AgentCloses

\* The agent takes the first frame off a connection.
LEMMA ConsumeType ==
  ASSUME WireTypeOK, NEW k \in Conns, up[k] # <<>>, Consume(k)
  PROVE  up' \in [Conns -> Seq(UpFrame)]
BY DEF WireTypeOK, Consume

\* The client takes the first frame off its socket.
LEMMA PopReplyType ==
  ASSUME WireTypeOK, sock \in Conns, down[sock] # <<>>, PopReply
  PROVE  WireTypeOK'
BY DEF WireTypeOK, PopReply

\* The frames the protocol uses are frames.
LEMMA FrameTypes ==
  /\ Welcome \in DownFrame /\ HandshakeError \in DownFrame /\ MalformedReply \in DownFrame
  /\ Hello \in UpFrame /\ Partial \in UpFrame
BY DEF Welcome, HandshakeError, MalformedReply, Hello, Partial, DownFrame, DownKinds,
       UpFrame, UpKinds

-----------------------------------------------------------------------------
(* Types: the client *)

\* Who holds the lock across steps holds a socket: what the client's reads
\* rely on.
ReaderHasSocket == \A c \in Calls : pc[c] \in {"reading", "hello"} => sock \in Conns

\* How a method call ends, and how it goes on, are well typed.
LEMMA FinishType ==
  ASSUME ClientTypeOK, NEW c \in Calls, NEW r \in Outcomes, Finish(c, r)
  PROVE  /\ pc' \in [Calls -> PCs]
         /\ attempt' \in [Calls -> Nat] /\ tries' \in [Calls -> Nat]
         /\ outcome' \in [Calls -> Outcomes]
BY DEF ClientTypeOK, Finish, Goto, PCs

LEMMA ContinueType ==
  ASSUME ClientTypeOK, NEW c \in Calls, NEW p \in PCs, Continue(c, p)
  PROVE  /\ pc' \in [Calls -> PCs]
         /\ attempt' \in [Calls -> Nat] /\ tries' \in [Calls -> Nat]
         /\ outcome' \in [Calls -> Outcomes]
BY DEF ClientTypeOK, Continue, Goto

\* Every step of a call keeps the wire and the client well typed.
LEMMA ProgressType ==
  ASSUME WireTypeOK, ClientTypeOK, ReaderHasSocket,
         NEW c \in Calls, NEW listening \in BOOLEAN, Progress(c, listening)
  PROVE  WireTypeOK' /\ ClientTypeOK'
<1> USE ClientAssumption
<1>1. CASE NotConnected(c)
  <2>1. WireTypeOK'
    BY <1>1 DEF NotConnected, wireVars, WireTypeOK
  <2>2. QED
    BY <1>1, <2>1, ContinueType DEF NotConnected, ClientTypeOK, PCs
<1>2. CASE SendRequest(c)
  <2>1. sock \in Conns /\ nextId' \in Nat
    BY <1>2 DEF SendRequest, TakeId, ClientTypeOK
  <2>2. [kind |-> RequestKind(c), id |-> nextId'] \in UpFrame
    BY <2>1 DEF RequestKind, UpFrame, UpKinds
  <2>3. WireTypeOK'
    BY <1>2, <2>1, <2>2, ClientWritesType DEF SendRequest
  <2>4. QED
    BY <1>2, <2>1, <2>3, ContinueType DEF SendRequest, TakeId, ClientTypeOK, PCs
<1>3. CASE SendFails(c)
  <2>1. WireTypeOK'
    BY <1>3 DEF SendFails, wireVars, WireTypeOK
  <2>2. QED
    BY <1>3, <2>1, ContinueType DEF SendFails, TakeId, ClientTypeOK, PCs
<1>4. CASE ReadReply(c)
  <2>1. WireTypeOK'
    BY <1>4, PopReplyType DEF ReadReply, Incoming, ReaderHasSocket
  <2>2. QED
    BY <1>4, <2>1, FinishType DEF ReadReply, ClientTypeOK, Outcomes
<1>5. CASE DiscardStale(c)
  <2>1. WireTypeOK'
    BY <1>5, PopReplyType DEF DiscardStale, Incoming, ReaderHasSocket
  <2>2. QED
    BY <1>5, <2>1, FinishType, ContinueType DEF DiscardStale, ClientTypeOK, Outcomes, PCs
<1>6. CASE ReadFails(c)
  <2>1. WireTypeOK'
    BY <1>6 DEF ReadFails, wireVars, WireTypeOK
  <2>2. QED
    BY <1>6, <2>1, ContinueType DEF ReadFails, ClientTypeOK, PCs
<1>7. CASE CloseAfterFailure(c)
  <2>1. WireTypeOK'
    BY <1>7, ClientClosesType DEF CloseAfterFailure, CloseSocket, ClientTypeOK
  <2>2. CASE Finish(c, "lost")
    BY <1>7, <2>1, <2>2, FinishType DEF CloseAfterFailure, CloseSocket, ClientTypeOK, Outcomes
  <2>3. CASE ~Finish(c, "lost")
    BY <1>7, <2>1, <2>3 DEF CloseAfterFailure, CloseSocket, ClientTypeOK, Goto, Tries, PCs
  <2>4. QED
    BY <2>2, <2>3
<1>8. ASSUME NEW k \in Conns, OpenSocket(c, k, listening)
      PROVE  WireTypeOK' /\ ClientTypeOK'
  <2>1. WireTypeOK'
    BY <1>8, OpenConnectionType DEF OpenSocket, ClientTypeOK
  <2>2. QED
    BY <1>8, <2>1, ContinueType DEF OpenSocket, ClientTypeOK, PCs
<1>9. CASE OpenFails(c)
  <2>1. WireTypeOK'
    BY <1>9 DEF OpenFails, wireVars, WireTypeOK
  <2>2. QED
    BY <1>9, <2>1, ContinueType DEF OpenFails, ClientTypeOK, PCs
<1>10. CASE ReadHandshake(c)
  <2>1. WireTypeOK'
    BY <1>10, PopReplyType DEF ReadHandshake, Incoming, ReaderHasSocket
  <2>2. QED
    BY <1>10, <2>1, FinishType, ContinueType DEF ReadHandshake, ClientTypeOK, Outcomes, PCs
<1>11. CASE HandshakeFails(c)
  <2>1. WireTypeOK'
    BY <1>11 DEF HandshakeFails, wireVars, WireTypeOK
  <2>2. QED
    BY <1>11, <2>1, ContinueType DEF HandshakeFails, ClientTypeOK, PCs
<1>12. CASE Greet(c)
  <2>1. WireTypeOK'
    BY <1>12 DEF Greet, wireVars, WireTypeOK
  <2>2. CASE NextAttempt(c)
    BY <1>12, <2>1, <2>2 DEF Greet, NextAttempt, Goto, ClientTypeOK, PCs
  <2>3. CASE ~NextAttempt(c)
    BY <1>12, <2>1, <2>3, FinishType DEF Greet, ClientTypeOK, Outcomes
  <2>4. QED
    BY <2>2, <2>3
<1>13. CASE CloseAfterConnectFailure(c)
  <2>1. WireTypeOK'
    BY <1>13, ClientClosesType DEF CloseAfterConnectFailure, CloseSocket, ClientTypeOK
  <2>2. CASE Finish(c, "unreachable")
    BY <1>13, <2>1, <2>2, FinishType
    DEF CloseAfterConnectFailure, CloseSocket, ClientTypeOK, Outcomes
  <2>3. CASE ~Finish(c, "unreachable")
    BY <1>13, <2>1, <2>3
    DEF CloseAfterConnectFailure, CloseSocket, NextAttempt, Goto, ClientTypeOK, PCs
  <2>4. QED
    BY <2>2, <2>3
<1>14. CASE Close(c)
  <2>1. WireTypeOK'
    BY <1>14, ClientClosesType DEF Close, CloseSocket, ClientTypeOK
  <2>2. QED
    BY <1>14, <2>1 DEF Close, CloseSocket, Goto, ClientTypeOK, PCs, Outcomes
<1> QED
  BY <1>1, <1>2, <1>3, <1>4, <1>5, <1>6, <1>7, <1>8, <1>9, <1>10, <1>11, <1>12, <1>13, <1>14
  DEF Progress

\* So do entering a method and the faults of the client's side.
LEMMA StartType ==
  ASSUME WireTypeOK, ClientTypeOK, NEW c \in Calls, Start(c)
  PROVE  WireTypeOK' /\ ClientTypeOK'
<1> USE ClientAssumption
<1>1. WireTypeOK'
  BY DEF Start, wireVars, WireTypeOK
<1>2. CASE Finish(c, "lost")
  BY <1>1, <1>2, FinishType DEF Start, ClientTypeOK, Outcomes
<1>3. CASE ~Finish(c, "lost")
  BY <1>1, <1>3 DEF Start, Goto, Tries, ClientTypeOK, PCs
<1> QED
  BY <1>2, <1>3

LEMMA ClientFaultType ==
  ASSUME WireTypeOK, ClientTypeOK, NEW c \in Calls, ClientFault(c)
  PROVE  WireTypeOK' /\ ClientTypeOK'
<1> USE ClientAssumption
<1>1. CASE SendTimesOut(c)
  <2>1. sock \in Conns
    BY <1>1 DEF SendTimesOut, TakeId, ClientTypeOK
  <2>2. WireTypeOK'
    BY <1>1, <2>1, ClientWritesType, FrameTypes DEF SendTimesOut
  <2>3. QED
    BY <1>1, <2>2, FinishType DEF SendTimesOut, TakeId, Fault, ClientTypeOK, Outcomes
<1>2. CASE Interrupt(c)
  <2>1. WireTypeOK'
    BY <1>2 DEF Interrupt, wireVars, WireTypeOK
  <2>2. QED
    BY <1>2, <2>1, FinishType DEF Interrupt, Fault, ClientTypeOK, Outcomes
<1> QED
  BY <1>1, <1>2 DEF ClientFault

-----------------------------------------------------------------------------
(* Types: the agent *)

\* The XCTest thread is busy with a command: what its reply relies on.
BusyHasItem == loop = "busy" => running \in Item

\* A command that lost its connection is still a command.
LEMMA DisownType ==
  ASSUME ServerTypeOK, NEW k \in Conns, Disown(k)
  PROVE  pending' \in Seq(Item) /\ running' \in Item \cup {NoItem}
<1>1. \A item \in Item : Orphaned(item, k) \in Item
  BY DEF Orphaned, Item
<1>2. \A i \in DOMAIN pending : pending[i] \in Item
  BY DEF ServerTypeOK
<1>3. /\ DOMAIN pending' = DOMAIN pending
      /\ pending' = [i \in DOMAIN pending |-> pending'[i]]
      /\ \A i \in DOMAIN pending : pending'[i] \in Item
  BY <1>1, <1>2 DEF Disown
<1>4. pending' \in Seq(Item)
  BY <1>3, MappedSequence DEF ServerTypeOK
<1> QED
  BY <1>1, <1>4 DEF Disown, ServerTypeOK

\* The network queue keeps the wire and the agent well typed.
LEMMA NetworkType ==
  ASSUME WireTypeOK, ServerTypeOK, NEW k \in Conns, Network(k)
  PROVE  WireTypeOK' /\ ServerTypeOK'
<1> USE ServerAssumption, NoConnAssumption
<1>1. Delivered(k, Welcome) \in [Conns -> Seq(DownFrame)]
      /\ Delivered(k, HandshakeError) \in [Conns -> Seq(DownFrame)]
      /\ Delivered(k, MalformedReply) \in [Conns -> Seq(DownFrame)]
      /\ down \in [Conns -> Seq(DownFrame)]
  BY DeliveredType, FrameTypes DEF WireTypeOK
<1>2. CASE AcceptHandshake(k)
  BY <1>1, <1>2, ConsumeType DEF AcceptHandshake, Arriving, WireTypeOK, ServerTypeOK
<1>3. CASE RefuseHandshake(k)
  <2>1. WireTypeOK'
    BY <1>1, <1>3, AgentClosesType DEF RefuseHandshake
  <2>2. QED
    BY <1>3, <2>1, DisownType DEF RefuseHandshake, ServerTypeOK
<1>4. CASE ReceiveRequest(k)
  <2>1. WireTypeOK'
    BY <1>4, ConsumeType DEF ReceiveRequest, Arriving, WireTypeOK
  <2>2. Head(up[k]) \in UpFrame
    BY <1>4 DEF ReceiveRequest, Arriving, WireTypeOK
  <2>3. [id |-> Head(up[k]).id, conn |-> k, stop |-> Head(up[k]).kind = "stop"] \in Item
    BY <2>2 DEF Item, UpFrame
  <2>4. pending' \in Seq(Item)
    BY <1>4, <2>3 DEF ReceiveRequest, ServerTypeOK
  <2>5. QED
    BY <1>4, <2>1, <2>4 DEF ReceiveRequest, ServerTypeOK
<1>5. CASE RejectMalformed(k)
  BY <1>1, <1>5, ConsumeType
  DEF RejectMalformed, Arriving, WireTypeOK, ServerTypeOK, serverVars
<1>6. CASE ReceiveGarbled(k)
  <2>1. CASE AgentCloses({k}, {}, down) /\ Disown(k)
    <3>1. WireTypeOK'
      BY <1>1, <2>1, AgentClosesType
    <3>2. QED
      BY <1>6, <2>1, <3>1, DisownType DEF ReceiveGarbled, ServerTypeOK
  <2>2. CASE ~(AgentCloses({k}, {}, down) /\ Disown(k))
    <3>1. <<Partial>> \o SubSeq(up[k], 3, Len(up[k])) \in Seq(UpFrame)
      BY FrameTypes DEF WireTypeOK
    <3>2. /\ up' = [up EXCEPT ![k] = <<Partial>> \o SubSeq(up[k], 3, Len(up[k]))]
          /\ down' = down \/ down' = Delivered(k, MalformedReply)
          /\ UNCHANGED <<cli, srv, pending, running>>
      BY <1>6, <2>2 DEF ReceiveGarbled
    <3>3. WireTypeOK'
      BY <1>1, <3>1, <3>2 DEF WireTypeOK
    <3>4. QED
      BY <1>6, <3>2, <3>3 DEF ReceiveGarbled, ServerTypeOK
  <2>3. QED
    BY <2>1, <2>2
<1>7. CASE ConnectionEnds(k)
  <2>1. WireTypeOK'
    BY <1>1, <1>7, AgentClosesType DEF ConnectionEnds
  <2>2. QED
    BY <1>7, <2>1, DisownType DEF ConnectionEnds, ServerTypeOK
<1> QED
  BY <1>2, <1>3, <1>4, <1>5, <1>6, <1>7 DEF Network

\* So does the end of the process, whatever the reason.
LEMMA DownType ==
  ASSUME WireTypeOK, ServerTypeOK, Down
  PROVE  WireTypeOK' /\ ServerTypeOK'
<1>1. WireTypeOK'
  BY AgentClosesType DEF Down, WireTypeOK
<1>2. <<>> \in Seq(Item)
  OBVIOUS
<1> QED
  BY <1>1, <1>2 DEF Down, ServerTypeOK

\* And the XCTest thread, which executes what was queued.
LEMMA XCTestThreadType ==
  ASSUME WireTypeOK, ServerTypeOK, BusyHasItem, XCTestThread
  PROVE  WireTypeOK' /\ ServerTypeOK'
<1>1. CASE Dequeue
  <2>1. Head(pending) \in Item /\ Tail(pending) \in Seq(Item)
    BY <1>1 DEF Dequeue, ServerTypeOK
  <2>2. Head(pending).id \in Nat
    BY <2>1 DEF Item
  <2>3. WireTypeOK'
    BY <1>1 DEF Dequeue, wireVars, WireTypeOK
  <2>4. QED
    BY <1>1, <2>1, <2>2, <2>3 DEF Dequeue, ServerTypeOK
<1>2. CASE FinishCommand
  <2>1. running \in Item
    BY <1>2 DEF FinishCommand, BusyHasItem
  <2>2. ASSUME NEW kind \in DownKinds, Reply(kind)
        PROVE  down' \in [Conns -> Seq(DownFrame)]
    <3>1. running.conn \in Conns \cup {NoConn} /\ running.id \in Nat
      BY <2>1 DEF Item
    <3>2. [kind |-> kind, id |-> running.id] \in DownFrame
      BY <3>1 DEF DownFrame
    <3>3. QED
      BY <2>2, <3>1, <3>2, DeliveredType DEF Reply
  <2>3. "result" \in DownKinds /\ "failure" \in DownKinds
    BY DEF DownKinds
  <2>4. WireTypeOK'
    BY <1>2, <2>2, <2>3 DEF FinishCommand, WireTypeOK
  <2>5. stopRequested' \in BOOLEAN
    BY <1>2, <2>1 DEF FinishCommand, ServerTypeOK, Item
  <2>6. QED
    BY <1>2, <2>4, <2>5 DEF FinishCommand, ServerTypeOK
<1>3. CASE Drained
  BY <1>3 DEF Drained, wireVars, WireTypeOK, ServerTypeOK
<1>4. CASE KeepServing
  BY <1>4 DEF KeepServing, wireVars, WireTypeOK, ServerTypeOK
<1>5. CASE StopServing
  BY <1>5, DownType DEF StopServing
<1> QED
  BY <1>1, <1>2, <1>3, <1>4, <1>5 DEF XCTestThread

-----------------------------------------------------------------------------
(* The lock and the socket *)

\* self._socket is the one socket of the client that is open.
SocketIsOpen == \A k \in Conns : cli[k] = "open" <=> k = sock

SocketInv == WireTypeOK /\ ClientTypeOK /\ ReaderOwnsSocket /\ SocketIsOpen

LEMMA ReaderHasSocketHolds == SocketInv => ReaderHasSocket
BY DEF SocketInv, ReaderOwnsSocket, ReaderHasSocket, ClientTypeOK

\* Closing and opening are done by whoever could take the lock: nobody is
\* reading meanwhile.
LEMMA CloseSocketSocket ==
  ASSUME SocketInv, Acquirable, CloseSocket, UNCHANGED lock,
         NEW c \in Calls, NEW p, p \notin {"reading", "hello"}, Goto(c, p)
  PROVE  ReaderOwnsSocket' /\ SocketIsOpen'
<1> USE NoConnAssumption
<1>1. SocketIsOpen'
  BY DEF SocketInv, SocketIsOpen, CloseSocket, ClientCloses, WireTypeOK, ClientTypeOK
<1>2. lock' = NoCall /\ \A d \in Calls : pc'[d] \notin {"reading", "hello"}
  BY ClientAssumption DEF SocketInv, ReaderOwnsSocket, Acquirable, Goto, ClientTypeOK
<1> QED
  BY <1>1, <1>2, ClientAssumption DEF ReaderOwnsSocket

\* A step that leaves the sockets alone and ends with the lock free.
LEMMA ReleaseSocket ==
  ASSUME SocketInv, UNCHANGED <<cli, sock>>, lock' = NoCall,
         NEW c \in Calls, lock \in {c, NoCall},
         NEW p, p \notin {"reading", "hello"}, Goto(c, p)
  PROVE  ReaderOwnsSocket' /\ SocketIsOpen'
<1>1. SocketIsOpen'
  BY DEF SocketInv, SocketIsOpen
<1>2. \A d \in Calls : pc'[d] \notin {"reading", "hello"}
  BY ClientAssumption DEF SocketInv, ReaderOwnsSocket, Goto, ClientTypeOK
<1> QED
  BY <1>1, <1>2, ClientAssumption DEF ReaderOwnsSocket

\* A step that leaves the sockets alone and enters a read.
LEMMA StayReading ==
  ASSUME SocketInv, UNCHANGED <<cli, sock>>, sock # NoConn,
         NEW c \in Calls, lock \in {c, NoCall}, lock' = c,
         NEW p \in {"reading", "hello"}, Goto(c, p)
  PROVE  ReaderOwnsSocket' /\ SocketIsOpen'
<1>1. SocketIsOpen'
  BY DEF SocketInv, SocketIsOpen
<1>2. cli[sock] = "open"
  BY DEF SocketInv, SocketIsOpen, ClientTypeOK
<1>3. \A d \in Calls : pc'[d] \in {"reading", "hello"} <=> d = c
  BY ClientAssumption DEF SocketInv, ReaderOwnsSocket, Goto, ClientTypeOK
<1> QED
  BY <1>1, <1>2, <1>3 DEF ReaderOwnsSocket

\* A step of a call that is outside the lock and stays there.
LEMMA OutsideTheLock ==
  ASSUME SocketInv, UNCHANGED <<cli, sock, lock>>,
         NEW c \in Calls, pc[c] \notin {"reading", "hello"},
         NEW p, p \notin {"reading", "hello"}, Goto(c, p)
  PROVE  ReaderOwnsSocket' /\ SocketIsOpen'
BY DEF SocketInv, SocketIsOpen, ReaderOwnsSocket, Goto, ClientTypeOK

\* The method that ends has neither of the reading control points.
LEMMA FinishMoves ==
  ASSUME NEW c \in Calls, NEW r, Finish(c, r)
  PROVE  \E p \in {"closing", "done"} : Goto(c, p)
BY DEF Finish

LEMMA ProgressSocket ==
  ASSUME SocketInv, NEW c \in Calls, NEW listening \in BOOLEAN, Progress(c, listening)
  PROVE  ReaderOwnsSocket' /\ SocketIsOpen'
<1> USE DEF Acquirable, wireVars
<1>1. CASE NotConnected(c)
  BY <1>1, ReleaseSocket DEF NotConnected, Continue
<1>2. CASE SendRequest(c)
  BY <1>2, StayReading DEF SendRequest, TakeId, ClientWrites, Continue
<1>3. CASE SendFails(c)
  BY <1>3, ReleaseSocket DEF SendFails, TakeId, Continue
<1>4. CASE ReadReply(c)
  <2>1. UNCHANGED <<cli, sock>> /\ lock = c /\ lock' = NoCall
    BY <1>4 DEF ReadReply, Incoming, PopReply
  <2>2. PICK p \in {"closing", "done"} : Goto(c, p)
    BY <1>4, FinishMoves DEF ReadReply
  <2>3. QED
    BY <2>1, <2>2, ReleaseSocket
<1>5. CASE DiscardStale(c)
  <2>1. UNCHANGED <<cli, sock>> /\ lock = c /\ sock # NoConn
    BY <1>5 DEF DiscardStale, Incoming, PopReply, SocketInv, ReaderOwnsSocket
  <2>2. CASE Continue(c, "reading") /\ UNCHANGED lock
    BY <2>1, <2>2, StayReading DEF Continue
  <2>3. CASE Finish(c, "timeout") /\ lock' = NoCall
    <3>1. PICK p \in {"closing", "done"} : Goto(c, p)
      BY <2>3, FinishMoves
    <3>2. QED
      BY <2>1, <2>3, <3>1, ReleaseSocket
  <2>4. QED
    BY <1>5, <2>2, <2>3 DEF DiscardStale
<1>6. CASE ReadFails(c)
  BY <1>6, ReleaseSocket DEF ReadFails, Continue
<1>7. CASE CloseAfterFailure(c)
  <2>1. \E p \in {"connect", "closing", "done"} : Goto(c, p)
    BY <1>7, FinishMoves DEF CloseAfterFailure
  <2>2. PICK p \in {"connect", "closing", "done"} : Goto(c, p)
    BY <2>1
  <2>3. QED
    BY <1>7, <2>2, CloseSocketSocket DEF CloseAfterFailure
<1>8. ASSUME NEW k \in Conns, OpenSocket(c, k, listening)
      PROVE  ReaderOwnsSocket' /\ SocketIsOpen'
  <2>1. SocketIsOpen' /\ cli'[k] = "open"
    BY <1>8 DEF OpenSocket, OpenConnection, Free, SocketInv, SocketIsOpen, WireTypeOK,
                ClientTypeOK
  <2>2. \A d \in Calls : pc'[d] \in {"reading", "hello"} <=> d = c
    BY <1>8, ClientAssumption
    DEF OpenSocket, Continue, Goto, SocketInv, ReaderOwnsSocket, ClientTypeOK
  <2>3. lock' = c /\ sock' = k /\ k # NoConn
    BY <1>8, NoConnAssumption DEF OpenSocket
  <2>4. QED
    BY <2>1, <2>2, <2>3 DEF ReaderOwnsSocket
<1>9. CASE OpenFails(c)
  BY <1>9, ReleaseSocket DEF OpenFails, Continue
<1>10. CASE ReadHandshake(c)
  <2>1. UNCHANGED <<cli, sock>> /\ lock = c /\ lock' = NoCall
    BY <1>10 DEF ReadHandshake, Incoming, PopReply
  <2>2. \E p \in {"greet", "closing", "done"} : Goto(c, p)
    BY <1>10, FinishMoves DEF ReadHandshake, Continue
  <2>3. PICK p \in {"greet", "closing", "done"} : Goto(c, p)
    BY <2>2
  <2>4. QED
    BY <2>1, <2>3, ReleaseSocket
<1>11. CASE HandshakeFails(c)
  BY <1>11, ReleaseSocket DEF HandshakeFails, Continue
<1>12. CASE Greet(c)
  <2>1. \E p \in {"attempt", "closing", "done"} : Goto(c, p)
    BY <1>12, FinishMoves DEF Greet, NextAttempt
  <2>2. PICK p \in {"attempt", "closing", "done"} : Goto(c, p)
    BY <2>1
  <2>3. QED
    BY <1>12, <2>2, OutsideTheLock DEF Greet
<1>13. CASE CloseAfterConnectFailure(c)
  <2>1. \E p \in {"connect", "attempt", "closing", "done"} : Goto(c, p)
    BY <1>13, FinishMoves DEF CloseAfterConnectFailure, NextAttempt
  <2>2. PICK p \in {"connect", "attempt", "closing", "done"} : Goto(c, p)
    BY <2>1
  <2>3. QED
    BY <1>13, <2>2, CloseSocketSocket DEF CloseAfterConnectFailure
<1>14. CASE Close(c)
  BY <1>14, CloseSocketSocket DEF Close
<1> QED
  BY <1>1, <1>2, <1>3, <1>4, <1>5, <1>6, <1>7, <1>8, <1>9, <1>10, <1>11, <1>12, <1>13, <1>14
  DEF Progress

LEMMA StartSocket ==
  ASSUME SocketInv, NEW c \in Calls, Start(c)
  PROVE  ReaderOwnsSocket' /\ SocketIsOpen'
<1>1. \E p \in {"connect", "attempt", "closing", "done"} : Goto(c, p)
  BY FinishMoves DEF Start
<1>2. PICK p \in {"connect", "attempt", "closing", "done"} : Goto(c, p)
  BY <1>1
<1>3. QED
  BY <1>2, OutsideTheLock DEF Start, wireVars

LEMMA ClientFaultSocket ==
  ASSUME SocketInv, NEW c \in Calls, ClientFault(c)
  PROVE  ReaderOwnsSocket' /\ SocketIsOpen'
<1>1. PICK p \in {"closing", "done"} : Goto(c, p)
  BY FinishMoves DEF ClientFault, SendTimesOut, Interrupt
<1>2. CASE SendTimesOut(c)
  BY <1>1, <1>2, ReleaseSocket DEF SendTimesOut, TakeId, Acquirable, ClientWrites
<1>3. CASE Interrupt(c)
  BY <1>1, <1>3, ReleaseSocket DEF Interrupt, wireVars
<1> QED
  BY <1>2, <1>3 DEF ClientFault

-----------------------------------------------------------------------------
(* Who drives XCUITest *)

\* Until the first handshake has taken its screenshot, no connection but the
\* one being greeted is past its handshake, so that nothing has been queued
\* and nothing is being executed.
BoundsFirst ==
  /\ surveying # NoConn => ~boundsCached
  /\ ~boundsCached => /\ pending = <<>>
                      /\ loop # "busy"
                      /\ \A k \in Conns : srv[k] = "ready" => k = surveying

AgentInv == ServerTypeOK /\ BusyHasItem /\ BoundsFirst

\* The client never makes a connection ready: only the agent does.
LEMMA ClientWireReady ==
  ASSUME NEW c \in Calls, NEW listening \in BOOLEAN, Progress(c, listening), WireTypeOK
  PROVE  \A k \in Conns : srv'[k] = "ready" => srv[k] = "ready"
<1>1. ASSUME NEW k, ClientCloses(k)
      PROVE  \A j \in Conns : srv'[j] = "ready" => srv[j] = "ready"
  BY <1>1 DEF ClientCloses
<1>2. ASSUME NEW k, NEW old, OpenConnection(k, old, listening)
      PROVE  \A j \in Conns : srv'[j] = "ready" => srv[j] = "ready"
  BY <1>2 DEF OpenConnection
<1>3. CASE UNCHANGED srv
  BY <1>3
<1>4. QED
  BY <1>1, <1>2, <1>3
  DEF Progress, NotConnected, SendRequest, SendFails, ReadReply, DiscardStale, ReadFails,
      CloseAfterFailure, OpenSocket, OpenFails, ReadHandshake, HandshakeFails, Greet,
      CloseAfterConnectFailure, Close, CloseSocket, ClientWrites, PopReply, wireVars

\* A lost connection takes no command out of the XCTest thread's hands.
LEMMA DisownInv ==
  ASSUME AgentInv, NEW k \in Conns, Disown(k), UNCHANGED <<loop, boundsCached, surveying>>,
         NEW replies, NEW lost, AgentCloses({k}, lost, replies)
  PROVE  BusyHasItem' /\ BoundsFirst'
<1>1. BusyHasItem'
  <2>1. \A item \in Item : Orphaned(item, k) \in Item
    BY NoConnAssumption DEF Orphaned, Item
  <2>2. QED
    BY <2>1, ServerAssumption DEF AgentInv, BusyHasItem, Disown
<1>2. pending = <<>> => pending' = <<>>
  BY DEF Disown
<1>3. \A j \in Conns : srv'[j] = "ready" => srv[j] = "ready"
  BY DEF AgentCloses
<1> QED
  BY <1>1, <1>2, <1>3 DEF AgentInv, BoundsFirst

LEMMA NetworkInv ==
  ASSUME AgentInv, WireTypeOK, NEW k \in Conns, Network(k)
  PROVE  BusyHasItem' /\ BoundsFirst'
<1> USE NoConnAssumption DEF Arriving, QueueFree
<1>1. CASE AcceptHandshake(k)
  BY <1>1 DEF AcceptHandshake, AgentInv, BusyHasItem, BoundsFirst, WireTypeOK
<1>2. CASE RefuseHandshake(k)
  BY <1>2, DisownInv DEF RefuseHandshake
<1>3. CASE ReceiveRequest(k)
  BY <1>3 DEF ReceiveRequest, AgentInv, BusyHasItem, BoundsFirst
<1>4. CASE RejectMalformed(k)
  BY <1>4 DEF RejectMalformed, serverVars, AgentInv, BusyHasItem, BoundsFirst
<1>5. CASE ReceiveGarbled(k)
  <2>1. CASE AgentCloses({k}, {}, down) /\ Disown(k)
    BY <1>5, <2>1, DisownInv DEF ReceiveGarbled
  <2>2. CASE ~(AgentCloses({k}, {}, down) /\ Disown(k))
    BY <1>5, <2>2 DEF ReceiveGarbled, AgentInv, BusyHasItem, BoundsFirst
  <2>3. QED
    BY <2>1, <2>2
<1>6. CASE ConnectionEnds(k)
  BY <1>6, DisownInv DEF ConnectionEnds
<1> QED
  BY <1>1, <1>2, <1>3, <1>4, <1>5, <1>6 DEF Network

LEMMA DownInv ==
  ASSUME AgentInv, WireTypeOK, Down
  PROVE  BusyHasItem' /\ BoundsFirst'
<1>1. \A k \in Conns : srv'[k] # "ready"
  BY DEF Down, AgentCloses
<1> QED
  BY <1>1 DEF Down, BusyHasItem, BoundsFirst

LEMMA XCTestThreadInv ==
  ASSUME AgentInv, WireTypeOK, XCTestThread
  PROVE  BusyHasItem' /\ BoundsFirst'
<1>1. CASE Dequeue
  <2>1. Head(pending) \in Item
    BY <1>1 DEF Dequeue, AgentInv, ServerTypeOK
  <2>2. QED
    BY <1>1, <2>1 DEF Dequeue, wireVars, AgentInv, BusyHasItem, BoundsFirst
<1>2. CASE FinishCommand
  BY <1>2 DEF FinishCommand, AgentInv, BusyHasItem, BoundsFirst
<1>3. CASE Drained
  BY <1>3 DEF Drained, wireVars, AgentInv, BusyHasItem, BoundsFirst
<1>4. CASE KeepServing
  BY <1>4 DEF KeepServing, wireVars, AgentInv, BusyHasItem, BoundsFirst
<1>5. CASE StopServing
  BY <1>5, DownInv DEF StopServing
<1> QED
  BY <1>1, <1>2, <1>3, <1>4, <1>5 DEF XCTestThread

-----------------------------------------------------------------------------
(* The first theorems *)

IInv == SocketInv /\ AgentInv

LEMMA InitIInv == Init => IInv
<1> SUFFICES ASSUME Init PROVE IInv
  OBVIOUS
<1> USE DEF Init
<1>1. WireTypeOK
  BY DEF WireInit, WireTypeOK
<1>2. ClientTypeOK
  BY DEF ClientInit, ClientTypeOK, PCs, Outcomes
<1>3. ReaderOwnsSocket /\ SocketIsOpen
  BY ClientAssumption, NoConnAssumption
  DEF ReaderOwnsSocket, SocketIsOpen, WireInit, ClientInit
<1>4. ServerTypeOK
  <2>1. <<>> \in Seq(Item)
    OBVIOUS
  <2>2. QED
    BY <2>1 DEF ServerInit, Fresh, ServerTypeOK
<1>5. BusyHasItem /\ BoundsFirst
  BY DEF ServerInit, Fresh, WireInit, BusyHasItem, BoundsFirst
<1> QED
  BY <1>1, <1>2, <1>3, <1>4, <1>5 DEF IInv, SocketInv, AgentInv

\* Steps of the client leave the agent alone, but for the wire, and the
\* other way round.
LEMMA NextIInv == IInv /\ [Next]_vars => IInv'
<1> SUFFICES ASSUME IInv, [Next]_vars PROVE IInv'
  OBVIOUS
<1> USE DEF IInv
<1>1. WireTypeOK /\ ClientTypeOK /\ ServerTypeOK /\ ReaderHasSocket /\ BusyHasItem
  BY ReaderHasSocketHolds DEF SocketInv, AgentInv
<1>2. ASSUME UNCHANGED <<cli, sock, lock, pc>>
      PROVE  ReaderOwnsSocket' /\ SocketIsOpen'
  BY <1>2 DEF SocketInv, ReaderOwnsSocket, SocketIsOpen
<1>3. ASSUME UNCHANGED serverVars, \A k \in Conns : srv'[k] = "ready" => srv[k] = "ready"
      PROVE  AgentInv'
  BY <1>3 DEF serverVars, AgentInv, ServerTypeOK, BusyHasItem, BoundsFirst
<1>4. ASSUME UNCHANGED clientVars
      PROVE  ClientTypeOK' /\ UNCHANGED <<sock, lock, pc>>
  BY <1>1, <1>4 DEF clientVars, ClientTypeOK
<1>5. ASSUME NEW c \in Calls, Begin(c) PROVE IInv'
  <2>1. SocketInv'
    BY <1>1, <1>5, StartType, StartSocket DEF Begin, SocketInv
  <2>2. AgentInv'
    BY <1>3, <1>5 DEF Begin, Start, wireVars
  <2>3. QED
    BY <2>1, <2>2
<1>6. ASSUME NEW c \in Calls, ClientStep(c) PROVE IInv'
  <2>1. (agent = "up") \in BOOLEAN
    OBVIOUS
  <2>2. SocketInv'
    BY <1>1, <1>6, <2>1, ProgressType, ProgressSocket DEF ClientStep, SocketInv
  <2>3. AgentInv'
    BY <1>1, <1>3, <1>6, <2>1, ClientWireReady DEF ClientStep
  <2>4. QED
    BY <2>2, <2>3
<1>7. ASSUME NEW c \in Calls, ClientFaults(c) PROVE IInv'
  <2>1. SocketInv'
    BY <1>1, <1>7, ClientFaultType, ClientFaultSocket DEF ClientFaults, SocketInv
  <2>2. UNCHANGED srv
    BY <1>7 DEF ClientFaults, ClientFault, SendTimesOut, Interrupt, ClientWrites, wireVars
  <2>3. AgentInv'
    BY <1>3, <1>7, <2>2 DEF ClientFaults
  <2>4. QED
    BY <2>1, <2>3
<1>8. ASSUME NEW k \in Conns, NetworkStep(k) PROVE IInv'
  <2>1. WireTypeOK' /\ ServerTypeOK' /\ BusyHasItem' /\ BoundsFirst'
    BY <1>1, <1>8, NetworkType, NetworkInv DEF NetworkStep
  <2>2. UNCHANGED cli
    BY <1>8
    DEF NetworkStep, Network, AcceptHandshake, RefuseHandshake, ReceiveRequest,
        RejectMalformed, ReceiveGarbled, ConnectionEnds, AgentCloses
  <2>3. QED
    BY <1>2, <1>4, <1>8, <2>1, <2>2 DEF NetworkStep, SocketInv, AgentInv
<1>9. ASSUME NEW k \in Conns, ResetStep(k) PROVE IInv'
  <2>1. WireTypeOK'
    BY <1>1, <1>9, AgentClosesType DEF ResetStep, Reset, WireTypeOK
  <2>2. ServerTypeOK'
    BY <1>1, <1>9, DisownType DEF ResetStep, Reset, ServerTypeOK
  <2>3. BusyHasItem' /\ BoundsFirst'
    BY <1>9, DisownInv DEF ResetStep, Reset
  <2>4. ClientTypeOK' /\ UNCHANGED <<cli, sock, lock, pc>>
    BY <1>1, <1>9
    DEF ResetStep, Reset, AgentCloses, OtherClientVars, Fault, ClientTypeOK
  <2>5. QED
    BY <1>2, <2>1, <2>2, <2>3, <2>4 DEF SocketInv, AgentInv
<1>10. CASE SurveyStep
  <2>1. WireTypeOK'
    BY <1>1, <1>10, DeliveredType, FrameTypes
    DEF SurveyStep, FinishHandshake, WireTypeOK, ServerTypeOK
  <2>2. ServerTypeOK' /\ BusyHasItem' /\ BoundsFirst'
    BY <1>1, <1>10
    DEF SurveyStep, FinishHandshake, ServerTypeOK, AgentInv, BusyHasItem, BoundsFirst
  <2>3. QED
    BY <1>2, <1>4, <1>10, <2>1, <2>2 DEF SurveyStep, FinishHandshake, SocketInv, AgentInv
<1>11. CASE XCTestStep
  <2>1. WireTypeOK' /\ ServerTypeOK' /\ BusyHasItem' /\ BoundsFirst'
    BY <1>1, <1>11, XCTestThreadType, XCTestThreadInv DEF XCTestStep
  <2>2. UNCHANGED cli
    BY <1>11
    DEF XCTestStep, XCTestThread, Dequeue, FinishCommand, Drained, KeepServing, StopServing,
        Down, AgentCloses, wireVars
  <2>3. QED
    BY <1>2, <1>4, <1>11, <2>1, <2>2 DEF XCTestStep, SocketInv, AgentInv
<1>12. CASE CrashStep
  <2>1. WireTypeOK' /\ ServerTypeOK' /\ BusyHasItem' /\ BoundsFirst'
    BY <1>1, <1>12, DownType, DownInv DEF CrashStep, Crash
  <2>2. ClientTypeOK' /\ UNCHANGED <<cli, sock, lock, pc>>
    BY <1>1, <1>12
    DEF CrashStep, Crash, Down, AgentCloses, OtherClientVars, Fault, ClientTypeOK
  <2>3. QED
    BY <1>2, <2>1, <2>2 DEF SocketInv, AgentInv
<1>13. CASE RestartStep
  <2>1. ServerTypeOK' /\ BusyHasItem' /\ BoundsFirst' /\ WireTypeOK' /\ UNCHANGED cli
    BY <1>1, <1>13
    DEF RestartStep, Restart, wireVars, WireTypeOK, ServerTypeOK, AgentInv, BusyHasItem,
        BoundsFirst
  <2>2. QED
    BY <1>2, <1>4, <1>13, <2>1 DEF RestartStep, SocketInv, AgentInv
<1>14. CASE UNCHANGED vars
  <2>1. WireTypeOK' /\ UNCHANGED cli
    BY <1>1, <1>14 DEF vars, wireVars, WireTypeOK
  <2>2. QED
    BY <1>2, <1>3, <1>4, <1>14, <2>1 DEF vars, wireVars, SocketInv
<1> QED
  BY <1>5, <1>6, <1>7, <1>8, <1>9, <1>10, <1>11, <1>12, <1>13, <1>14 DEF Next, AllOver

\* IInv holds in every state of every behaviour.
THEOREM Invariance == Spec => []IInv
<1>1. QED
  BY InitIInv, NextIInv, PTL DEF Spec

\* Every variable of the client, the agent and the wire stays in its type.
THEOREM TypeCorrect == Spec => []TypeOK
<1>1. IInv => TypeOK
  BY DEF IInv, SocketInv, AgentInv, TypeOK
<1>2. QED
  BY <1>1, Invariance, PTL

\* Whoever waits for a frame holds the lock, on the client's own open socket,
\* however many calls, close()s and connect()s race with it.
THEOREM ReadersOwnTheirSocket == Spec => []ReaderOwnsSocket
<1>1. IInv => ReaderOwnsSocket
  BY DEF IInv, SocketInv
<1>2. QED
  BY <1>1, Invariance, PTL

\* The screenshot of a handshake, taken on the network queue, never overlaps
\* a command on the XCTest thread.
THEOREM HandshakeNeverMeetsCommand == Spec => []XCUITestExclusive
<1>1. IInv => XCUITestExclusive
  BY DEF IInv, AgentInv, BoundsFirst, XCUITestExclusive
<1>2. QED
  BY <1>1, Invariance, PTL
=============================================================================
