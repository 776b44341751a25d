---------------------------- MODULE AnswerProofs ----------------------------
(***************************************************************************)
(* Correlation: whoever is given an answer is given the answer to the      *)
(* request it sent last, and that request was executed.  The argument      *)
(* follows a reply backwards: what is on its way to the client is either   *)
(* the reply to a command that was executed, or carries an id (0, -1) that *)
(* no request has; and a call that reads waits under an id of its own.     *)
(* And, from the same invariant: for a user that makes one call at a time, *)
(* the handshake is that of the socket.                                    *)
(***************************************************************************)
EXTENDS AgentSessionProofs, FiniteSetTheorems

FrameOK(f, done) == IF f.kind \in {"result", "failure"} THEN f.id \in done ELSE f.id <= 0

RepliesOK == \A k \in Conns : \A i \in DOMAIN down[k] : FrameOK(down[k][i], executed)

RunningOK == loop = "busy" => running.id \in executed

CallOK(c) ==
  /\ pc[c] = "reading" => cur[c] \in sent[c] /\ cur[c] > 0
  /\ pc[c] \notin {"closing", "done"} => outcome[c] = "none"
  /\ pc[c] = "closing" /\ Kind[c] # "close" => outcome[c] # "none"

Answered(c) == outcome[c] \in {"ok", "error"} /\ Kind[c] \notin {"connect", "close"}

CallsOK == \A c \in Calls : CallOK(c) /\ (Answered(c) => cur[c] \in sent[c] \cap executed)

AnswerInv == RepliesOK /\ RunningOK /\ CallsOK

-----------------------------------------------------------------------------
(* Replies *)

\* What is read, lost or left alone does no harm, and neither does a good
\* frame that is added.
LEMMA RepliesKept ==
  ASSUME WireTypeOK, RepliesOK, executed \subseteq executed',
         \A k \in Conns :
           \/ down'[k] \in {<<>>, down[k], Tail(down[k])}
           \/ \E f \in DownFrame : FrameOK(f, executed') /\ down'[k] = Append(down[k], f)
  PROVE  RepliesOK'
<1> SUFFICES ASSUME NEW k \in Conns, NEW i \in DOMAIN down'[k] PROVE FrameOK(down'[k][i], executed')
  BY DEF RepliesOK
<1>1. \A j \in DOMAIN down[k] : FrameOK(down[k][j], executed')
  BY DEF RepliesOK, FrameOK
<1>2. down[k] \in Seq(DownFrame)
  BY DEF WireTypeOK
<1>3. CASE down'[k] = <<>>
  BY <1>3
<1>4. CASE down'[k] = down[k]
  BY <1>1, <1>4
<1>5. CASE down'[k] = Tail(down[k]) /\ down[k] # <<>>
  <2>1. i + 1 \in DOMAIN down[k] /\ down'[k][i] = down[k][i + 1]
    BY <1>2, <1>5
  <2>2. QED
    BY <1>1, <2>1
<1>6. CASE \E f \in DownFrame : FrameOK(f, executed') /\ down'[k] = Append(down[k], f)
  <2>1. PICK f \in DownFrame : FrameOK(f, executed') /\ down'[k] = Append(down[k], f)
    BY <1>6
  <2>2. CASE i \in DOMAIN down[k]
    <3>1. down'[k][i] = down[k][i]
      BY <1>2, <2>1, <2>2
    <3>2. QED
      BY <1>1, <2>2, <3>1
  <2>3. CASE i \notin DOMAIN down[k]
    <3>1. down'[k][i] = f
      BY <1>2, <2>1, <2>3
    <3>2. QED
      BY <2>1, <3>1 DEF FrameOK
  <2>4. QED
    BY <2>2, <2>3
<1>7. Tail(<<>>) = <<>>
  OBVIOUS
<1> QED
  BY <1>3, <1>4, <1>5, <1>6, <1>7

\* The steps of a call never add a reply.
LEMMA ProgressReplies ==
  ASSUME WireTypeOK, NEW c \in Calls, NEW listening \in BOOLEAN, Progress(c, listening)
  PROVE  \A k \in Conns : down'[k] \in {<<>>, down[k], Tail(down[k])}
<1>1. ASSUME NEW k, ClientCloses(k)
      PROVE  \A j \in Conns : down'[j] \in {<<>>, down[j]}
  BY <1>1 DEF ClientCloses
<1>2. ASSUME NEW k, NEW old, OpenConnection(k, old, listening)
      PROVE  \A j \in Conns : down'[j] \in {<<>>, down[j]}
  BY <1>2 DEF OpenConnection
<1>3. ASSUME PopReply
      PROVE  \A j \in Conns : down'[j] \in {down[j], Tail(down[j])}
  BY <1>3 DEF PopReply, WireTypeOK
<1>4. CASE UNCHANGED down
  BY <1>4
<1>5. QED
  BY <1>1, <1>2, <1>3, <1>4 DEF Progress, NotConnected, SendRequest, SendFails, ReadReply,
                                DiscardStale, ReadFails, CloseAfterFailure, OpenSocket,
                                OpenFails, ReadHandshake, HandshakeFails, Greet,
                                CloseAfterConnectFailure, Close, CloseSocket, ClientWrites,
                                wireVars

\* A frame that is delivered is added to one connection, or to none.
LEMMA DeliveredReplies ==
  ASSUME WireTypeOK, NEW k \in Conns \cup {NoConn}, NEW f
  PROVE  \A j \in Conns : Delivered(k, f)[j] \in {down[j], Append(down[j], f)}
BY DEF Delivered, WireTypeOK

\* The frames of the protocol that answer no request.
LEMMA UnrelatedFrames ==
  \A f \in {Welcome, HandshakeError, MalformedReply} : f \in DownFrame /\ FrameOK(f, executed')
BY FrameTypes DEF FrameOK, Welcome, HandshakeError, MalformedReply

\* When connections end, what they still carry arrives or is lost.
LEMMA AgentClosesReplies ==
  ASSUME NEW K, NEW lost, NEW replies, AgentCloses(K, lost, replies)
  PROVE  \A j \in Conns : down'[j] \in {<<>>, replies[j]}
BY DEF AgentCloses

LEMMA NetworkReplies ==
  ASSUME WireTypeOK, RepliesOK, NEW k \in Conns, Network(k)
  PROVE  RepliesOK'
<1>1. \A f \in {Welcome, HandshakeError, MalformedReply} :
        \A j \in Conns : Delivered(k, f)[j] \in {down[j], Append(down[j], f)}
  BY DeliveredReplies
<1>2. executed \subseteq executed'
  BY DEF Network, AcceptHandshake, RefuseHandshake, ReceiveRequest, RejectMalformed,
         ReceiveGarbled, ConnectionEnds, serverVars
<1>3. \A j \in Conns : \/ down'[j] \in {<<>>, down[j]}
                       \/ \E f \in {Welcome, HandshakeError, MalformedReply} :
                            down'[j] = Append(down[j], f)
  <2>1. CASE AcceptHandshake(k)
    BY <1>1, <2>1 DEF AcceptHandshake
  <2>2. CASE RefuseHandshake(k)
    BY <1>1, <2>2, AgentClosesReplies DEF RefuseHandshake
  <2>3. CASE ReceiveRequest(k)
    BY <2>3 DEF ReceiveRequest
  <2>4. CASE RejectMalformed(k)
    BY <1>1, <2>4 DEF RejectMalformed
  <2>5. CASE ReceiveGarbled(k)
    BY <1>1, <2>5, AgentClosesReplies DEF ReceiveGarbled
  <2>6. CASE ConnectionEnds(k)
    BY <2>6, AgentClosesReplies DEF ConnectionEnds
  <2>7. QED
    BY <2>1, <2>2, <2>3, <2>4, <2>5, <2>6 DEF Network
<1>4. QED
  BY <1>2, <1>3, UnrelatedFrames, RepliesKept

LEMMA DownReplies ==
  ASSUME WireTypeOK, RepliesOK, Down
  PROVE  RepliesOK' /\ RunningOK'
<1>1. executed' = executed /\ loop' = "drain"
  BY DEF Down
<1>2. \A j \in Conns : down'[j] \in {<<>>, down[j]}
  BY AgentClosesReplies DEF Down
<1> QED
  BY <1>1, <1>2, RepliesKept DEF RunningOK

\* The reply of a command that was executed.
LEMMA XCTestThreadReplies ==
  ASSUME WireTypeOK, ServerTypeOK, BusyHasItem, RepliesOK, RunningOK, XCTestThread
  PROVE  RepliesOK' /\ RunningOK' /\ executed \subseteq executed'
<1>1. CASE Dequeue
  <2>1. executed \subseteq executed' /\ UNCHANGED down
    BY <1>1 DEF Dequeue, wireVars
  <2>2. RunningOK'
    BY <1>1 DEF Dequeue, RunningOK
  <2>3. QED
    BY <2>1, <2>2, RepliesKept
<1>2. CASE FinishCommand
  <2>1. running \in Item /\ running.id \in executed /\ executed' = executed
    BY <1>2 DEF FinishCommand, BusyHasItem, RunningOK
  <2>2. running.conn \in Conns \cup {NoConn} /\ running.id \in Nat
    BY <2>1 DEF Item
  <2>3. ASSUME NEW kind \in {"result", "failure"}, Reply(kind)
        PROVE  RepliesOK'
    <3>1. [kind |-> kind, id |-> running.id] \in DownFrame
      BY <2>2 DEF DownFrame, DownKinds
    <3>2. FrameOK([kind |-> kind, id |-> running.id], executed')
      BY <2>1 DEF FrameOK
    <3>3. \A j \in Conns : down'[j] \in {down[j],
                             Append(down[j], [kind |-> kind, id |-> running.id])}
      BY <2>2, <2>3, DeliveredReplies DEF Reply
    <3>4. QED
      BY <2>1, <3>1, <3>2, <3>3, RepliesKept
  <2>4. ASSUME UNCHANGED down PROVE RepliesOK'
    BY <2>1, <2>4 DEF RepliesOK
  <2>5. QED
    BY <1>2, <2>1, <2>3, <2>4 DEF FinishCommand, RunningOK
<1>3. CASE Drained
  BY <1>3, RepliesKept DEF Drained, wireVars, RunningOK
<1>4. CASE KeepServing
  BY <1>4, RepliesKept DEF KeepServing, wireVars, RunningOK
<1>5. CASE StopServing
  BY <1>5, DownReplies DEF StopServing, Down
<1> QED
  BY <1>1, <1>2, <1>3, <1>4, <1>5 DEF XCTestThread

\* The command being executed keeps its id when its connection is lost.
LEMMA DisownRunning ==
  ASSUME RunningOK, BusyHasItem, NEW k \in Conns, Disown(k), UNCHANGED <<loop, executed>>
  PROVE  RunningOK'
<1>1. \A item \in Item : Orphaned(item, k).id = item.id
  BY DEF Orphaned, Item
<1> QED
  BY <1>1, ServerAssumption DEF RunningOK, BusyHasItem, Disown

LEMMA NetworkRunning ==
  ASSUME RunningOK, BusyHasItem, NEW k \in Conns, Network(k)
  PROVE  RunningOK' /\ executed' = executed
<1>1. CASE Disown(k)
  BY <1>1, DisownRunning DEF Network, AcceptHandshake, RefuseHandshake, ReceiveRequest,
                             RejectMalformed, ReceiveGarbled, ConnectionEnds, serverVars
<1>2. CASE ~Disown(k)
  BY <1>2 DEF Network, AcceptHandshake, RefuseHandshake, ReceiveRequest, RejectMalformed,
              ReceiveGarbled, ConnectionEnds, serverVars, RunningOK
<1> QED
  BY <1>1, <1>2

-----------------------------------------------------------------------------
(* Calls *)

\* A call is not touched by what happens around it: the agent's steps only
\* add to what was executed.
LEMMA CallsKept ==
  ASSUME CallsOK, UNCHANGED <<pc, cur, sent, outcome>>, executed \subseteq executed'
  PROVE  CallsOK'
BY DEF CallsOK, CallOK, Answered

\* In a step of call c, the other calls are not touched.
LEMMA OtherCallsKept ==
  ASSUME CallsOK, NEW c \in Calls, UNCHANGED executed,
         \A d \in Calls \ {c} : /\ pc'[d] = pc[d] /\ cur'[d] = cur[d]
                                /\ sent'[d] = sent[d] /\ outcome'[d] = outcome[d],
         CallOK(c)', Answered(c)' => cur'[c] \in sent'[c] \cap executed'
  PROVE  CallsOK'
BY DEF CallsOK, CallOK, Answered

\* A call that ends without an answer.
LEMMA FinishCalls ==
  ASSUME ClientTypeOK, CallsOK, UNCHANGED executed, NEW c \in Calls,
         NEW r \in Outcomes \ {"none", "ok", "error"}, Finish(c, r),
         \A d \in Calls \ {c} : cur'[d] = cur[d] /\ sent'[d] = sent[d]
  PROVE  CallsOK'
<1>1. pc'[c] \in {"closing", "done"} /\ outcome'[c] = r
  BY DEF Finish, Goto, ClientTypeOK
<1>2. \A d \in Calls \ {c} : pc'[d] = pc[d] /\ outcome'[d] = outcome[d]
  BY DEF Finish, Goto, ClientTypeOK
<1> QED
  BY <1>1, <1>2, OtherCallsKept DEF CallOK, Answered, Outcomes

\* A call that goes on, without a new request.
LEMMA GotoCalls ==
  ASSUME ClientTypeOK, CallsOK, UNCHANGED <<executed, cur, sent, outcome>>, NEW c \in Calls,
         pc[c] \notin {"closing", "done"},
         NEW p \in {"attempt", "failed", "connect", "hello", "greet", "connfail"},
         Goto(c, p)
  PROVE  CallsOK'
<1>1. outcome[c] = "none"
  BY DEF CallsOK, CallOK
<1>2. pc'[c] = p /\ \A d \in Calls \ {c} : pc'[d] = pc[d]
  BY DEF Goto, ClientTypeOK
<1> QED
  BY <1>1, <1>2, OtherCallsKept DEF CallOK, Answered

\* A call that has taken an id for a request.
LEMMA TakeIdCalls ==
  ASSUME ClientTypeOK, CallsOK, NEW c \in Calls, TakeId(c)
  PROVE  /\ cur'[c] \in sent'[c] /\ cur'[c] > 0 /\ outcome[c] = "none"
         /\ \A d \in Calls \ {c} : cur'[d] = cur[d] /\ sent'[d] = sent[d]
BY DEF TakeId, ClientTypeOK, CallsOK, CallOK

LEMMA ProgressCalls ==
  ASSUME WireTypeOK, ClientTypeOK, ReaderHasSocket, RepliesOK, CallsOK,
         UNCHANGED executed, NEW c \in Calls, NEW listening, Progress(c, listening)
  PROVE  CallsOK'
<1> USE DEF Continue
<1>1. CASE NotConnected(c)
  BY <1>1, GotoCalls DEF NotConnected
<1>2. CASE SendRequest(c)
  <2>1. TakeId(c) /\ Goto(c, "reading") /\ UNCHANGED outcome
    BY <1>2 DEF SendRequest
  <2>2. pc'[c] = "reading" /\ \A d \in Calls \ {c} : pc'[d] = pc[d]
    BY <2>1 DEF Goto, ClientTypeOK
  <2>3. QED
    BY <2>1, <2>2, TakeIdCalls, OtherCallsKept DEF CallOK, Answered
<1>3. CASE SendFails(c)
  <2>1. TakeId(c) /\ Goto(c, "failed") /\ UNCHANGED outcome
    BY <1>3 DEF SendFails
  <2>2. pc'[c] = "failed" /\ \A d \in Calls \ {c} : pc'[d] = pc[d]
    BY <2>1 DEF Goto, ClientTypeOK
  <2>3. QED
    BY <2>1, <2>2, TakeIdCalls, OtherCallsKept DEF CallOK, Answered
<1>4. CASE ReadReply(c)
  <2> DEFINE f == Head(down[sock])
  <2>1. pc[c] = "reading" /\ sock \in Conns /\ down[sock] # <<>> /\ f.id = cur[c]
    BY <1>4 DEF ReadReply, Incoming, ReaderHasSocket, Answers
  <2>2. FrameOK(f, executed)
    BY <2>1 DEF RepliesOK, WireTypeOK
  <2>3. cur[c] \in sent[c] /\ cur[c] > 0 /\ cur[c] \in Nat
    BY <2>1 DEF CallsOK, CallOK, ClientTypeOK
  <2>4. cur[c] \in executed
    BY <2>1, <2>2, <2>3 DEF FrameOK
  <2>5. pc'[c] \in {"closing", "done"} /\ outcome'[c] \in {"ok", "error"}
    BY <1>4 DEF ReadReply, Finish, Goto, ClientTypeOK
  <2>6. \A d \in Calls \ {c} : pc'[d] = pc[d] /\ outcome'[d] = outcome[d]
    BY <1>4 DEF ReadReply, Finish, Goto, ClientTypeOK
  <2>7. UNCHANGED <<cur, sent>>
    BY <1>4 DEF ReadReply
  <2>8. QED
    BY <2>3, <2>4, <2>5, <2>6, <2>7, OtherCallsKept DEF CallOK, Answered
<1>5. CASE DiscardStale(c)
  <2>1. UNCHANGED <<cur, sent>> /\ pc[c] = "reading"
    BY <1>5 DEF DiscardStale, Incoming
  <2>2. CASE Finish(c, "timeout")
    BY <2>1, <2>2, FinishCalls DEF Outcomes
  <2>3. CASE Continue(c, "reading")
    <3>1. pc' = pc
      BY <2>1, <2>3 DEF Goto, ClientTypeOK
    <3>2. QED
      BY <2>1, <2>3, <3>1, CallsKept
  <2>4. QED
    BY <1>5, <2>2, <2>3 DEF DiscardStale
<1>6. CASE ReadFails(c)
  BY <1>6, GotoCalls DEF ReadFails
<1>7. CASE CloseAfterFailure(c)
  <2>1. CASE Finish(c, "lost")
    BY <1>7, <2>1, FinishCalls DEF CloseAfterFailure, Outcomes
  <2>2. CASE ~Finish(c, "lost")
    BY <1>7, <2>2, GotoCalls DEF CloseAfterFailure
  <2>3. QED
    BY <2>1, <2>2
<1>8. ASSUME NEW k \in Conns, OpenSocket(c, k, listening)
      PROVE  CallsOK'
  BY <1>8, GotoCalls DEF OpenSocket
<1>9. CASE OpenFails(c)
  BY <1>9, GotoCalls DEF OpenFails
<1>10. CASE ReadHandshake(c)
  <2>1. CASE Finish(c, "refused")
    BY <1>10, <2>1, FinishCalls DEF ReadHandshake, Outcomes
  <2>2. CASE ~Finish(c, "refused")
    BY <1>10, <2>2, GotoCalls DEF ReadHandshake, Incoming
  <2>3. QED
    BY <2>1, <2>2
<1>11. CASE HandshakeFails(c)
  BY <1>11, GotoCalls DEF HandshakeFails
<1>12. CASE Greet(c)
  <2>1. CASE Finish(c, "crashed")
    BY <1>12, <2>1, FinishCalls DEF Greet, Outcomes
  <2>2. CASE Kind[c] = "connect" /\ Finish(c, "ok")
    <3>1. pc'[c] = "done" /\ \A d \in Calls \ {c} : pc'[d] = pc[d] /\ outcome'[d] = outcome[d]
      BY <2>2 DEF Finish, Goto, ClientTypeOK
    <3>2. UNCHANGED <<cur, sent>>
      BY <1>12 DEF Greet
    <3>3. QED
      BY <2>2, <3>1, <3>2, OtherCallsKept DEF CallOK, Answered
  <2>3. CASE NextAttempt(c)
    BY <1>12, <2>3, GotoCalls DEF Greet, NextAttempt
  <2>4. QED
    BY <1>12, <2>1, <2>2, <2>3 DEF Greet
<1>13. CASE CloseAfterConnectFailure(c)
  <2>1. CASE Finish(c, "unreachable")
    BY <1>13, <2>1, FinishCalls DEF CloseAfterConnectFailure, Outcomes
  <2>2. CASE ~Finish(c, "unreachable")
    BY <1>13, <2>2, GotoCalls DEF CloseAfterConnectFailure, NextAttempt
  <2>3. QED
    BY <2>1, <2>2
<1>14. CASE Close(c)
  <2>1. UNCHANGED <<cur, sent>> /\ pc[c] = "closing" /\ pc'[c] = "done"
    BY <1>14 DEF Close, Goto, ClientTypeOK
  <2>2. \A d \in Calls \ {c} : pc'[d] = pc[d] /\ outcome'[d] = outcome[d]
    BY <1>14 DEF Close, Goto, ClientTypeOK
  <2>3. Kind[c] # "close" => outcome'[c] = outcome[c]
    BY <1>14, <2>1 DEF Close, CallsOK, CallOK, ClientTypeOK
  <2>4. Answered(c)' => Answered(c)
    BY <2>3 DEF Answered
  <2>5. QED
    BY <2>1, <2>2, <2>4, OtherCallsKept DEF CallsOK, CallOK
<1> QED
  BY <1>1, <1>2, <1>3, <1>4, <1>5, <1>6, <1>7, <1>8, <1>9, <1>10, <1>11, <1>12, <1>13, <1>14
     DEF Progress

LEMMA StartCalls ==
  ASSUME ClientTypeOK, CallsOK, UNCHANGED executed, NEW c \in Calls, Start(c)
  PROVE  CallsOK'
<1>1. UNCHANGED <<cur, sent>> /\ pc[c] = "idle"
  BY DEF Start
<1>2. CASE Finish(c, "lost")
  BY <1>1, <1>2, FinishCalls DEF Outcomes
<1>3. CASE ~Finish(c, "lost")
  <2>1. UNCHANGED outcome /\ outcome[c] = "none"
    BY <1>1, <1>3 DEF Start, CallsOK, CallOK
  <2>2. PICK p \in {"connect", "closing", "attempt"} :
          Goto(c, p) /\ (p = "closing" => Kind[c] = "close")
    BY <1>3 DEF Start
  <2>3. pc'[c] = p /\ \A d \in Calls \ {c} : pc'[d] = pc[d]
    BY <2>2 DEF Goto, ClientTypeOK
  <2>4. QED
    BY <1>1, <2>1, <2>2, <2>3, OtherCallsKept DEF CallOK, Answered
<1> QED
  BY <1>2, <1>3

LEMMA ClientFaultCalls ==
  ASSUME ClientTypeOK, CallsOK, UNCHANGED executed, NEW c \in Calls, ClientFault(c)
  PROVE  CallsOK'
<1>1. CASE SendTimesOut(c)
  BY <1>1, TakeIdCalls, FinishCalls DEF SendTimesOut, Outcomes
<1>2. CASE Interrupt(c)
  BY <1>2, FinishCalls DEF Interrupt, Outcomes
<1> QED
  BY <1>1, <1>2 DEF ClientFault

-----------------------------------------------------------------------------
(* The theorem *)

LEMMA InitAnswers == Init => AnswerInv
BY DEF Init, WireInit, ClientInit, ServerInit, Fresh, AnswerInv, RepliesOK, RunningOK, CallsOK,
       CallOK, Answered

LEMMA NextAnswers == IInv /\ AnswerInv /\ [Next]_vars => AnswerInv'
<1> SUFFICES ASSUME IInv, AnswerInv, [Next]_vars PROVE AnswerInv'
  OBVIOUS
<1>1. /\ WireTypeOK /\ ClientTypeOK /\ ReaderHasSocket
      /\ ServerTypeOK /\ BusyHasItem
      /\ RepliesOK /\ RunningOK /\ CallsOK
  BY ReaderHasSocketHolds DEF IInv, SocketInv, AgentInv, AnswerInv
<1>2. ASSUME UNCHANGED <<executed, down>> PROVE RepliesOK'
  BY <1>1, <1>2 DEF RepliesOK
<1>3. ASSUME UNCHANGED serverVars PROVE RunningOK' /\ UNCHANGED executed
  BY <1>1, <1>3 DEF serverVars, RunningOK
<1>4. ASSUME UNCHANGED clientVars, executed \subseteq executed' PROVE CallsOK'
  BY <1>1, <1>4, CallsKept DEF clientVars
<1>5. ASSUME NEW c \in Calls, Begin(c) PROVE AnswerInv'
  <2>1. UNCHANGED <<down, serverVars>>
    BY <1>5 DEF Begin, Start, wireVars
  <2>2. QED
    BY <1>1, <1>2, <1>3, <1>5, <2>1, StartCalls DEF Begin, AnswerInv
<1>6. ASSUME NEW c \in Calls, ClientStep(c) PROVE AnswerInv'
  <2>1. Progress(c, agent = "up") /\ UNCHANGED serverVars /\ (agent = "up") \in BOOLEAN
    BY <1>6 DEF ClientStep
  <2>2. RunningOK' /\ UNCHANGED executed
    BY <1>3, <2>1
  <2>3. RepliesOK'
    BY <1>1, <2>1, <2>2, ProgressReplies, RepliesKept
  <2>4. CallsOK'
    BY <1>1, <2>1, <2>2, ProgressCalls
  <2>5. QED
    BY <2>2, <2>3, <2>4 DEF AnswerInv
<1>7. ASSUME NEW c \in Calls, ClientFaults(c) PROVE AnswerInv'
  <2>1. UNCHANGED <<down, serverVars>>
    BY <1>7 DEF ClientFaults, ClientFault, SendTimesOut, Interrupt, ClientWrites, wireVars
  <2>2. QED
    BY <1>1, <1>2, <1>3, <1>7, <2>1, ClientFaultCalls DEF ClientFaults, AnswerInv
<1>8. ASSUME NEW k \in Conns, NetworkStep(k) PROVE AnswerInv'
  BY <1>1, <1>4, <1>8, NetworkReplies, NetworkRunning DEF NetworkStep, AnswerInv
<1>9. ASSUME NEW k \in Conns, ResetStep(k) PROVE AnswerInv'
  <2>1. UNCHANGED executed /\ \A j \in Conns : down'[j] \in {<<>>, down[j]}
    BY <1>9, AgentClosesReplies DEF ResetStep, Reset
  <2>2. RepliesOK'
    BY <1>1, <2>1, RepliesKept
  <2>3. RunningOK'
    BY <1>1, <1>9, DisownRunning DEF ResetStep, Reset
  <2>4. CallsOK'
    BY <1>1, <1>9, <2>1, CallsKept DEF ResetStep, OtherClientVars
  <2>5. QED
    BY <2>2, <2>3, <2>4 DEF AnswerInv
<1>10. CASE SurveyStep
  <2>1. UNCHANGED executed /\ surveying \in Conns \cup {NoConn}
    BY <1>1, <1>10 DEF SurveyStep, FinishHandshake, ServerTypeOK
  <2>2. \A j \in Conns : down'[j] \in {down[j], Append(down[j], Welcome)}
    BY <1>1, <1>10, <2>1, DeliveredReplies DEF SurveyStep, FinishHandshake
  <2>3. RepliesOK'
    BY <1>1, <2>1, <2>2, UnrelatedFrames, RepliesKept
  <2>4. QED
    BY <1>1, <1>4, <1>10, <2>1, <2>3 DEF SurveyStep, FinishHandshake, RunningOK, AnswerInv
<1>11. CASE XCTestStep
  BY <1>1, <1>4, <1>11, XCTestThreadReplies DEF XCTestStep, AnswerInv
<1>12. CASE CrashStep
  <2>1. RepliesOK' /\ RunningOK' /\ UNCHANGED executed
    BY <1>1, <1>12, DownReplies DEF CrashStep, Crash, Down
  <2>2. CallsOK'
    BY <1>1, <1>12, <2>1, CallsKept DEF CrashStep, OtherClientVars
  <2>3. QED
    BY <2>1, <2>2 DEF AnswerInv
<1>13. CASE RestartStep
  <2>1. UNCHANGED <<executed, down, loop, running>>
    BY <1>13 DEF RestartStep, Restart, wireVars
  <2>2. QED
    BY <1>1, <1>2, <1>4, <1>13, <2>1 DEF RestartStep, RunningOK, AnswerInv
<1>14. CASE UNCHANGED vars
  BY <1>2, <1>3, <1>4, <1>14 DEF vars, wireVars, serverVars, AnswerInv
<1> QED
  BY <1>5, <1>6, <1>7, <1>8, <1>9, <1>10, <1>11, <1>12, <1>13, <1>14 DEF Next, AllOver

\* A call that was given an answer - a result, or the agent's error - sent the
\* request it answers, last, and the agent executed it: no late, stale or
\* malformed reply is ever taken for it, over all reconnects and restarts.
THEOREM AnswersBelongToTheirCalls == Spec => []AnswersAreOwn
<1>1. AnswerInv => AnswersAreOwn
  BY DEF AnswerInv, CallsOK, Answered, AnswersAreOwn
<1>2. QED
  BY <1>1, InitAnswers, NextAnswers, Invariance, PTL DEF Spec


-----------------------------------------------------------------------------
(* A user that makes one call at a time *)

\* Never more calls overlap than there are threads to make them.
Overlapping == IsFiniteSet(Active) /\ Cardinality(Active) <= MaxActive

\* Whoever is about to connect has no handshake any more, a connect() that
\* has not begun has none yet, and a handshake is that of the socket.
HandshakeInv ==
  /\ \A c \in Calls : pc[c] \in {"connect", "hello", "connfail"} => handshake = NoConn
  /\ \A c \in Calls : Kind[c] = "connect" /\ pc[c] = "idle" => handshake = NoConn
  /\ handshake # NoConn => handshake = sock
  /\ \A c \in Calls : Kind[c] = "close" => pc[c] \in {"idle", "closing", "done"}
  /\ \A c \in Calls : pc[c] # "idle" /\ OverSession(c) => SessionExists


\* A client that is connected once and then used through its session, one
\* call at a time.
SoloUser ==
  /\ MaxActive <= 1
  /\ \A c \in Calls : Kind[c] # "ping"
  /\ \A c, d \in Calls : Kind[c] = "connect" /\ Kind[d] = "connect" => c = d

LEMMA FewerOverlap ==
  ASSUME Overlapping, Active' \subseteq Active
  PROVE  Overlapping'
<1>1. IsFiniteSet(Active') /\ Cardinality(Active') <= Cardinality(Active)
  BY FS_Subset DEF Overlapping
<1>2. Cardinality(Active') \in Nat /\ Cardinality(Active) \in Nat
  BY <1>1, FS_CardinalityType DEF Overlapping
<1> QED
  BY <1>1, <1>2, ClientAssumption DEF Overlapping

\* Only the start of a call adds to those that overlap.
LEMMA StartOverlap ==
  ASSUME ClientTypeOK, Overlapping, NEW c \in Calls, Start(c)
  PROVE  Overlapping'
<1>1. Active' \subseteq Active \cup {c}
  <2>1. \A d \in Calls \ {c} : pc'[d] = pc[d]
    BY DEF Start, Finish, Goto, ClientTypeOK
  <2>2. QED
    BY <2>1 DEF Active
<1>2. /\ IsFiniteSet(Active \cup {c}) /\ Cardinality(Active \cup {c}) <= Cardinality(Active) + 1
      /\ Cardinality(Active) \in Nat /\ Cardinality(Active \cup {c}) \in Nat
  <2>1. IsFiniteSet(Active) /\ Cardinality(Active) \in Nat
    BY FS_CardinalityType DEF Overlapping
  <2>2. /\ IsFiniteSet(Active \cup {c})
        /\ Cardinality(Active \cup {c})
             = IF c \in Active THEN Cardinality(Active) ELSE Cardinality(Active) + 1
    BY <2>1, FS_AddElement
  <2>3. QED
    BY <2>1, <2>2
<1>3. /\ IsFiniteSet(Active') /\ Cardinality(Active') <= Cardinality(Active \cup {c})
      /\ Cardinality(Active') \in Nat
  BY <1>1, <1>2, FS_Subset, FS_CardinalityType
<1>4. Cardinality(Active) < MaxActive
  BY DEF Start
<1> QED
  BY <1>2, <1>3, <1>4, ClientAssumption DEF Overlapping

LEMMA RunningOverlap ==
  ASSUME Overlapping, NEW c \in Calls, pc[c] \notin {"idle", "done"},
         \A d \in Calls \ {c} : pc'[d] = pc[d]
  PROVE  Overlapping'
BY FewerOverlap DEF Active

\* One call at a time: when one runs, no other does.
LEMMA Alone ==
  ASSUME SoloUser, Overlapping, NEW c \in Calls, pc[c] \notin {"idle", "done"}
  PROVE  \A d \in Calls \ {c} : pc[d] \in {"idle", "done"}
<1> SUFFICES ASSUME NEW d \in Calls \ {c}, pc[d] \notin {"idle", "done"} PROVE FALSE
  OBVIOUS
<1>1. {c, d} \subseteq Active
  BY DEF Active
<1>2. Cardinality({c, d}) = 2
  <2>1. {c, d} = {c} \cup {d} /\ d \notin {c}
    OBVIOUS
  <2>2. IsFiniteSet({c}) /\ Cardinality({c}) = 1
    BY FS_Singleton
  <2>3. QED
    BY <2>1, <2>2, FS_AddElement
<1>3. 2 <= Cardinality(Active) /\ Cardinality(Active) \in Nat
  BY <1>1, <1>2, FS_Subset, FS_CardinalityType DEF Overlapping
<1> QED
  BY <1>3, ClientAssumption DEF Overlapping, SoloUser

\* A step of call c that makes no new handshake.
LEMMA NoNewHandshake ==
  ASSUME HandshakeInv, NEW c \in Calls, pc'[c] # "idle",
         UNCHANGED handshake \/ handshake' = NoConn,
         UNCHANGED sock \/ handshake' = NoConn,
         \A d \in Calls \ {c} : pc'[d] = pc[d] /\ outcome'[d] = outcome[d],
         pc'[c] \in {"connect", "hello", "connfail"} => handshake' = NoConn,
         Kind[c] = "close" => pc'[c] \in {"closing", "done"},
         outcome[c] = "ok" => outcome'[c] = "ok",
         OverSession(c) => SessionExists
  PROVE  HandshakeInv'
<1>1. SessionExists => SessionExists'
  BY DEF SessionExists
<1>2. \A d \in Calls : pc'[d] \in {"connect", "hello", "connfail"} => handshake' = NoConn
  BY DEF HandshakeInv
<1>3. \A d \in Calls : Kind[d] = "connect" /\ pc'[d] = "idle" => handshake' = NoConn
  BY DEF HandshakeInv
<1>4. handshake' # NoConn => handshake' = sock'
  BY DEF HandshakeInv
<1>5. \A d \in Calls : Kind[d] = "close" => pc'[d] \in {"idle", "closing", "done"}
  BY DEF HandshakeInv
<1>6. \A d \in Calls : pc'[d] # "idle" /\ OverSession(d) => SessionExists'
  BY <1>1 DEF HandshakeInv
<1> QED
  BY <1>2, <1>3, <1>4, <1>5, <1>6 DEF HandshakeInv, OverSession

LEMMA StartHandshake ==
  ASSUME ClientTypeOK, CallsOK, HandshakeInv, NEW c \in Calls, Start(c)
  PROVE  HandshakeInv'
<1>1. /\ UNCHANGED <<sock, handshake>> /\ pc[c] = "idle" /\ outcome[c] = "none"
      /\ OverSession(c) => SessionExists
  BY DEF Start, CallsOK, CallOK
<1>2. \A d \in Calls \ {c} : pc'[d] = pc[d] /\ outcome'[d] = outcome[d]
  BY DEF Start, Finish, Goto, ClientTypeOK
<1>3. \/ pc'[c] \in {"closing", "done", "attempt"}
      \/ pc'[c] = "connect" /\ Kind[c] = "connect"
  BY DEF Start, Finish, Goto, ClientTypeOK
<1>4. Kind[c] = "close" => pc'[c] \in {"closing", "done"}
  BY DEF Start, Finish, Goto, ClientTypeOK
<1>5. Kind[c] = "connect" => handshake = NoConn
  BY <1>1 DEF HandshakeInv
<1> QED
  BY <1>1, <1>2, <1>3, <1>4, <1>5, NoNewHandshake

\* The step of a running call: who runs, and what a step leaves alone.
LEMMA RunningCall ==
  ASSUME ClientTypeOK, CallsOK, HandshakeInv, NEW c \in Calls, NEW p \in PCs \ {"idle"},
         pc[c] \notin {"idle", "done", "closing"},
         Goto(c, p), UNCHANGED outcome \/ \E r : outcome' = [outcome EXCEPT ![c] = r],
         UNCHANGED handshake \/ handshake' = NoConn,
         UNCHANGED sock \/ handshake' = NoConn,
         p \in {"connect", "hello", "connfail"} => handshake' = NoConn
  PROVE  HandshakeInv'
<1>1. /\ pc'[c] = p /\ outcome[c] = "none"
      /\ \A d \in Calls \ {c} : pc'[d] = pc[d] /\ outcome'[d] = outcome[d]
  BY DEF Goto, ClientTypeOK, CallsOK, CallOK
<1>2. Kind[c] # "close" /\ (OverSession(c) => SessionExists)
  BY DEF HandshakeInv
<1> QED
  BY <1>1, <1>2, NoNewHandshake

LEMMA ProgressHandshake ==
  ASSUME SoloUser, Overlapping, ClientTypeOK, CallsOK, HandshakeInv,
         NEW c \in Calls, NEW listening, Progress(c, listening)
  PROVE  HandshakeInv'
<1>1. pc[c] \in {"connect", "hello", "connfail"} => handshake = NoConn
  BY DEF HandshakeInv
<1>2. ASSUME NEW r, Finish(c, r)
      PROVE  /\ \E p \in {"closing", "done"} : Goto(c, p)
             /\ outcome' = [outcome EXCEPT ![c] = r]
  BY <1>2 DEF Finish
<1>3. ASSUME NextAttempt(c) PROVE Goto(c, "attempt") /\ UNCHANGED outcome
  BY <1>3 DEF NextAttempt
<1>4. {"closing", "done", "attempt", "failed", "reading", "connect", "hello", "greet", "connfail"}
        \subseteq PCs \ {"idle"}
  BY DEF PCs
<1>5. CASE NotConnected(c) \/ SendRequest(c) \/ SendFails(c) \/ ReadFails(c)
  BY <1>4, <1>5, RunningCall DEF NotConnected, SendRequest, SendFails, TakeId, ReadFails,
                                 Continue
<1>6. CASE ReadReply(c) \/ DiscardStale(c)
  <2>1. UNCHANGED <<sock, handshake>> /\ pc[c] = "reading"
    BY <1>6 DEF ReadReply, DiscardStale, Incoming
  <2>2. \/ Goto(c, "reading") /\ UNCHANGED outcome
        \/ \E r : Finish(c, r)
    BY <1>6 DEF ReadReply, DiscardStale, Continue
  <2>3. QED
    BY <1>2, <1>4, <2>1, <2>2, RunningCall
<1>7. CASE CloseAfterFailure(c)
  BY <1>2, <1>4, <1>7, RunningCall DEF CloseAfterFailure, CloseSocket
<1>8. CASE CloseAfterConnectFailure(c)
  BY <1>2, <1>3, <1>4, <1>8, RunningCall DEF CloseAfterConnectFailure, CloseSocket
<1>9. ASSUME NEW k \in Conns, OpenSocket(c, k, listening) PROVE HandshakeInv'
  BY <1>1, <1>4, <1>9, RunningCall DEF OpenSocket, Continue
<1>10. CASE OpenFails(c) \/ HandshakeFails(c)
  BY <1>1, <1>4, <1>10, RunningCall DEF OpenFails, HandshakeFails, Continue
<1>11. CASE Greet(c)
  BY <1>2, <1>3, <1>4, <1>11, RunningCall DEF Greet
<1>12. CASE ReadHandshake(c)
  <2>1. pc[c] = "hello" /\ UNCHANGED sock
    BY <1>12 DEF ReadHandshake, Incoming
  <2>2. CASE Head(down[sock]).kind # "welcome"
    <3>1. Finish(c, "refused") /\ UNCHANGED handshake
      BY <1>12, <2>2 DEF ReadHandshake
    <3>2. QED
      BY <1>2, <1>4, <2>1, <3>1, RunningCall
  <2>3. CASE Head(down[sock]).kind = "welcome"
    <3>1. Goto(c, "greet") /\ UNCHANGED outcome /\ handshake' = sock
      BY <1>12, <2>3 DEF ReadHandshake, Continue
    <3>2. pc'[c] = "greet" /\ \A d \in Calls \ {c} : pc'[d] = pc[d]
      BY <3>1 DEF Goto, ClientTypeOK
    <3>3. \A d \in Calls \ {c} : pc[d] \in {"idle", "done"}
      BY <2>1, Alone
    <3>4. Kind[c] # "close" /\ (OverSession(c) => SessionExists)
      BY <2>1 DEF HandshakeInv
    <3>5. Kind[c] = "connect" \/ SessionExists
      BY <3>4, ClientAssumption DEF SoloUser, OverSession, Kinds
    <3>6. \A d \in Calls : Kind[d] = "connect" => pc'[d] # "idle"
      BY <3>2, <3>5 DEF SoloUser, SessionExists, CallsOK, CallOK
    <3>7. \A d \in Calls : pc'[d] \notin {"connect", "hello", "connfail"}
      BY <3>2, <3>3
    <3>8. \A d \in Calls : Kind[d] = "close" => pc'[d] \in {"idle", "closing", "done"}
      BY <3>2, <3>4 DEF HandshakeInv
    <3>9. SessionExists' = SessionExists
      BY <3>1 DEF SessionExists
    <3>10. \A d \in Calls : pc'[d] # "idle" /\ OverSession(d) => SessionExists'
      BY <3>2, <3>4, <3>9 DEF HandshakeInv
    <3>11. QED
      BY <2>1, <3>1, <3>6, <3>7, <3>8, <3>10 DEF HandshakeInv, OverSession
  <2>4. QED
    BY <2>2, <2>3
<1>13. CASE Close(c)
  <2>1. /\ pc[c] = "closing" /\ pc'[c] = "done" /\ handshake' = NoConn
        /\ \A d \in Calls \ {c} : pc'[d] = pc[d] /\ outcome'[d] = outcome[d]
        /\ outcome[c] = "ok" => outcome'[c] = "ok"
    BY <1>13 DEF Close, CloseSocket, Goto, ClientTypeOK
  <2>2. OverSession(c) => SessionExists
    BY <2>1 DEF HandshakeInv
  <2>3. QED
    BY <2>1, <2>2, NoNewHandshake
<1> QED
  BY <1>5, <1>6, <1>7, <1>8, <1>9, <1>10, <1>11, <1>12, <1>13 DEF Progress

LEMMA ClientFaultHandshake ==
  ASSUME ClientTypeOK, CallsOK, HandshakeInv, NEW c \in Calls, ClientFault(c)
  PROVE  HandshakeInv'
<1>1. PICK p \in {"closing", "done"} :
        Goto(c, p) /\ \E r : outcome' = [outcome EXCEPT ![c] = r]
  BY DEF ClientFault, SendTimesOut, Interrupt, Finish
<1>2. UNCHANGED <<sock, handshake>> /\ pc[c] \in {"attempt", "reading", "hello"}
  BY DEF ClientFault, SendTimesOut, TakeId, Interrupt
<1> QED
  BY <1>1, <1>2, RunningCall DEF PCs

LEMMA QuietHandshake ==
  ASSUME UNCHANGED <<sock, handshake, pc, outcome>>, HandshakeInv, Overlapping
  PROVE  HandshakeInv' /\ Overlapping'
<1>1. Active' = Active /\ SessionExists' = SessionExists
  BY DEF Active, SessionExists
<1> QED
  BY <1>1 DEF HandshakeInv, Overlapping, OverSession

LEMMA NextHandshake ==
  SoloUser /\ IInv /\ AnswerInv /\ HandshakeInv /\ Overlapping /\ [Next]_vars
    => HandshakeInv' /\ Overlapping'
<1> SUFFICES ASSUME SoloUser, IInv, AnswerInv, HandshakeInv, Overlapping, [Next]_vars
             PROVE  HandshakeInv' /\ Overlapping'
  OBVIOUS
<1>1. ClientTypeOK /\ CallsOK
  BY DEF IInv, SocketInv, AnswerInv
<1>2. ASSUME NEW c \in Calls, Begin(c) PROVE HandshakeInv' /\ Overlapping'
  BY <1>1, <1>2, StartHandshake, StartOverlap DEF Begin
<1>3. ASSUME NEW c \in Calls, ClientStep(c) PROVE HandshakeInv' /\ Overlapping'
  <2>1. Progress(c, agent = "up")
    BY <1>3 DEF ClientStep
  <2>2. pc[c] \notin {"idle", "done"} /\ \A d \in Calls \ {c} : pc'[d] = pc[d]
    BY <1>1, <2>1 DEF Progress, NotConnected, SendRequest, SendFails, TakeId, ReadReply,
                      DiscardStale, ReadFails, Incoming, CloseAfterFailure, OpenSocket,
                      OpenFails, ReadHandshake, HandshakeFails, Greet, CloseAfterConnectFailure,
                      Close, NextAttempt, Finish, Continue, Goto, ClientTypeOK
  <2>3. QED
    BY <1>1, <2>1, <2>2, ProgressHandshake, RunningOverlap
<1>4. ASSUME NEW c \in Calls, ClientFaults(c) PROVE HandshakeInv' /\ Overlapping'
  <2>1. pc[c] \notin {"idle", "done"} /\ \A d \in Calls \ {c} : pc'[d] = pc[d]
    BY <1>1, <1>4 DEF ClientFaults, ClientFault, SendTimesOut, TakeId, Interrupt, Finish, Goto,
                      ClientTypeOK
  <2>2. QED
    BY <1>1, <1>4, <2>1, ClientFaultHandshake, RunningOverlap DEF ClientFaults
<1>5. ASSUME UNCHANGED OtherClientVars \/ UNCHANGED clientVars
      PROVE  HandshakeInv' /\ Overlapping'
  BY <1>5, QuietHandshake DEF OtherClientVars, clientVars
<1> QED
  BY <1>2, <1>3, <1>4, <1>5 DEF Next, NetworkStep, ResetStep, SurveyStep, XCTestStep, CrashStep,
                                RestartStep, AllOver, vars

LEMMA InitHandshake == Init => HandshakeInv /\ Overlapping
<1> SUFFICES ASSUME Init PROVE HandshakeInv /\ Overlapping
  OBVIOUS
<1>1. handshake = NoConn /\ \A c \in Calls : pc[c] = "idle"
  BY DEF Init, ClientInit
<1>2. Active = {}
  BY <1>1 DEF Active
<1>3. Overlapping
  BY <1>2, FS_EmptySet, ClientAssumption DEF Overlapping
<1> QED
  BY <1>1, <1>3 DEF HandshakeInv

\* The handshake a client reports is that of the socket it holds, over all
\* reconnects, for a user that connects once and makes one call at a time.
THEOREM HandshakeStaysCurrent ==
  ASSUME SoloUser
  PROVE  Spec => []HandshakeIsCurrent
<1>1. HandshakeInv => HandshakeIsCurrent
  BY DEF HandshakeInv, HandshakeIsCurrent
<1>2. SoloUser
  OBVIOUS
<1>3. AnswerInv /\ IInv /\ HandshakeInv /\ Overlapping /\ [Next]_vars
        => AnswerInv' /\ HandshakeInv' /\ Overlapping'
  BY <1>2, NextAnswers, NextHandshake
<1>4. QED
  BY <1>1, <1>3, InitAnswers, InitHandshake, Invariance, PTL DEF Spec
=============================================================================
