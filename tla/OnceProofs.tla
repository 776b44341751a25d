----------------------------- MODULE OnceProofs -----------------------------
(***************************************************************************)
(* A request is executed at most once, however often its call is retried,  *)
(* its connection lost or the agent restarted.  Each id is in one place:   *)
(* on its way to the agent, in the queue, or executed; a step moves it     *)
(* onward, or loses it.                                                    *)
(***************************************************************************)
EXTENDS AnswerProofs

\* A frame the agent will queue.
IsRequest(f) == f.kind \in {"request", "stop"}

\* What is on its way carries an id that was given out, and that is neither
\* queued nor executed.
WireIsAhead ==
  \A k \in Conns : \A i \in DOMAIN up[k] : IsRequest(up[k][i]) =>
    /\ up[k][i].id > 0 /\ up[k][i].id <= nextId
    /\ up[k][i].id \notin executed
    /\ \A j \in DOMAIN pending : pending[j].id # up[k][i].id

SentOnce ==
  \A k, l \in Conns : \A i \in DOMAIN up[k], j \in DOMAIN up[l] :
    IsRequest(up[k][i]) /\ IsRequest(up[l][j]) /\ up[k][i].id = up[l][j].id => k = l /\ i = j

QueueIsAhead ==
  \A i \in DOMAIN pending : pending[i].id > 0 /\ pending[i].id <= nextId

ExecutedWereNumbered == \A n \in executed : n > 0 /\ n <= nextId

OnceInv == WireIsAhead /\ SentOnce /\ HandedOverOnce /\ QueueIsAhead /\ ExecutedWereNumbered

-----------------------------------------------------------------------------
\* The requests of k that are still on their way were on their way, d places
\* further back.
Onward(k, d) ==
  \A i \in DOMAIN up'[k] :
    IsRequest(up'[k][i]) => i + d \in DOMAIN up[k] /\ up'[k][i] = up[k][i + d]

WireMovesOnward == \A k \in Conns : \E d \in {0, 1} : Onward(k, d)

\* The queue keeps its ids, or is gone.
QueueKept ==
  \A i \in DOMAIN pending' : i \in DOMAIN pending /\ pending'[i].id = pending[i].id

\* A step that only moves requests onward, or loses them.
LEMMA OnwardOnce ==
  ASSUME WireTypeOK, WireTypeOK', ServerTypeOK, nextId \in Nat, nextId' \in Nat, OnceInv,
         WireMovesOnward, QueueKept, UNCHANGED executed, nextId' >= nextId
  PROVE  OnceInv'
<1>1. /\ \A n \in executed : n \in Nat
      /\ \A i \in DOMAIN pending : pending[i] \in Item /\ pending[i].id \in Nat
      /\ \A k \in Conns : \A i \in DOMAIN up[k] : i \in Nat /\ up[k][i].id \in Nat
  <2>1. \A i \in DOMAIN pending : pending[i] \in Item
    BY DEF ServerTypeOK
  <2>2. \A k \in Conns : up[k] \in Seq(UpFrame)
    BY DEF WireTypeOK
  <2>3. \A k \in Conns : \A i \in DOMAIN up[k] : i \in Nat /\ up[k][i] \in UpFrame
    BY <2>2
  <2>4. QED
    BY <2>1, <2>3 DEF Item, UpFrame, ServerTypeOK
<1>2. \A m \in Nat : m <= nextId => m <= nextId'
  OBVIOUS
<1>3. ASSUME NEW k \in Conns, NEW i \in DOMAIN up'[k], IsRequest(up'[k][i])
      PROVE  \E j \in DOMAIN up[k] : up'[k][i] = up[k][j]
  BY <1>3 DEF WireMovesOnward, Onward
<1>4. WireIsAhead'
  BY <1>1, <1>2, <1>3 DEF OnceInv, WireIsAhead, QueueKept
<1>5. SentOnce'
  <2> SUFFICES ASSUME NEW k \in Conns, NEW l \in Conns,
                      NEW i \in DOMAIN up'[k], NEW j \in DOMAIN up'[l],
                      IsRequest(up'[k][i]), IsRequest(up'[l][j]),
                      up'[k][i].id = up'[l][j].id
               PROVE  k = l /\ i = j
    BY DEF SentOnce
  <2>1. k = l
    BY <1>3 DEF OnceInv, SentOnce
  <2>2. PICK d \in {0, 1} : Onward(k, d)
    BY DEF WireMovesOnward
  <2>3. /\ i + d \in DOMAIN up[k] /\ up'[k][i] = up[k][i + d]
        /\ j + d \in DOMAIN up[k] /\ up'[k][j] = up[k][j + d]
    BY <2>1, <2>2 DEF Onward
  <2>4. i + d = j + d
    BY <2>1, <2>3 DEF OnceInv, SentOnce
  <2>5. i \in Int /\ j \in Int
    <3>1. up'[k] \in Seq(UpFrame)
      BY DEF WireTypeOK
    <3>2. QED
      BY <2>1, <3>1
  <2> QED
    BY <2>1, <2>4, <2>5
<1>6. HandedOverOnce' /\ QueueIsAhead' /\ ExecutedWereNumbered'
  BY <1>1, <1>2 DEF OnceInv, HandedOverOnce, QueueIsAhead, ExecutedWereNumbered, QueueKept
<1> QED
  BY <1>4, <1>5, <1>6 DEF OnceInv


-----------------------------------------------------------------------------
(* Steps that only move requests onward *)

\* The agent takes the first frame off a connection.
LEMMA ConsumeOnward ==
  ASSUME WireTypeOK, NEW k \in Conns, up[k] # <<>>, Consume(k)
  PROVE  WireMovesOnward
<1>1. Onward(k, 1)
  <2>1. up[k] \in Seq(UpFrame) /\ up'[k] = Tail(up[k])
    BY DEF WireTypeOK, Consume
  <2>2. \A i \in DOMAIN up'[k] : i + 1 \in DOMAIN up[k] /\ up'[k][i] = up[k][i + 1]
    BY <2>1
  <2>3. QED
    BY <2>2 DEF Onward
<1>2. \A l \in Conns \ {k} : Onward(l, 0)
  <2> SUFFICES ASSUME NEW l \in Conns \ {k} PROVE Onward(l, 0)
    OBVIOUS
  <2>1. up[l] \in Seq(UpFrame) /\ up'[l] = up[l]
    BY DEF WireTypeOK, Consume
  <2>2. QED
    BY <2>1 DEF Onward
<1> QED
  BY <1>1, <1>2 DEF WireMovesOnward

\* Connections are emptied, replaced or left alone, or are given a frame that
\* is no request.
LEMMA LeftAloneOnward ==
  ASSUME WireTypeOK,
         \A k \in Conns : \/ up'[k] \in {<<>>, <<Hello>>, up[k]}
                          \/ \E f : ~IsRequest(f) /\ up'[k] = Append(up[k], f)
  PROVE  WireMovesOnward
<1> SUFFICES ASSUME NEW k \in Conns PROVE Onward(k, 0)
  BY DEF WireMovesOnward
<1>1. up[k] \in Seq(UpFrame)
  BY DEF WireTypeOK
<1>2. CASE up'[k] = <<>>
  BY <1>2 DEF Onward
<1>3. CASE up'[k] = <<Hello>>
  BY <1>3 DEF Onward, IsRequest, Hello
<1>4. CASE up'[k] = up[k]
  BY <1>1, <1>4 DEF Onward
<1>5. ASSUME NEW f, ~IsRequest(f), up'[k] = Append(up[k], f) PROVE Onward(k, 0)
  <2>1. \A i \in DOMAIN up'[k] :
          \/ i + 0 \in DOMAIN up[k] /\ up'[k][i] = up[k][i + 0]
          \/ up'[k][i] = f
    BY <1>1, <1>5
  <2>2. QED
    BY <1>5, <2>1 DEF Onward
<1> QED
  BY <1>2, <1>3, <1>4, <1>5

\* The agent's end of some connections goes away.
LEMMA AgentClosesOnward ==
  ASSUME WireTypeOK, NEW K, NEW lost, NEW replies, AgentCloses(K, lost, replies)
  PROVE  WireMovesOnward
<1>1. \A k \in Conns : up'[k] \in {<<>>, up[k]}
  BY DEF AgentCloses
<1> QED
  BY <1>1, LeftAloneOnward

\* The loss of a connection takes nothing out of the queue.
LEMMA DisownKeeps ==
  ASSUME ServerTypeOK, NEW k, Disown(k)
  PROVE  QueueKept
<1>1. \A item \in Item : Orphaned(item, k).id = item.id
  BY DEF Orphaned, Item
<1>2. \A i \in DOMAIN pending : pending[i] \in Item
  BY DEF ServerTypeOK
<1> QED
  BY <1>1, <1>2 DEF Disown, QueueKept

LEMMA UnchangedKeeps ==
  ASSUME UNCHANGED pending
  PROVE  QueueKept
BY DEF QueueKept

\* A truncated frame swallows the frame behind it.
LEMMA GarbledOnward ==
  ASSUME WireTypeOK, NEW k \in Conns, Len(up[k]) > 1,
         up' = [up EXCEPT ![k] = <<Partial>> \o SubSeq(@, 3, Len(@))]
  PROVE  WireMovesOnward
<1>1. Onward(k, 1)
  <2>1. up[k] \in Seq(UpFrame) /\ up'[k] = <<Partial>> \o SubSeq(up[k], 3, Len(up[k]))
    BY DEF WireTypeOK
  <2>2. \A i \in DOMAIN up'[k] :
          \/ i + 1 \in DOMAIN up[k] /\ up'[k][i] = up[k][i + 1]
          \/ up'[k][i] = Partial
    BY <2>1
  <2>3. QED
    BY <2>2 DEF Onward, IsRequest, Partial
<1>2. \A l \in Conns \ {k} : Onward(l, 0)
  <2> SUFFICES ASSUME NEW l \in Conns \ {k} PROVE Onward(l, 0)
    OBVIOUS
  <2>1. up[l] \in Seq(UpFrame) /\ up'[l] = up[l]
    BY DEF WireTypeOK
  <2>2. QED
    BY <2>1 DEF Onward
<1> QED
  BY <1>1, <1>2 DEF WireMovesOnward

\* What the network queue does, except to queue a request.
LEMMA NetworkOnward ==
  ASSUME WireTypeOK, ServerTypeOK, NEW k \in Conns, Network(k), ~ReceiveRequest(k)
  PROVE  WireMovesOnward /\ QueueKept
<1>1. CASE AcceptHandshake(k)
  BY <1>1, ConsumeOnward, UnchangedKeeps DEF AcceptHandshake, Arriving
<1>2. CASE RefuseHandshake(k)
  BY <1>2, AgentClosesOnward, DisownKeeps DEF RefuseHandshake
<1>3. CASE RejectMalformed(k)
  BY <1>3, ConsumeOnward, UnchangedKeeps DEF RejectMalformed, Arriving, serverVars
<1>4. CASE ReceiveGarbled(k)
  BY <1>4, GarbledOnward, AgentClosesOnward, DisownKeeps, UnchangedKeeps DEF ReceiveGarbled
<1>5. CASE ConnectionEnds(k)
  BY <1>5, AgentClosesOnward, DisownKeeps DEF ConnectionEnds
<1> QED
  BY <1>1, <1>2, <1>3, <1>4, <1>5 DEF Network

LEMMA DownOnward ==
  ASSUME WireTypeOK, Down
  PROVE  WireMovesOnward /\ QueueKept
<1>1. WireMovesOnward
  BY AgentClosesOnward DEF Down
<1> QED
  BY <1>1 DEF Down, QueueKept

\* What a call does, except to write a request.
LEMMA ProgressOnward ==
  ASSUME WireTypeOK, ClientTypeOK, NEW c \in Calls, NEW listening \in BOOLEAN,
         Progress(c, listening), ~SendRequest(c)
  PROVE  WireMovesOnward /\ nextId' >= nextId
<1>1. ASSUME NEW k \in Conns, OpenSocket(c, k, listening)
      PROVE  WireMovesOnward /\ UNCHANGED nextId
  <2>1. \A j \in Conns : up'[j] \in {<<>>, <<Hello>>, up[j]}
    BY <1>1 DEF OpenSocket, OpenConnection, WireTypeOK
  <2>2. QED
    BY <1>1, <2>1, LeftAloneOnward DEF OpenSocket
<1>2. CASE SendFails(c)
  BY <1>2, LeftAloneOnward DEF SendFails, TakeId, wireVars, ClientTypeOK
<1>3. ASSUME NEW k, ClientCloses(k) PROVE WireMovesOnward
  BY <1>3, LeftAloneOnward DEF ClientCloses
<1>4. ASSUME PopReply \/ UNCHANGED wireVars PROVE WireMovesOnward
  BY <1>4, LeftAloneOnward DEF PopReply, wireVars
<1>5. ASSUME UNCHANGED nextId PROVE nextId' >= nextId
  BY <1>5 DEF ClientTypeOK
<1> QED
  BY <1>1, <1>2, <1>3, <1>4, <1>5 DEF Progress, NotConnected, ReadReply, DiscardStale,
                                      ReadFails, CloseAfterFailure, OpenFails, ReadHandshake,
                                      HandshakeFails, Greet, CloseAfterConnectFailure, Close,
                                      CloseSocket


-----------------------------------------------------------------------------
(* Steps that move a request from one place to the next *)

\* Every id that is somewhere is one that was given out.
LEMMA IdsAreNumbers ==
  ASSUME WireTypeOK, ServerTypeOK
  PROVE  /\ \A n \in executed : n \in Nat
         /\ \A i \in DOMAIN pending : i \in Nat /\ pending[i] \in Item /\ pending[i].id \in Nat
         /\ \A k \in Conns : \A i \in DOMAIN up[k] : i \in Nat /\ up[k][i].id \in Nat
<1>1. \A i \in DOMAIN pending : i \in Nat /\ pending[i] \in Item
  BY DEF ServerTypeOK
<1>2. \A k \in Conns : up[k] \in Seq(UpFrame)
  BY DEF WireTypeOK
<1>3. \A k \in Conns : \A i \in DOMAIN up[k] : i \in Nat /\ up[k][i] \in UpFrame
  BY <1>2
<1> QED
  BY <1>1, <1>3 DEF Item, UpFrame, ServerTypeOK

\* A request is written under an id that was never used before.
LEMMA SendRequestOnce ==
  ASSUME WireTypeOK, WireTypeOK', ClientTypeOK, ServerTypeOK, OnceInv,
         NEW c \in Calls, SendRequest(c), UNCHANGED serverVars
  PROVE  OnceInv'
<1>1. /\ nextId \in Nat /\ nextId' = nextId + 1
      /\ sock \in Conns
      /\ UNCHANGED <<executed, pending>>
  BY DEF SendRequest, TakeId, ClientTypeOK, serverVars
<1> DEFINE f == [kind |-> RequestKind(c), id |-> nextId']
<1>2. up' = IF Live(sock) THEN [up EXCEPT ![sock] = Append(@, f)] ELSE up
  BY DEF SendRequest, ClientWrites
<1>3. CASE ~Live(sock)
  <2>1. up' = up
    BY <1>2, <1>3
  <2>2. QED
    BY <1>1, <2>1, LeftAloneOnward, UnchangedKeeps, OnwardOnce
<1>4. CASE Live(sock)
  <2>1. \A i \in DOMAIN up'[sock] :
          \/ i \in DOMAIN up[sock] /\ up'[sock][i] = up[sock][i]
          \/ i = Len(up[sock]) + 1 /\ up'[sock][i].id = nextId'
    <3>1. up'[sock] = Append(up[sock], f) /\ up[sock] \in Seq(UpFrame)
      BY <1>1, <1>2, <1>4 DEF WireTypeOK
    <3>2. \A i \in DOMAIN up'[sock] :
            \/ i \in DOMAIN up[sock] /\ up'[sock][i] = up[sock][i]
            \/ i = Len(up[sock]) + 1 /\ up'[sock][i] = f
      BY <3>1
    <3>3. QED
      BY <3>2
  <2>2. \A k \in Conns \ {sock} : up'[k] = up[k]
    BY <1>1, <1>2, <1>4 DEF WireTypeOK
  <2>3. \A k \in Conns : \A i \in DOMAIN up'[k] :
          \/ i \in DOMAIN up[k] /\ up'[k][i] = up[k][i]
          \/ k = sock /\ i = Len(up[k]) + 1 /\ up'[k][i].id = nextId'
    BY <2>1, <2>2
  <2>4. /\ \A k \in Conns : \A i \in DOMAIN up[k] : IsRequest(up[k][i]) => up[k][i].id # nextId'
        /\ \A i \in DOMAIN pending : pending[i].id # nextId'
        /\ \A n \in executed : n # nextId'
    BY <1>1, IdsAreNumbers DEF OnceInv, WireIsAhead, QueueIsAhead, ExecutedWereNumbered
  <2>5. \A n \in Nat : n <= nextId => n <= nextId'
    BY <1>1
  <2>6. nextId' > 0 /\ nextId' <= nextId' /\ nextId' \notin executed
    BY <1>1, <2>4
  <2>7. WireIsAhead'
    <3> SUFFICES ASSUME NEW k \in Conns, NEW i \in DOMAIN up'[k], IsRequest(up'[k][i])
                 PROVE  /\ up'[k][i].id > 0 /\ up'[k][i].id <= nextId'
                        /\ up'[k][i].id \notin executed
                        /\ \A j \in DOMAIN pending : pending[j].id # up'[k][i].id
      BY <1>1 DEF WireIsAhead
    <3>1. CASE i \in DOMAIN up[k] /\ up'[k][i] = up[k][i]
      BY <2>5, <3>1, IdsAreNumbers DEF OnceInv, WireIsAhead
    <3>2. CASE up'[k][i].id = nextId'
      BY <2>4, <2>6, <3>2
    <3> QED
      BY <2>3, <3>1, <3>2
  <2>8. SentOnce'
    <3> SUFFICES ASSUME NEW k \in Conns, NEW l \in Conns,
                        NEW i \in DOMAIN up'[k], NEW j \in DOMAIN up'[l],
                        IsRequest(up'[k][i]), IsRequest(up'[l][j]),
                        up'[k][i].id = up'[l][j].id
                 PROVE  k = l /\ i = j
      BY DEF SentOnce
    <3>1. CASE i \in DOMAIN up[k] /\ up'[k][i] = up[k][i]
      BY <2>3, <2>4, <3>1 DEF OnceInv, SentOnce
    <3>2. CASE k = sock /\ i = Len(up[k]) + 1 /\ up'[k][i].id = nextId'
      BY <2>3, <2>4, <3>2 DEF OnceInv, SentOnce
    <3> QED
      BY <2>3, <3>1, <3>2
  <2>9. HandedOverOnce' /\ QueueIsAhead' /\ ExecutedWereNumbered'
    BY <1>1, <2>5, IdsAreNumbers DEF OnceInv, HandedOverOnce, QueueIsAhead, ExecutedWereNumbered
  <2> QED
    BY <2>7, <2>8, <2>9 DEF OnceInv
<1> QED
  BY <1>3, <1>4

\* The request at the head of a connection is queued.
LEMMA ReceiveRequestOnce ==
  ASSUME WireTypeOK, ServerTypeOK, OnceInv, NEW k \in Conns, ReceiveRequest(k), UNCHANGED nextId
  PROVE  OnceInv'
<1> DEFINE n == Head(up[k]).id
<1> DEFINE item == [id |-> n, conn |-> k, stop |-> Head(up[k]).kind = "stop"]
<1>1. /\ up[k] \in Seq(UpFrame) /\ up[k] # <<>>
      /\ Head(up[k]) = up[k][1] /\ 1 \in DOMAIN up[k]
      /\ IsRequest(up[k][1]) /\ n = up[k][1].id
      /\ UNCHANGED executed
  BY DEF ReceiveRequest, Arriving, WireTypeOK, IsRequest
<1>2. pending' = Append(pending, item) /\ pending \in Seq(Item)
  BY DEF ReceiveRequest, ServerTypeOK
<1>3. \A i \in DOMAIN pending' :
        \/ i \in DOMAIN pending /\ pending'[i].id = pending[i].id
        \/ i = Len(pending) + 1 /\ pending'[i].id = n
  <2>1. item.id = n
    OBVIOUS
  <2> HIDE DEF item
  <2>2. \A i \in DOMAIN pending' : \/ i \in DOMAIN pending /\ pending'[i] = pending[i]
                                   \/ i = Len(pending) + 1 /\ pending'[i] = item
    BY <1>2
  <2>3. QED
    BY <2>1, <2>2
<1>4. \A i \in DOMAIN up'[k] : i \in Nat /\ i + 1 \in DOMAIN up[k] /\ i + 1 # 1
                               /\ up'[k][i] = up[k][i + 1]
  BY <1>1 DEF ReceiveRequest, Consume, WireTypeOK
<1>5. \A l \in Conns \ {k} : up'[l] = up[l]
  BY DEF ReceiveRequest, Consume, WireTypeOK
<1>6. \A l \in Conns : \A i \in DOMAIN up'[l] :
        \E j \in DOMAIN up[l] : up'[l][i] = up[l][j] /\ ~(l = k /\ j = 1)
  BY <1>4, <1>5
<1>7. /\ n > 0 /\ n <= nextId /\ n \notin executed
      /\ \A i \in DOMAIN pending : pending[i].id # n
  BY <1>1 DEF OnceInv, WireIsAhead
<1> HIDE DEF n, item
<1>8. WireIsAhead'
  <2> SUFFICES ASSUME NEW l \in Conns, NEW i \in DOMAIN up'[l], IsRequest(up'[l][i])
               PROVE  /\ up'[l][i].id > 0 /\ up'[l][i].id <= nextId
                      /\ up'[l][i].id \notin executed
                      /\ \A j \in DOMAIN pending' : pending'[j].id # up'[l][i].id
    BY <1>1 DEF WireIsAhead
  <2>1. PICK j \in DOMAIN up[l] : up'[l][i] = up[l][j] /\ ~(l = k /\ j = 1)
    BY <1>6
  <2>2. up[l][j].id # n
    BY <1>1, <2>1 DEF OnceInv, SentOnce
  <2> QED
    BY <1>3, <2>1, <2>2 DEF OnceInv, WireIsAhead
<1>9. SentOnce'
  <2> SUFFICES ASSUME NEW l \in Conns, NEW m \in Conns,
                      NEW i \in DOMAIN up'[l], NEW j \in DOMAIN up'[m],
                      IsRequest(up'[l][i]), IsRequest(up'[m][j]),
                      up'[l][i].id = up'[m][j].id
               PROVE  l = m /\ i = j
    BY DEF SentOnce
  <2>1. l = m
    BY <1>6 DEF OnceInv, SentOnce
  <2>2. CASE l = k
    <3>1. i + 1 = j + 1
      BY <1>4, <2>1, <2>2 DEF OnceInv, SentOnce
    <3>2. QED
      BY <1>4, <2>1, <2>2, <3>1
  <2>3. CASE l # k
    BY <1>5, <2>1, <2>3 DEF OnceInv, SentOnce
  <2> QED
    BY <2>2, <2>3
<1>10. HandedOverOnce'
  BY <1>1, <1>3, <1>7 DEF OnceInv, HandedOverOnce
<1>11. QueueIsAhead' /\ ExecutedWereNumbered'
  BY <1>1, <1>3, <1>7 DEF OnceInv, QueueIsAhead, ExecutedWereNumbered
<1> QED
  BY <1>8, <1>9, <1>10, <1>11 DEF OnceInv

\* The head of the queue is executed.
LEMMA DequeueOnce ==
  ASSUME WireTypeOK, ServerTypeOK, OnceInv, Dequeue, UNCHANGED nextId
  PROVE  OnceInv'
<1>1. /\ pending \in Seq(Item) /\ pending # <<>> /\ pending' = Tail(pending)
      /\ Head(pending) = pending[1] /\ 1 \in DOMAIN pending
      /\ executed' = executed \cup {pending[1].id}
      /\ UNCHANGED up
  BY DEF Dequeue, ServerTypeOK, wireVars
<1>2. \A i \in DOMAIN pending' : i \in Nat /\ i + 1 \in DOMAIN pending /\ i + 1 # 1
                                 /\ pending'[i] = pending[i + 1]
  BY <1>1
<1>3. WireIsAhead'
  BY <1>1, <1>2 DEF OnceInv, WireIsAhead
<1>4. SentOnce'
  BY <1>1 DEF OnceInv, SentOnce
<1>5. HandedOverOnce'
  <2>1. ASSUME NEW i \in DOMAIN pending', NEW j \in DOMAIN pending',
               pending'[i].id = pending'[j].id
        PROVE  i = j
    <3>1. i + 1 = j + 1
      BY <1>2, <2>1 DEF OnceInv, HandedOverOnce
    <3>2. QED
      BY <1>2, <3>1
  <2>2. ASSUME NEW i \in DOMAIN pending' PROVE pending'[i].id \notin executed'
    BY <1>1, <1>2 DEF OnceInv, HandedOverOnce
  <2>3. QED
    BY <2>1, <2>2 DEF HandedOverOnce
<1>6. QueueIsAhead' /\ ExecutedWereNumbered'
  BY <1>1, <1>2 DEF OnceInv, QueueIsAhead, ExecutedWereNumbered
<1> QED
  BY <1>3, <1>4, <1>5, <1>6 DEF OnceInv

-----------------------------------------------------------------------------
(* The theorem *)

LEMMA InitOnce == Init => OnceInv
BY DEF Init, WireInit, ClientInit, ServerInit, Fresh, OnceInv, WireIsAhead, SentOnce,
       HandedOverOnce, QueueIsAhead, ExecutedWereNumbered

LEMMA NextOnce == IInv /\ IInv' /\ OnceInv /\ [Next]_vars => OnceInv'
<1> SUFFICES ASSUME IInv, IInv', OnceInv, [Next]_vars PROVE OnceInv'
  OBVIOUS
<1>1. /\ WireTypeOK /\ WireTypeOK' /\ ClientTypeOK /\ ServerTypeOK
      /\ nextId \in Nat /\ nextId' \in Nat /\ nextId <= nextId
  BY DEF IInv, SocketInv, AgentInv, ClientTypeOK
<1>2. ASSUME WireMovesOnward, QueueKept, UNCHANGED executed, nextId' >= nextId PROVE OnceInv'
  BY <1>1, <1>2, OnwardOnce
<1>3. ASSUME UNCHANGED nextId PROVE nextId' >= nextId
  BY <1>1, <1>3
<1>4. ASSUME UNCHANGED up PROVE WireMovesOnward
  BY <1>1, <1>4, LeftAloneOnward
<1>5. ASSUME NEW c \in Calls, Begin(c) PROVE OnceInv'
  BY <1>2, <1>3, <1>4, <1>5, UnchangedKeeps DEF Begin, Start, wireVars, serverVars
<1>6. ASSUME NEW c \in Calls, ClientStep(c) PROVE OnceInv'
  <2>1. Progress(c, agent = "up") /\ UNCHANGED serverVars /\ (agent = "up") \in BOOLEAN
    BY <1>6 DEF ClientStep
  <2>2. CASE SendRequest(c)
    BY <1>1, <2>1, <2>2, SendRequestOnce
  <2>3. CASE ~SendRequest(c)
    BY <1>1, <1>2, <2>1, <2>3, ProgressOnward, UnchangedKeeps DEF serverVars
  <2>4. QED
    BY <2>2, <2>3
<1>7. ASSUME NEW c \in Calls, ClientFaults(c) PROVE OnceInv'
  <2>1. QueueKept /\ UNCHANGED executed
    BY <1>7, UnchangedKeeps DEF ClientFaults, serverVars
  <2>2. CASE SendTimesOut(c)
    <3>1. nextId' >= nextId
      BY <1>1, <2>2 DEF SendTimesOut, TakeId
    <3>2. \A k \in Conns : up'[k] \in {up[k], Append(up[k], Partial)}
      BY <1>1, <2>2 DEF SendTimesOut, ClientWrites, WireTypeOK
    <3>3. ~IsRequest(Partial)
      BY DEF IsRequest, Partial
    <3>4. WireMovesOnward
      BY <1>1, <3>2, <3>3, LeftAloneOnward
    <3>5. QED
      BY <1>2, <2>1, <3>1, <3>4
  <2>3. CASE Interrupt(c)
    BY <1>2, <1>3, <1>4, <2>1, <2>3 DEF Interrupt, wireVars
  <2>4. QED
    BY <1>7, <2>2, <2>3 DEF ClientFaults, ClientFault
<1>8. ASSUME NEW k \in Conns, NetworkStep(k) PROVE OnceInv'
  <2>1. Network(k) /\ UNCHANGED nextId
    BY <1>8 DEF NetworkStep, clientVars
  <2>2. CASE ReceiveRequest(k)
    BY <1>1, <2>1, <2>2, ReceiveRequestOnce
  <2>3. CASE ~ReceiveRequest(k)
    <3>1. UNCHANGED executed
      BY <1>1, <2>1, NetworkRunning DEF Network, AcceptHandshake, RefuseHandshake,
                                        ReceiveRequest, RejectMalformed, ReceiveGarbled,
                                        ConnectionEnds, serverVars
    <3>2. QED
      BY <1>1, <1>2, <1>3, <2>1, <2>3, <3>1, NetworkOnward
  <2>4. QED
    BY <2>2, <2>3
<1>9. ASSUME NEW k \in Conns, ResetStep(k) PROVE OnceInv'
  BY <1>1, <1>2, <1>3, <1>9, AgentClosesOnward, DisownKeeps
     DEF ResetStep, Reset, OtherClientVars
<1>10. CASE SurveyStep
  BY <1>2, <1>3, <1>4, <1>10, UnchangedKeeps DEF SurveyStep, FinishHandshake, clientVars
<1>11. CASE XCTestStep
  <2>1. CASE Dequeue
    BY <1>1, <1>11, <2>1, DequeueOnce DEF XCTestStep, clientVars
  <2>2. CASE StopServing
    BY <1>1, <1>2, <1>3, <1>11, <2>2, DownOnward DEF XCTestStep, clientVars, StopServing, Down
  <2>3. CASE FinishCommand \/ Drained \/ KeepServing
    BY <1>2, <1>3, <1>4, <1>11, <2>3, UnchangedKeeps
       DEF XCTestStep, clientVars, FinishCommand, Drained, KeepServing, wireVars
  <2>4. QED
    BY <1>11, <2>1, <2>2, <2>3 DEF XCTestStep, XCTestThread
<1>12. CASE CrashStep
  BY <1>1, <1>2, <1>3, <1>12, DownOnward DEF CrashStep, Crash, Down, OtherClientVars
<1>13. CASE RestartStep
  BY <1>2, <1>3, <1>4, <1>13, UnchangedKeeps DEF RestartStep, Restart, wireVars, clientVars
<1>14. CASE UNCHANGED vars
  BY <1>2, <1>3, <1>4, <1>14, UnchangedKeeps DEF vars, wireVars, clientVars, serverVars
<1> QED
  BY <1>5, <1>6, <1>7, <1>8, <1>9, <1>10, <1>11, <1>12, <1>13, <1>14 DEF Next, AllOver

\* No request is in the queue twice, and none is queued again once its
\* execution was begun: not by a retry, a lost connection, a truncated frame
\* or a restart of the agent.
THEOREM RequestsAreHandedOverOnce == Spec => []HandedOverOnce
<1>1. OnceInv => HandedOverOnce
  BY DEF OnceInv
<1>2. QED
  BY <1>1, InitOnce, NextOnce, Invariance, PTL DEF Spec


-----------------------------------------------------------------------------
(* The retry budget *)

\* The ids of a call are its own.
SentOK == \A c \in Calls :
  /\ IsFiniteSet(sent[c])
  /\ \A n \in sent[c] : n <= nextId
  /\ \A d \in Calls \ {c} : sent[c] \cap sent[d] = {}

Trying(c) == pc[c] \notin {"idle", "closing", "done"}

\* A call has used at most one id for each attempt it has begun.
WithinBudget(c) ==
  /\ pc[c] = "idle" => sent[c] = {}
  /\ pc[c] = "done" => outcome[c] # "none"
  /\ Cardinality(sent[c]) <= Attempts(c)
  /\ Trying(c) => Cardinality(sent[c]) <= attempt[c] /\ attempt[c] <= Attempts(c)
  /\ pc[c] = "attempt" => Cardinality(sent[c]) < attempt[c]
  /\ pc[c] \in {"connect", "hello", "greet", "connfail"} => attempt[c] < Attempts(c)

BudgetInv == SentOK /\ \A c \in Commands : WithinBudget(c)


LEMMA AttemptsType == \A c \in Calls : Attempts(c) \in Nat /\ Attempts(c) >= 1
BY ClientAssumption DEF Attempts

\* A call that writes an id takes one that no call has used.
LEMMA TakeIdSent ==
  ASSUME ClientTypeOK, SentOK, NEW c \in Calls, TakeId(c)
  PROVE  /\ SentOK'
         /\ Cardinality(sent'[c]) = Cardinality(sent[c]) + 1
         /\ sent'[c] = sent[c] \cup {nextId'} /\ nextId' = nextId + 1
         /\ \A d \in Calls \ {c} : sent'[d] = sent[d]
<1>1. /\ nextId \in Nat /\ nextId' = nextId + 1
      /\ sent'[c] = sent[c] \cup {nextId'}
      /\ \A d \in Calls \ {c} : sent'[d] = sent[d]
  BY DEF TakeId, ClientTypeOK
<1>2. \A d \in Calls : IsFiniteSet(sent[d]) /\ sent[d] \subseteq Nat
  BY DEF SentOK, ClientTypeOK
<1>3. \A d \in Calls : \A n \in sent[d] : n <= nextId' /\ n # nextId'
  BY <1>1, <1>2 DEF SentOK
<1>4. Cardinality(sent'[c]) = Cardinality(sent[c]) + 1 /\ IsFiniteSet(sent'[c])
  BY <1>1, <1>2, <1>3, FS_AddElement
<1>5. nextId' <= nextId'
  BY <1>1
<1>6. \A d \in Calls : IsFiniteSet(sent'[d]) /\ \A n \in sent'[d] : n <= nextId'
  BY <1>1, <1>2, <1>3, <1>4, <1>5
<1>7. ASSUME NEW d \in Calls, NEW e \in Calls \ {d} PROVE sent'[d] \cap sent'[e] = {}
  <2>1. sent[d] \cap sent[e] = {}
    BY DEF SentOK
  <2>2. nextId' \notin sent[d] /\ nextId' \notin sent[e]
    BY <1>3
  <2>3. CASE d = c
    BY <1>1, <2>1, <2>2, <2>3
  <2>4. CASE e = c
    BY <1>1, <2>1, <2>2, <2>4
  <2>5. CASE d # c /\ e # c
    BY <1>1, <2>1, <2>5
  <2>6. QED
    BY <2>3, <2>4, <2>5
<1> QED
  BY <1>1, <1>4, <1>6, <1>7 DEF SentOK

\* In a step of call c, the other calls are not touched.
LEMMA OtherBudgetsKept ==
  ASSUME BudgetInv, NEW c \in Calls, SentOK',
         \A d \in Calls \ {c} : /\ pc'[d] = pc[d] /\ attempt'[d] = attempt[d]
                                /\ sent'[d] = sent[d] /\ outcome'[d] = outcome[d],
         c \in Commands => WithinBudget(c)'
  PROVE  BudgetInv'
<1>1. ASSUME NEW d \in Commands \ {c} PROVE WithinBudget(d)'
  <2>1. /\ pc'[d] = pc[d] /\ attempt'[d] = attempt[d]
        /\ sent'[d] = sent[d] /\ outcome'[d] = outcome[d] /\ WithinBudget(d)
    BY DEF BudgetInv, Commands
  <2>2. QED
    BY <2>1 DEF WithinBudget, Attempts, Trying
<1> QED
  BY <1>1 DEF BudgetInv, Commands

\* A step of call c that uses no id.
LEMMA SameIdsBudget ==
  ASSUME BudgetInv, NEW c \in Calls, UNCHANGED <<sent, nextId>>,
         \A d \in Calls \ {c} : /\ pc'[d] = pc[d] /\ attempt'[d] = attempt[d]
                                /\ outcome'[d] = outcome[d],
         c \in Commands => WithinBudget(c)'
  PROVE  BudgetInv'
<1>1. SentOK'
  BY DEF BudgetInv, SentOK
<1> QED
  BY <1>1, OtherBudgetsKept

\* A call that ends stays within its budget.
LEMMA FinishBudget ==
  ASSUME ClientTypeOK, BudgetInv, NEW c \in Calls, NEW r \in Outcomes \ {"none"}, Finish(c, r),
         SentOK', \A d \in Calls \ {c} : sent'[d] = sent[d],
         c \in Commands => Cardinality(sent'[c]) <= Attempts(c)
  PROVE  BudgetInv'
<1>1. /\ pc'[c] \in {"closing", "done"} /\ outcome'[c] = r
      /\ \A d \in Calls \ {c} : /\ pc'[d] = pc[d] /\ outcome'[d] = outcome[d]
                                /\ attempt'[d] = attempt[d]
  BY DEF Finish, Goto, ClientTypeOK
<1>2. c \in Commands => WithinBudget(c)'
  BY <1>1 DEF WithinBudget, Trying, Attempts
<1> QED
  BY <1>1, <1>2, OtherBudgetsKept

LEMMA FinishSameIds ==
  ASSUME ClientTypeOK, BudgetInv, NEW c \in Calls, NEW r \in Outcomes \ {"none"}, Finish(c, r),
         UNCHANGED <<sent, nextId>>
  PROVE  BudgetInv'
<1>1. SentOK'
  BY DEF BudgetInv, SentOK
<1>2. c \in Commands => Cardinality(sent'[c]) <= Attempts(c)
  BY DEF BudgetInv, WithinBudget
<1> QED
  BY <1>1, <1>2, FinishBudget

\* A call that goes on with the attempt it has begun.
LEMMA ContinueBudget ==
  ASSUME ClientTypeOK, BudgetInv, NEW c \in Calls, NEW p \in PCs, Goto(c, p),
         UNCHANGED <<attempt, outcome, sent, nextId>>, Trying(c),
         \/ p \in {"reading", "failed"}
         \/ /\ p \in {"connect", "hello", "greet", "connfail"}
            /\ c \in Commands => attempt[c] < Attempts(c)
  PROVE  BudgetInv'
<1>1. pc'[c] = p /\ \A d \in Calls \ {c} : pc'[d] = pc[d]
  BY DEF Goto, ClientTypeOK
<1>2. c \in Commands => WithinBudget(c)'
  BY <1>1 DEF BudgetInv, WithinBudget, Trying, Attempts
<1> QED
  BY <1>1, <1>2, SameIdsBudget

\* A call that begins its next attempt.
LEMMA NextAttemptBudget ==
  ASSUME ClientTypeOK, BudgetInv, NEW c \in Calls, NextAttempt(c), UNCHANGED <<sent, nextId>>,
         pc[c] \in {"greet", "connfail"}
  PROVE  BudgetInv'
<1>1. /\ pc'[c] = "attempt" /\ attempt'[c] = attempt[c] + 1 /\ UNCHANGED outcome
      /\ \A d \in Calls \ {c} : pc'[d] = pc[d] /\ attempt'[d] = attempt[d]
      /\ attempt[c] \in Nat
  BY DEF NextAttempt, Goto, ClientTypeOK
<1>2. ASSUME c \in Commands PROVE WithinBudget(c)'
  <2>1. /\ attempt[c] < Attempts(c) /\ Cardinality(sent[c]) <= attempt[c]
        /\ Cardinality(sent[c]) <= Attempts(c) /\ sent'[c] = sent[c]
    BY <1>2 DEF BudgetInv, WithinBudget, Trying
  <2>2. Cardinality(sent[c]) \in Nat /\ Attempts(c) \in Nat
    BY FS_CardinalityType, AttemptsType DEF BudgetInv, SentOK
  <2>3. Cardinality(sent[c]) < attempt[c] + 1 /\ attempt[c] + 1 <= Attempts(c)
    BY <1>1, <2>1, <2>2
  <2>4. Cardinality(sent[c]) <= attempt[c] + 1
    BY <1>1, <2>2, <2>3
  <2>5. QED
    BY <1>1, <2>1, <2>3, <2>4 DEF WithinBudget, Trying, Attempts
<1> QED
  BY <1>1, <1>2, SameIdsBudget

\* A call that has used the id of the attempt it has begun.
LEMMA TakeIdBudget ==
  ASSUME ClientTypeOK, BudgetInv, NEW c \in Calls, TakeId(c)
  PROVE  /\ SentOK' /\ \A d \in Calls \ {c} : sent'[d] = sent[d]
         /\ c \in Commands => /\ Cardinality(sent'[c]) <= attempt[c]
                              /\ attempt[c] <= Attempts(c)
                              /\ Cardinality(sent'[c]) <= Attempts(c)
<1>1. /\ SentOK' /\ \A d \in Calls \ {c} : sent'[d] = sent[d]
      /\ Cardinality(sent'[c]) = Cardinality(sent[c]) + 1
  BY TakeIdSent DEF BudgetInv
<1>2. ASSUME c \in Commands
      PROVE  /\ Cardinality(sent'[c]) <= attempt[c] /\ attempt[c] <= Attempts(c)
             /\ Cardinality(sent'[c]) <= Attempts(c)
  <2>1. Cardinality(sent[c]) < attempt[c] /\ attempt[c] <= Attempts(c)
    BY <1>2 DEF BudgetInv, WithinBudget, TakeId, Trying
  <2>2. Cardinality(sent[c]) \in Nat /\ Attempts(c) \in Nat /\ attempt[c] \in Nat
    BY FS_CardinalityType, AttemptsType DEF BudgetInv, SentOK, ClientTypeOK
  <2>3. QED
    BY <1>1, <2>1, <2>2
<1> QED
  BY <1>1, <1>2

LEMMA TakeIdGoto ==
  ASSUME ClientTypeOK, BudgetInv, NEW c \in Calls, TakeId(c), NEW p \in {"reading", "failed"},
         Continue(c, p)
  PROVE  BudgetInv'
<1>1. /\ pc'[c] = p /\ \A d \in Calls \ {c} : pc'[d] = pc[d]
      /\ UNCHANGED <<attempt, outcome>>
  BY DEF Continue, Goto, ClientTypeOK
<1>2. c \in Commands => WithinBudget(c)'
  BY <1>1, TakeIdBudget DEF WithinBudget, Trying, Attempts
<1> QED
  BY <1>1, <1>2, TakeIdBudget, OtherBudgetsKept

LEMMA ProgressBudget ==
  ASSUME ClientTypeOK, BudgetInv, CallsOK, NEW c \in Calls, NEW listening, Progress(c, listening)
  PROVE  BudgetInv'
<1> USE DEF Continue, Trying, PCs
<1>1. CASE NotConnected(c)
  BY <1>1, ContinueBudget DEF NotConnected
<1>2. CASE SendRequest(c)
  BY <1>2, TakeIdGoto DEF SendRequest
<1>3. CASE SendFails(c)
  BY <1>3, TakeIdGoto DEF SendFails
<1>4. CASE ReadReply(c)
  BY <1>4, FinishSameIds DEF ReadReply, Outcomes
<1>5. CASE DiscardStale(c)
  <2>1. CASE Finish(c, "timeout")
    BY <1>5, <2>1, FinishSameIds DEF DiscardStale, Outcomes
  <2>2. CASE ~Finish(c, "timeout")
    BY <1>5, <2>2, ContinueBudget DEF DiscardStale, Incoming
  <2>3. QED
    BY <2>1, <2>2
<1>6. CASE ReadFails(c)
  BY <1>6, ContinueBudget DEF ReadFails
<1>7. CASE CloseAfterFailure(c)
  <2>1. CASE Finish(c, "lost")
    BY <1>7, <2>1, FinishSameIds DEF CloseAfterFailure, Outcomes
  <2>2. CASE ~Finish(c, "lost")
    BY <1>7, <2>2, ContinueBudget DEF CloseAfterFailure
  <2>3. QED
    BY <2>1, <2>2
<1>8. ASSUME pc[c] \in {"connect", "hello", "greet", "connfail"}, c \in Commands
      PROVE  attempt[c] < Attempts(c)
  BY <1>8 DEF BudgetInv, WithinBudget
<1>9. ASSUME NEW k \in Conns, OpenSocket(c, k, listening)
      PROVE  BudgetInv'
  BY <1>8, <1>9, ContinueBudget DEF OpenSocket
<1>10. CASE OpenFails(c)
  BY <1>8, <1>10, ContinueBudget DEF OpenFails
<1>11. CASE ReadHandshake(c)
  <2>1. CASE Finish(c, "refused")
    BY <1>11, <2>1, FinishSameIds DEF ReadHandshake, Outcomes
  <2>2. CASE ~Finish(c, "refused")
    BY <1>8, <1>11, <2>2, ContinueBudget DEF ReadHandshake, Incoming
  <2>3. QED
    BY <2>1, <2>2
<1>12. CASE HandshakeFails(c)
  BY <1>8, <1>12, ContinueBudget DEF HandshakeFails
<1>13. CASE Greet(c)
  <2>1. CASE NextAttempt(c)
    BY <1>13, <2>1, NextAttemptBudget DEF Greet
  <2>2. CASE ~NextAttempt(c)
    BY <1>13, <2>2, FinishSameIds DEF Greet, Outcomes
  <2>3. QED
    BY <2>1, <2>2
<1>14. CASE CloseAfterConnectFailure(c)
  <2>1. CASE NextAttempt(c)
    BY <1>14, <2>1, NextAttemptBudget DEF CloseAfterConnectFailure
  <2>2. CASE Finish(c, "unreachable")
    BY <1>14, <2>2, FinishSameIds DEF CloseAfterConnectFailure, Outcomes
  <2>3. CASE ~NextAttempt(c) /\ ~Finish(c, "unreachable")
    BY <1>8, <1>14, <2>3, ContinueBudget DEF CloseAfterConnectFailure
  <2>4. QED
    BY <2>1, <2>2, <2>3
<1>15. CASE Close(c)
  <2>1. /\ pc[c] = "closing" /\ pc'[c] = "done" /\ UNCHANGED <<attempt, sent, nextId>>
        /\ \A d \in Calls \ {c} : pc'[d] = pc[d] /\ outcome'[d] = outcome[d]
        /\ outcome'[c] # "none"
    BY <1>15 DEF Close, Goto, ClientTypeOK
  <2>2. c \in Commands => WithinBudget(c)'
    BY <2>1 DEF BudgetInv, WithinBudget, Attempts
  <2>3. QED
    BY <2>1, <2>2, SameIdsBudget
<1> QED
  BY <1>1, <1>2, <1>3, <1>4, <1>5, <1>6, <1>7, <1>9, <1>10, <1>11, <1>12, <1>13, <1>14, <1>15
     DEF Progress

LEMMA StartBudget ==
  ASSUME ClientTypeOK, BudgetInv, NEW c \in Calls, Start(c)
  PROVE  BudgetInv'
<1>1. UNCHANGED <<sent, nextId>> /\ pc[c] = "idle"
  BY DEF Start
<1>2. CASE Finish(c, "lost")
  BY <1>1, <1>2, FinishSameIds DEF Outcomes
<1>3. CASE ~Finish(c, "lost")
  <2>1. /\ UNCHANGED outcome /\ attempt'[c] = 1
        /\ \A d \in Calls \ {c} : pc'[d] = pc[d] /\ attempt'[d] = attempt[d]
        /\ c \in Commands => pc'[c] = "attempt"
    BY <1>3 DEF Start, Goto, ClientTypeOK, Commands
  <2>2. ASSUME c \in Commands PROVE WithinBudget(c)'
    <3>1. Cardinality(sent'[c]) = 0
      BY <1>1, <2>2, FS_EmptySet DEF BudgetInv, WithinBudget
    <3>2. Attempts(c) \in Nat /\ 1 <= Attempts(c) /\ 0 <= Attempts(c)
      BY AttemptsType
    <3>3. QED
      BY <2>1, <2>2, <3>1, <3>2 DEF WithinBudget, Attempts, Trying
  <2>3. QED
    BY <1>1, <2>1, <2>2, SameIdsBudget
<1> QED
  BY <1>2, <1>3

LEMMA ClientFaultBudget ==
  ASSUME ClientTypeOK, BudgetInv, NEW c \in Calls, ClientFault(c)
  PROVE  BudgetInv'
<1>1. CASE SendTimesOut(c)
  BY <1>1, TakeIdBudget, FinishBudget DEF SendTimesOut, Outcomes
<1>2. CASE Interrupt(c)
  BY <1>2, FinishSameIds DEF Interrupt, Outcomes
<1> QED
  BY <1>1, <1>2 DEF ClientFault

LEMMA UnchangedBudget ==
  ASSUME BudgetInv, UNCHANGED <<pc, attempt, sent, outcome, nextId>>
  PROVE  BudgetInv'
<1>1. SentOK'
  BY DEF BudgetInv, SentOK
<1>2. ASSUME NEW d \in Commands PROVE WithinBudget(d)'
  BY DEF BudgetInv, WithinBudget, Trying, Attempts
<1> QED
  BY <1>1, <1>2 DEF BudgetInv

LEMMA InitBudget == Init => BudgetInv
<1> SUFFICES ASSUME Init PROVE BudgetInv
  OBVIOUS
<1>1. \A c \in Calls : pc[c] = "idle" /\ sent[c] = {} /\ attempt[c] = 0
  BY DEF Init, ClientInit
<1>2. SentOK
  BY <1>1, FS_EmptySet DEF SentOK
<1>3. ASSUME NEW c \in Commands PROVE WithinBudget(c)
  <2>1. c \in Calls /\ Attempts(c) \in Nat /\ Attempts(c) >= 1
    BY AttemptsType DEF Commands
  <2>2. Cardinality(sent[c]) = 0
    BY <1>1, <2>1, FS_EmptySet
  <2>3. Cardinality(sent[c]) <= Attempts(c)
    BY <2>1, <2>2
  <2>4. QED
    BY <1>1, <2>1, <2>3 DEF WithinBudget, Trying
<1> QED
  BY <1>2, <1>3 DEF BudgetInv

LEMMA NextBudget == IInv /\ AnswerInv /\ BudgetInv /\ [Next]_vars => BudgetInv'
<1> SUFFICES ASSUME IInv, AnswerInv, BudgetInv, [Next]_vars PROVE BudgetInv'
  OBVIOUS
<1>1. ClientTypeOK /\ CallsOK
  BY DEF IInv, SocketInv, AnswerInv
<1>2. ASSUME NEW c \in Calls, Begin(c) PROVE BudgetInv'
  BY <1>1, <1>2, StartBudget DEF Begin
<1>3. ASSUME NEW c \in Calls, ClientStep(c) PROVE BudgetInv'
  BY <1>1, <1>3, ProgressBudget DEF ClientStep
<1>4. ASSUME NEW c \in Calls, ClientFaults(c) PROVE BudgetInv'
  BY <1>1, <1>4, ClientFaultBudget DEF ClientFaults
<1>5. ASSUME UNCHANGED OtherClientVars \/ UNCHANGED clientVars PROVE BudgetInv'
  BY <1>5, UnchangedBudget DEF OtherClientVars, clientVars
<1> QED
  BY <1>2, <1>3, <1>4, <1>5 DEF Next, NetworkStep, ResetStep, SurveyStep, XCTestStep, CrashStep,
                                RestartStep, AllOver, vars


-----------------------------------------------------------------------------
(* The refinement: every step is a step of AtLeastOnce, or none *)

Executions(c) == Cardinality(sent[c] \cap executed)

Replied(c) == outcome[c] \in {"ok", "error"}

\* The abstract state of one call is unchanged.
SameView(c) == /\ Phase(c)' = Phase(c)
               /\ Replied(c)' = Replied(c)
               /\ Executions(c)' = Executions(c)

LEMMA StutterMaps ==
  ASSUME \A c \in Commands : SameView(c)
  PROVE  UNCHANGED Guarantee!vars
<1>1. [c \in Commands |-> Phase(c)'] = [c \in Commands |-> Phase(c)]
  BY DEF SameView
<1>2. {c \in Commands : outcome'[c] \in {"ok", "error"}}
        = {c \in Commands : outcome[c] \in {"ok", "error"}}
  BY DEF SameView, Replied
<1>3. [c \in Commands |-> Cardinality(sent'[c] \cap executed')]
        = [c \in Commands |-> Cardinality(sent[c] \cap executed)]
  BY DEF SameView, Executions
<1> QED
  BY <1>1, <1>2, <1>3 DEF Guarantee!vars

\* One call begins, is refused, gives up, is answered or is executed.
LEMMA OneCallMaps ==
  ASSUME NEW c \in Commands, \A d \in Commands \ {c} : SameView(d),
         \/ /\ Phase(c) = "idle" /\ Phase(c)' \in {"running", "over"}
            /\ Replied(c)' = Replied(c) /\ Executions(c)' = Executions(c)
         \/ /\ Phase(c) = "running" /\ Phase(c)' = "over"
            /\ Replied(c)' = Replied(c) /\ Executions(c)' = Executions(c)
         \/ /\ Phase(c) = "running" /\ Phase(c)' = "over" /\ Executions(c) > 0
            /\ Replied(c)' /\ Executions(c)' = Executions(c)
         \/ /\ Phase(c) # "idle" /\ Phase(c)' = Phase(c) /\ Replied(c)' = Replied(c)
            /\ Executions(c) < Attempts(c) /\ Executions(c)' = Executions(c) + 1
  PROVE  Guarantee!Next
<1> DEFINE ph   == [d \in Commands |-> Phase(d)]
           php  == [d \in Commands |-> Phase(d)']
           an   == {d \in Commands : outcome[d] \in {"ok", "error"}}
           anp  == {d \in Commands : outcome'[d] \in {"ok", "error"}}
           ex   == [d \in Commands |-> Cardinality(sent[d] \cap executed)]
           exp  == [d \in Commands |-> Cardinality(sent'[d] \cap executed')]
           bud  == [d \in Commands |-> IF Kind[d] = "stop" THEN 1 ELSE MaxRetries + 1]
<1>1. php = [ph EXCEPT ![c] = Phase(c)']
  BY DEF SameView
<1>2. exp = [ex EXCEPT ![c] = Executions(c)']
  BY DEF SameView, Executions
<1>3. ex[c] = Executions(c) /\ ph[c] = Phase(c) /\ bud[c] = Attempts(c)
  BY DEF Executions, Attempts
<1>4. Executions(c)' = Executions(c) => exp = ex
  BY <1>2, <1>3
<1>5. Replied(c)' = Replied(c) => anp = an
  BY DEF SameView, Replied
<1>6. Replied(c)' => anp = an \cup {c}
  BY DEF SameView, Replied
<1>7. CASE /\ Phase(c) = "idle" /\ Phase(c)' \in {"running", "over"}
           /\ Replied(c)' = Replied(c) /\ Executions(c)' = Executions(c)
  <2>1. Guarantee!Begin(c) \/ Guarantee!Reject(c)
    BY <1>1, <1>3, <1>4, <1>5, <1>7 DEF Guarantee!Begin, Guarantee!Reject
  <2>2. QED
    BY <2>1 DEF Guarantee!Next
<1>8. CASE /\ Phase(c) = "running" /\ Phase(c)' = "over"
           /\ Replied(c)' = Replied(c) /\ Executions(c)' = Executions(c)
  <2>1. Guarantee!GiveUp(c)
    BY <1>1, <1>3, <1>4, <1>5, <1>8 DEF Guarantee!GiveUp
  <2>2. QED
    BY <2>1 DEF Guarantee!Next
<1>9. CASE /\ Phase(c) = "running" /\ Phase(c)' = "over" /\ Executions(c) > 0
           /\ Replied(c)' /\ Executions(c)' = Executions(c)
  <2>1. Guarantee!Answer(c)
    BY <1>1, <1>3, <1>4, <1>6, <1>9 DEF Guarantee!Answer
  <2>2. QED
    BY <2>1 DEF Guarantee!Next
<1>10. CASE /\ Phase(c) # "idle" /\ Phase(c)' = Phase(c) /\ Replied(c)' = Replied(c)
            /\ Executions(c) < Attempts(c) /\ Executions(c)' = Executions(c) + 1
  <2>1. php = ph
    BY <1>1, <1>3, <1>10
  <2>2. exp = [ex EXCEPT ![c] = @ + 1]
    BY <1>2, <1>3, <1>10
  <2>3. Guarantee!Perform(c)
    BY <1>3, <1>5, <1>10, <2>1, <2>2 DEF Guarantee!Perform
  <2>4. QED
    BY <2>3 DEF Guarantee!Next
<1> QED
  BY <1>7, <1>8, <1>9, <1>10


\* A new id is not executed yet: the client's steps execute nothing.
LEMMA ClientExecutesNothing ==
  ASSUME ClientTypeOK, ServerTypeOK, OnceInv, NEW c \in Calls, UNCHANGED executed,
         UNCHANGED sent \/ TakeId(c)
  PROVE  \A d \in Calls : Executions(d)' = Executions(d)
<1>1. CASE UNCHANGED sent
  BY <1>1 DEF Executions
<1>2. CASE TakeId(c)
  <2>1. /\ nextId \in Nat /\ nextId' = nextId + 1
        /\ sent'[c] = sent[c] \cup {nextId'}
        /\ \A d \in Calls \ {c} : sent'[d] = sent[d]
    BY <1>2 DEF TakeId, ClientTypeOK
  <2>2. \A n \in executed : n <= nextId /\ n \in Nat
    BY DEF OnceInv, ExecutedWereNumbered, ServerTypeOK
  <2>3. nextId' \notin executed
    BY <2>1, <2>2
  <2>4. sent'[c] \cap executed' = sent[c] \cap executed
    BY <2>1, <2>3
  <2>5. QED
    BY <2>1, <2>4 DEF Executions
<1> QED
  BY <1>1, <1>2

\* The commands that a step of call c does not touch.
LEMMA OthersView ==
  ASSUME NEW c \in Calls, \A d \in Calls : Executions(d)' = Executions(d),
         \A d \in Calls \ {c} : pc'[d] = pc[d] /\ outcome'[d] = outcome[d]
  PROVE  \A d \in Commands \ {c} : SameView(d)
BY DEF SameView, Phase, Replied, Commands

\* A call that goes on.
LEMMA GoesOnMaps ==
  ASSUME NEW c \in Calls, \A d \in Calls : Executions(d)' = Executions(d),
         \A d \in Calls \ {c} : pc'[d] = pc[d] /\ outcome'[d] = outcome[d],
         c \in Commands => pc[c] # "idle" /\ pc'[c] # "idle" /\ outcome'[c] = outcome[c]
  PROVE  UNCHANGED Guarantee!vars
<1>1. c \in Commands => SameView(c)
  BY DEF SameView, Phase, Replied
<1> QED
  BY <1>1, OthersView, StutterMaps DEF Commands

\* A call that ends without an answer.
LEMMA FinishMaps ==
  ASSUME ClientTypeOK, CallsOK, NEW c \in Calls, NEW r \in Outcomes \ {"none"}, Finish(c, r),
         \A d \in Calls : Executions(d)' = Executions(d),
         pc[c] \notin {"closing", "done"},
         c \in Commands => r \notin {"ok", "error"}
  PROVE  [Guarantee!Next]_Guarantee!vars
<1>1. /\ pc'[c] # "idle" /\ outcome'[c] = r /\ outcome[c] = "none"
      /\ \A d \in Calls \ {c} : pc'[d] = pc[d] /\ outcome'[d] = outcome[d]
  BY DEF Finish, Goto, ClientTypeOK, CallsOK, CallOK
<1>2. CASE c \in Commands
  <2>1. /\ Phase(c) \in {"idle", "running"} /\ Phase(c)' = "over"
        /\ Replied(c)' = Replied(c)
    BY <1>1, <1>2 DEF Phase, Replied
  <2>2. Guarantee!Next
    BY <1>1, <1>2, <2>1, OthersView, OneCallMaps
  <2>3. QED
    BY <2>2
<1>3. CASE c \notin Commands
  BY <1>1, <1>3, GoesOnMaps
<1> QED
  BY <1>2, <1>3

\* A call that is given its answer has been executed.
LEMMA ReadReplyMaps ==
  ASSUME ClientTypeOK, ServerTypeOK, WireTypeOK, ReaderHasSocket, RepliesOK, CallsOK, BudgetInv,
         NEW c \in Calls, ReadReply(c), UNCHANGED executed
  PROVE  [Guarantee!Next]_Guarantee!vars
<1>1. /\ pc[c] = "reading" /\ pc'[c] # "idle"
      /\ outcome[c] = "none" /\ outcome'[c] \in {"ok", "error"}
      /\ \A d \in Calls \ {c} : pc'[d] = pc[d] /\ outcome'[d] = outcome[d]
      /\ UNCHANGED sent
  BY DEF ReadReply, Incoming, Finish, Goto, ClientTypeOK, CallsOK, CallOK
<1>2. \A d \in Calls : Executions(d)' = Executions(d)
  BY <1>1 DEF Executions
<1>3. cur[c] \in sent[c] \cap executed
  <2>1. sock \in Conns /\ down[sock] # <<>> /\ Head(down[sock]).id = cur[c]
    BY <1>1 DEF ReadReply, Incoming, ReaderHasSocket, Answers
  <2>2. FrameOK(Head(down[sock]), executed)
    BY <2>1 DEF RepliesOK, WireTypeOK
  <2>3. cur[c] \in sent[c] /\ cur[c] > 0 /\ cur[c] \in Nat
    BY <1>1 DEF CallsOK, CallOK, ClientTypeOK
  <2>4. QED
    BY <2>1, <2>2, <2>3 DEF FrameOK
<1>4. Executions(c) > 0
  <2>1. IsFiniteSet(sent[c] \cap executed)
    BY FS_Subset DEF BudgetInv, SentOK
  <2>2. Cardinality(sent[c] \cap executed) \in Nat
    BY <2>1, FS_CardinalityType
  <2>3. Cardinality(sent[c] \cap executed) # 0
    BY <1>3, <2>1, FS_EmptySet
  <2>4. QED
    BY <2>2, <2>3 DEF Executions
<1>5. CASE c \in Commands
  <2>1. Phase(c) = "running" /\ Phase(c)' = "over" /\ Replied(c)'
    BY <1>1 DEF Phase, Replied
  <2>2. Guarantee!Next
    BY <1>1, <1>2, <1>4, <1>5, <2>1, OthersView, OneCallMaps
  <2>3. QED
    BY <2>2
<1>6. CASE c \notin Commands
  BY <1>1, <1>2, <1>6, GoesOnMaps
<1> QED
  BY <1>5, <1>6

LEMMA StartMaps ==
  ASSUME ClientTypeOK, CallsOK, NEW c \in Calls, Start(c), UNCHANGED executed
  PROVE  [Guarantee!Next]_Guarantee!vars
<1>1. pc[c] = "idle" /\ UNCHANGED sent
  BY DEF Start
<1>2. \A d \in Calls : Executions(d)' = Executions(d)
  BY <1>1 DEF Executions
<1>3. CASE Finish(c, "lost")
  BY <1>1, <1>2, <1>3, FinishMaps DEF Outcomes
<1>4. CASE ~Finish(c, "lost")
  <2>1. /\ UNCHANGED outcome /\ outcome[c] = "none" /\ pc'[c] # "idle"
        /\ \A d \in Calls \ {c} : pc'[d] = pc[d]
    BY <1>1, <1>4 DEF Start, Goto, ClientTypeOK, CallsOK, CallOK
  <2>2. CASE c \in Commands
    <3>1. Phase(c) = "idle" /\ Phase(c)' = "running" /\ Replied(c)' = Replied(c)
      BY <1>1, <2>1 DEF Phase, Replied
    <3>2. Guarantee!Next
      BY <1>2, <2>1, <2>2, <3>1, OthersView, OneCallMaps
    <3>3. QED
      BY <3>2
  <2>3. CASE c \notin Commands
    BY <1>2, <2>1, <2>3, GoesOnMaps
  <2>4. QED
    BY <2>2, <2>3
<1> QED
  BY <1>3, <1>4

LEMMA ProgressMaps ==
  ASSUME WireTypeOK, ClientTypeOK, ServerTypeOK, ReaderHasSocket, RepliesOK, CallsOK,
         OnceInv, BudgetInv, NEW c \in Calls, NEW listening, Progress(c, listening), UNCHANGED executed
  PROVE  [Guarantee!Next]_Guarantee!vars
<1>1. CASE ReadReply(c)
  BY <1>1, ReadReplyMaps
<1>2. CASE ~ReadReply(c)
  <2>1. UNCHANGED sent \/ TakeId(c)
    BY <1>2 DEF Progress, NotConnected, SendRequest, SendFails, DiscardStale, ReadFails,
                CloseAfterFailure, OpenSocket, OpenFails, ReadHandshake, HandshakeFails, Greet,
                CloseAfterConnectFailure, Close
  <2>2. \A d \in Calls : Executions(d)' = Executions(d)
    BY <2>1, ClientExecutesNothing
  <2>3. ASSUME NEW p \in PCs \ {"idle"}, Goto(c, p), UNCHANGED outcome, pc[c] # "idle"
        PROVE  [Guarantee!Next]_Guarantee!vars
    <3>1. pc'[c] = p /\ \A d \in Calls \ {c} : pc'[d] = pc[d]
      BY <2>3 DEF Goto, ClientTypeOK
    <3>2. QED
      BY <2>2, <2>3, <3>1, GoesOnMaps
  <2>4. ASSUME NEW r \in Outcomes \ {"none", "ok", "error"}, Finish(c, r),
               pc[c] \notin {"closing", "done"}
        PROVE  [Guarantee!Next]_Guarantee!vars
    BY <2>2, <2>4, FinishMaps
  <2>5. CASE Close(c)
    <3>1. /\ pc[c] = "closing" /\ pc'[c] = "done"
          /\ \A d \in Calls \ {c} : pc'[d] = pc[d] /\ outcome'[d] = outcome[d]
      BY <2>5 DEF Close, Goto, ClientTypeOK
    <3>2. c \in Commands => outcome'[c] = outcome[c]
      BY <2>5, <3>1 DEF Close, CallsOK, CallOK, ClientTypeOK, Commands
    <3>3. QED
      BY <2>2, <3>1, <3>2, GoesOnMaps
  <2>6. CASE Greet(c)
    <3>1. CASE Finish(c, "ok") /\ Kind[c] = "connect"
      BY <2>2, <2>6, <3>1, FinishMaps DEF Greet, Outcomes, Commands
    <3>2. CASE ~(Finish(c, "ok") /\ Kind[c] = "connect")
      BY <2>3, <2>4, <2>6, <3>2 DEF Greet, NextAttempt, Outcomes, PCs
    <3>3. QED
      BY <3>1, <3>2
  <2>7. CASE SendRequest(c) \/ SendFails(c) \/ NotConnected(c) \/ ReadFails(c)
    BY <2>3, <2>7 DEF SendRequest, SendFails, TakeId, NotConnected, ReadFails, Continue, PCs
  <2>8. CASE DiscardStale(c)
    BY <2>3, <2>4, <2>8 DEF DiscardStale, Incoming, Continue, Outcomes, PCs
  <2>9. CASE CloseAfterFailure(c) \/ CloseAfterConnectFailure(c)
    <3>1. CASE Finish(c, "lost") \/ Finish(c, "unreachable")
      BY <2>4, <2>9, <3>1 DEF CloseAfterFailure, CloseAfterConnectFailure, Outcomes
    <3>2. CASE ~(Finish(c, "lost") \/ Finish(c, "unreachable"))
      BY <2>3, <2>9, <3>2 DEF CloseAfterFailure, CloseAfterConnectFailure, NextAttempt, PCs
    <3>3. QED
      BY <3>1, <3>2
  <2>10. ASSUME NEW k \in Conns, OpenSocket(c, k, listening)
         PROVE  [Guarantee!Next]_Guarantee!vars
    BY <2>3, <2>10 DEF OpenSocket, Continue, PCs
  <2>11. CASE OpenFails(c) \/ HandshakeFails(c) \/ ReadHandshake(c)
    BY <2>3, <2>4, <2>11 DEF OpenFails, HandshakeFails, ReadHandshake, Incoming, Continue,
                             Outcomes, PCs
  <2> QED
    BY <1>2, <2>5, <2>6, <2>7, <2>8, <2>9, <2>10, <2>11 DEF Progress
<1> QED
  BY <1>1, <1>2

LEMMA ClientFaultMaps ==
  ASSUME ClientTypeOK, ServerTypeOK, CallsOK, OnceInv, NEW c \in Calls, ClientFault(c),
         UNCHANGED executed
  PROVE  [Guarantee!Next]_Guarantee!vars
<1>1. \A d \in Calls : Executions(d)' = Executions(d)
  BY ClientExecutesNothing DEF ClientFault, SendTimesOut, Interrupt
<1>2. CASE SendTimesOut(c)
  BY <1>1, <1>2, FinishMaps DEF SendTimesOut, TakeId, Outcomes
<1>3. CASE Interrupt(c)
  BY <1>1, <1>3, FinishMaps DEF Interrupt, Outcomes
<1> QED
  BY <1>2, <1>3 DEF ClientFault

\* What the agent executes is the request of one call, which has begun and
\* is within its budget - or of a call that is no command.
LEMMA DequeueMaps ==
  ASSUME ServerTypeOK, ClientTypeOK, OnceInv, BudgetInv, Dequeue, UNCHANGED clientVars
  PROVE  [Guarantee!Next]_Guarantee!vars
<1> DEFINE n == pending[1].id
<1>1. /\ executed' = executed \cup {n} /\ n \notin executed
      /\ UNCHANGED <<sent, pc, outcome>>
  <2>1. Head(pending) = pending[1] /\ 1 \in DOMAIN pending
    BY DEF Dequeue, ServerTypeOK
  <2>2. QED
    BY <2>1 DEF Dequeue, clientVars, OnceInv, HandedOverOnce
<1> HIDE DEF n
<1>2. \A d \in Calls : IsFiniteSet(sent[d] \cap executed)
  BY FS_Subset DEF BudgetInv, SentOK
<1>3. ASSUME NEW d \in Calls, n \notin sent[d] PROVE Executions(d)' = Executions(d)
  <2>1. sent'[d] \cap executed' = sent[d] \cap executed
    BY <1>1, <1>3
  <2>2. QED
    BY <2>1 DEF Executions
<1>4. \A d \in Commands : Phase(d)' = Phase(d) /\ Replied(d)' = Replied(d)
  BY <1>1 DEF Phase, Replied
<1>5. CASE \A d \in Commands : n \notin sent[d]
  BY <1>3, <1>4, <1>5, StutterMaps DEF SameView, Commands
<1>6. CASE \E d \in Commands : n \in sent[d]
  <2>1. PICK c \in Commands : n \in sent[c]
    BY <1>6
  <2>2. c \in Calls /\ \A d \in Commands \ {c} : d \in Calls /\ n \notin sent[d]
    BY <2>1 DEF BudgetInv, SentOK, Commands
  <2>3. Executions(c)' = Executions(c) + 1
    <3>1. sent'[c] \cap executed' = (sent[c] \cap executed) \cup {n}
      BY <1>1, <2>1
    <3>2. n \notin sent[c] \cap executed
      BY <1>1
    <3>3. QED
      BY <1>2, <2>2, <3>1, <3>2, FS_AddElement DEF Executions
  <2>4. Executions(c) < Attempts(c)
    <3>1. /\ IsFiniteSet(sent[c])
          /\ sent[c] \cap executed \subseteq sent[c] /\ sent[c] \cap executed # sent[c]
      BY <1>1, <2>1, <2>2 DEF BudgetInv, SentOK
    <3>2. Cardinality(sent[c] \cap executed) < Cardinality(sent[c])
      BY <3>1, FS_Subset, FS_CardinalityType
    <3>3. Cardinality(sent[c]) <= Attempts(c)
      BY <2>1 DEF BudgetInv, WithinBudget
    <3>4. /\ Cardinality(sent[c] \cap executed) \in Nat /\ Cardinality(sent[c]) \in Nat
          /\ Attempts(c) \in Nat
      BY <1>2, <2>2, <3>1, FS_CardinalityType, AttemptsType
    <3>5. QED
      BY <3>2, <3>3, <3>4 DEF Executions
  <2>5. Phase(c) # "idle"
    BY <2>1 DEF BudgetInv, WithinBudget, Phase
  <2>6. Guarantee!Next
    BY <1>3, <1>4, <2>2, <2>3, <2>4, <2>5, OneCallMaps DEF SameView
  <2>7. QED
    BY <2>6
<1> QED
  BY <1>5, <1>6

\* Steps in which no call moves and nothing is executed.
LEMMA QuietMaps ==
  ASSUME UNCHANGED <<pc, outcome, sent, executed>>
  PROVE  UNCHANGED Guarantee!vars
<1>1. \A d \in Commands : SameView(d)
  BY DEF SameView, Phase, Replied, Executions
<1> QED
  BY <1>1, StutterMaps

LEMMA InitMaps == Init => Guarantee!Init
<1> SUFFICES ASSUME Init PROVE Guarantee!Init
  OBVIOUS
<1>1. \A c \in Commands : pc[c] = "idle" /\ outcome[c] = "none" /\ sent[c] \cap executed = {}
  BY DEF Init, ClientInit, ServerInit, Commands
<1>2. Cardinality({}) = 0
  BY FS_EmptySet
<1>3. [c \in Commands |-> Phase(c)] = [c \in Commands |-> "idle"]
  BY <1>1 DEF Phase
<1>4. {c \in Commands : outcome[c] \in {"ok", "error"}} = {}
  BY <1>1
<1>5. [c \in Commands |-> Cardinality(sent[c] \cap executed)] = [c \in Commands |-> 0]
  BY <1>1, <1>2
<1> QED
  BY <1>3, <1>4, <1>5 DEF Guarantee!Init

LEMMA NextMaps ==
  IInv /\ AnswerInv /\ OnceInv /\ BudgetInv /\ [Next]_vars => [Guarantee!Next]_Guarantee!vars
<1> SUFFICES ASSUME IInv, AnswerInv, OnceInv, BudgetInv, [Next]_vars
             PROVE  [Guarantee!Next]_Guarantee!vars
  OBVIOUS
<1>1. WireTypeOK /\ ClientTypeOK /\ ServerTypeOK /\ ReaderHasSocket /\ RepliesOK /\ CallsOK
  BY ReaderHasSocketHolds DEF IInv, SocketInv, AgentInv, AnswerInv
<1>2. ASSUME NEW c \in Calls, Begin(c) PROVE [Guarantee!Next]_Guarantee!vars
  BY <1>1, <1>2, StartMaps DEF Begin, serverVars
<1>3. ASSUME NEW c \in Calls, ClientStep(c) PROVE [Guarantee!Next]_Guarantee!vars
  BY <1>1, <1>3, ProgressMaps DEF ClientStep, serverVars
<1>4. ASSUME NEW c \in Calls, ClientFaults(c) PROVE [Guarantee!Next]_Guarantee!vars
  BY <1>1, <1>4, ClientFaultMaps DEF ClientFaults, serverVars
<1>5. CASE XCTestStep
  <2>1. CASE Dequeue
    BY <1>1, <1>5, <2>1, DequeueMaps DEF XCTestStep
  <2>2. CASE ~Dequeue
    BY <1>5, <2>2, QuietMaps DEF XCTestStep, XCTestThread, FinishCommand, Drained, KeepServing,
                                 StopServing, Down, clientVars
  <2>3. QED
    BY <2>1, <2>2
<1>6. ASSUME NEW k \in Conns, NetworkStep(k) \/ ResetStep(k)
      PROVE  [Guarantee!Next]_Guarantee!vars
  <2>1. UNCHANGED executed
    BY <1>6 DEF NetworkStep, Network, AcceptHandshake, RefuseHandshake, ReceiveRequest,
                RejectMalformed, ReceiveGarbled, ConnectionEnds, ResetStep, Reset, serverVars
  <2>2. QED
    BY <1>6, <2>1, QuietMaps DEF NetworkStep, ResetStep, clientVars, OtherClientVars
<1>7. CASE SurveyStep \/ CrashStep \/ RestartStep
  BY <1>7, QuietMaps DEF SurveyStep, FinishHandshake, CrashStep, Crash, Down, RestartStep,
                         Restart, clientVars, OtherClientVars
<1>8. CASE UNCHANGED vars
  BY <1>8, QuietMaps DEF vars, clientVars, serverVars
<1> QED
  BY <1>2, <1>3, <1>4, <1>5, <1>6, <1>7, <1>8 DEF Next, AllOver

\* At-least-once execution within the retry budget: a call that was given an
\* answer was executed, and no call is executed more often than it may try -
\* session.stop never twice.
THEOREM SessionImplementsAtLeastOnce == Spec => ImplementsAtLeastOnce
<1>1. Init => OnceInv /\ BudgetInv /\ AnswerInv /\ IInv
  BY InitIInv, InitAnswers, InitOnce, InitBudget
<1>2. IInv /\ AnswerInv /\ OnceInv /\ BudgetInv /\ [Next]_vars
        => IInv' /\ AnswerInv' /\ OnceInv' /\ BudgetInv'
  BY NextIInv, NextAnswers, NextOnce, NextBudget
<1>3. QED
  BY <1>1, <1>2, InitMaps, NextMaps, PTL DEF Spec, ImplementsAtLeastOnce, Guarantee!Spec


-----------------------------------------------------------------------------
(* The loops of invoke and connect *)

Connecting == {"connect", "hello", "greet", "connfail"}

\* Where a call can be, and how often it has still to be tried there.
PaceOK(c) ==
  /\ Trying(c) => attempt[c] >= 1
  /\ Trying(c) /\ c \notin Commands => Kind[c] = "connect" /\ pc[c] \in Connecting
  /\ pc[c] \in Connecting => tries[c] >= 1 /\ tries[c] <= Tries(c)

PaceInv == \A c \in Calls : PaceOK(c)

SamePlace(c) == pc'[c] = pc[c] /\ attempt'[c] = attempt[c] /\ tries'[c] = tries[c]

LEMMA SamePlacePace ==
  ASSUME NEW c \in Calls, SamePlace(c)
  PROVE  (PaceOK(c)' <=> PaceOK(c)) /\ StepsLeft(c)' = StepsLeft(c)
BY DEF SamePlace, PaceOK, Trying, StepsLeft, Attempts, Tries

\* As many as a direct connect() and a command with all its retries take.
MostSteps(c) == IF Kind[c] = "connect" THEN 3 * Tries(c) ELSE 9 * Attempts(c)

\* A call that is trying has a step to take, and its end: stop_agent two.
LEMMA TryingHasSteps ==
  ASSUME ClientTypeOK, BudgetInv, PaceInv, NEW c \in Calls, Trying(c)
  PROVE  /\ StepsLeft(c) \in Nat /\ StepsLeft(c) >= 1 /\ StepsLeft(c) <= MostSteps(c)
         /\ c \in Commands => StepsLeft(c) >= 2
<1>1. /\ attempt[c] \in Nat /\ tries[c] \in Nat /\ pc[c] \in PCs
      /\ Attempts(c) \in Nat /\ Attempts(c) >= 1 /\ attempt[c] >= 1
  BY AttemptsType DEF ClientTypeOK, PaceInv, PaceOK
<1>2. CASE c \in Commands
  <2>1. Kind[c] # "connect" /\ Tries(c) = 2
    BY <1>2 DEF Commands, Tries
  <2>2. /\ attempt[c] <= Attempts(c)
        /\ pc[c] \in Connecting => attempt[c] < Attempts(c) /\ tries[c] >= 1 /\ tries[c] <= 2
    BY <1>2, <2>1 DEF BudgetInv, WithinBudget, PaceInv, PaceOK, Connecting
  <2>3. QED
    BY <1>1, <2>1, <2>2 DEF StepsLeft, MostSteps, Trying, PCs, Connecting
<1>3. CASE c \notin Commands
  <2>1. Kind[c] = "connect" /\ pc[c] \in Connecting /\ tries[c] >= 1 /\ tries[c] <= Tries(c)
    BY <1>3 DEF PaceInv, PaceOK
  <2>2. Tries(c) \in Nat
    BY ClientAssumption DEF Tries
  <2>3. QED
    BY <1>1, <1>3, <2>1, <2>2 DEF StepsLeft, MostSteps, Connecting
<1> QED
  BY <1>2, <1>3

StepsAreCounted == \A c \in Calls : StepsLeft(c) \in 0 .. MostSteps(c)

LEMMA EveryoneHasSteps == ClientTypeOK /\ BudgetInv /\ PaceInv => StepsAreCounted
<1> SUFFICES ASSUME ClientTypeOK, BudgetInv, PaceInv, NEW c \in Calls
             PROVE  StepsLeft(c) \in 0 .. MostSteps(c)
  BY DEF StepsAreCounted
<1>0. MostSteps(c) \in Nat /\ MostSteps(c) >= 1
  BY ClientAssumption, AttemptsType DEF MostSteps, Tries
<1>1. CASE Trying(c)
  BY <1>0, <1>1, TryingHasSteps
<1>2. CASE ~Trying(c)
  BY <1>0, <1>2 DEF Trying, StepsLeft
<1> QED
  BY <1>1, <1>2

\* A call that ends.
LEMMA FinishRunsDown ==
  ASSUME ClientTypeOK, BudgetInv, PaceInv, NEW c \in Calls, NEW r, Trying(c), Finish(c, r)
  PROVE  PaceOK(c)' /\ StepsLeft(c)' < StepsLeft(c)
<1>1. pc'[c] = IF Kind[c] = "stop" THEN "closing" ELSE "done"
  BY DEF Finish, Goto, ClientTypeOK
<1>2. PaceOK(c)'
  BY <1>1 DEF PaceOK, Trying, Connecting
<1>3. StepsLeft(c)' = IF Kind[c] = "stop" THEN 1 ELSE 0
  BY <1>1 DEF StepsLeft
<1>4. Kind[c] = "stop" => c \in Commands
  BY DEF Commands
<1> QED
  BY <1>2, <1>3, <1>4, TryingHasSteps

\* A call that goes on in its attempt.
LEMMA ContinueRunsDown ==
  ASSUME ClientTypeOK, BudgetInv, PaceInv, NEW c \in Calls, NEW p \in PCs,
         Goto(c, p), attempt' = attempt, tries' = tries,
         \/ pc[c] = "attempt" /\ p \in {"reading", "failed"}
         \/ pc[c] = "reading" /\ p = "failed"
         \/ pc[c] = "connect" /\ p \in {"hello", "connfail"}
         \/ pc[c] = "hello" /\ p \in {"greet", "connfail"}
  PROVE  PaceOK(c)' /\ StepsLeft(c)' < StepsLeft(c)
<1>1. pc'[c] = p /\ attempt'[c] = attempt[c] /\ tries'[c] = tries[c]
  BY DEF Goto, ClientTypeOK
<1>2. PaceOK(c)'
  BY <1>1 DEF PaceInv, PaceOK, Trying, Connecting
<1>3. /\ attempt[c] \in Nat /\ tries[c] \in Nat /\ Attempts(c) \in Nat
      /\ Attempts(c)' = Attempts(c)
  BY AttemptsType DEF ClientTypeOK, Attempts
<1> QED
  BY <1>1, <1>2, <1>3 DEF StepsLeft

\* A call that begins its next attempt.
LEMMA NextAttemptRunsDown ==
  ASSUME ClientTypeOK, BudgetInv, PaceInv, NEW c \in Commands, NextAttempt(c),
         pc[c] \in {"greet", "connfail"}
  PROVE  PaceOK(c)' /\ StepsLeft(c)' < StepsLeft(c)
<1>1. /\ pc'[c] = "attempt" /\ attempt'[c] = attempt[c] + 1
      /\ c \in Calls /\ Kind[c] # "connect" /\ attempt[c] \in Nat
  BY DEF NextAttempt, Goto, ClientTypeOK, Commands
<1>2. PaceOK(c)'
  <2>1. attempt'[c] >= 1
    BY <1>1
  <2>2. QED
    BY <1>1, <2>1 DEF PaceOK, Trying, Connecting
<1>3. /\ attempt[c] \in Nat /\ tries[c] \in Nat /\ Attempts(c) \in Nat
      /\ Attempts(c)' = Attempts(c) /\ tries[c] >= 1
  BY <1>1, AttemptsType DEF ClientTypeOK, Attempts, PaceInv, PaceOK, Connecting
<1>4. StepsLeft(c) = 9 * (Attempts(c) - attempt[c]) + (3 * tries[c] - 2)
  BY <1>1 DEF StepsLeft
<1>5. StepsLeft(c)' = 9 * (Attempts(c) - (attempt[c] + 1)) + 9
  BY <1>1, <1>3 DEF StepsLeft
<1> QED
  BY <1>2, <1>3, <1>4, <1>5

\* A call that has closed the socket, to open it again.
LEMMA ReconnectRunsDown ==
  ASSUME ClientTypeOK, BudgetInv, PaceInv, NEW c \in Calls, NEW n \in Nat,
         Goto(c, "connect"), attempt' = attempt, tries' = [tries EXCEPT ![c] = n],
         \/ pc[c] = "failed" /\ n = 2 /\ Kind[c] # "connect"
         \/ pc[c] = "connfail" /\ n >= 1 /\ n = tries[c] - 1
  PROVE  PaceOK(c)' /\ StepsLeft(c)' < StepsLeft(c)
<1>1. pc'[c] = "connect" /\ attempt'[c] = attempt[c] /\ tries'[c] = n
  BY DEF Goto, ClientTypeOK
<1>2. Tries(c) \in Nat /\ tries[c] \in Nat /\ (Kind[c] # "connect" => Tries(c) = 2)
  BY ClientAssumption DEF Tries, ClientTypeOK
<1>3. Trying(c) /\ (pc[c] \in Connecting => tries[c] >= 1 /\ tries[c] <= Tries(c)) /\ PaceOK(c)
  BY DEF PaceInv, PaceOK, Trying
<1>4. n >= 1 /\ n <= Tries(c)
  BY <1>2, <1>3 DEF Connecting
<1>5. PaceOK(c)'
  <2>1. Tries(c)' = Tries(c)
    BY DEF Tries
  <2>2. QED
    BY <1>1, <1>3, <1>4, <2>1 DEF PaceOK, Trying, Connecting
<1>6. /\ attempt[c] \in Nat /\ Attempts(c) \in Nat /\ Attempts(c)' = Attempts(c)
  BY AttemptsType DEF ClientTypeOK, Attempts
<1> QED
  BY <1>1, <1>2, <1>5, <1>6 DEF StepsLeft

\* A step of a call runs it down, or discards a stale reply.
LEMMA ProgressRunsDown ==
  ASSUME WireTypeOK, ClientTypeOK, ReaderHasSocket, BudgetInv, PaceInv,
         NEW c \in Calls, NEW listening, Progress(c, listening)
  PROVE  \/ PaceOK(c)' /\ StepsLeft(c)' < StepsLeft(c)
         \/ SamePlace(c) /\ Len(down'[sock]) < Len(down[sock])
<1> USE DEF Continue, Trying, PCs
<1>1. CASE NotConnected(c)
  BY <1>1, ContinueRunsDown DEF NotConnected
<1>2. CASE SendRequest(c)
  BY <1>2, ContinueRunsDown DEF SendRequest, TakeId
<1>3. CASE SendFails(c)
  BY <1>3, ContinueRunsDown DEF SendFails, TakeId
<1>4. CASE ReadReply(c)
  BY <1>4, FinishRunsDown DEF ReadReply, Incoming
<1>5. CASE DiscardStale(c)
  <2>1. CASE Finish(c, "timeout")
    BY <1>5, <2>1, FinishRunsDown DEF DiscardStale, Incoming
  <2>2. CASE ~Finish(c, "timeout")
    <3>1. SamePlace(c)
      BY <1>5, <2>2 DEF DiscardStale, Incoming, Goto, ClientTypeOK, SamePlace
    <3>2. sock \in Conns /\ down[sock] # <<>> /\ down' = [down EXCEPT ![sock] = Tail(@)]
      BY <1>5 DEF DiscardStale, Incoming, ReaderHasSocket, PopReply
    <3>3. down \in [Conns -> Seq(DownFrame)]
      BY DEF WireTypeOK
    <3>4. down'[sock] = Tail(down[sock]) /\ down[sock] \in Seq(DownFrame)
      BY <3>2, <3>3
    <3>5. Len(down'[sock]) < Len(down[sock])
      <4>1. \A s \in Seq(DownFrame) : s # <<>> => Len(Tail(s)) < Len(s)
        BY HeadTailProperties
      <4>2. QED
        BY <3>2, <3>4, <4>1
    <3>6. QED
      BY <3>1, <3>5
  <2>3. QED
    BY <2>1, <2>2
<1>6. CASE ReadFails(c)
  BY <1>6, ContinueRunsDown DEF ReadFails
<1>7. CASE CloseAfterFailure(c)
  <2>1. CASE Finish(c, "lost")
    BY <1>7, <2>1, FinishRunsDown DEF CloseAfterFailure
  <2>2. CASE ~Finish(c, "lost")
    <3>1. c \in Commands
      BY <1>7 DEF CloseAfterFailure, PaceInv, PaceOK, Connecting
    <3>2. Tries(c) = 2
      BY <3>1 DEF Commands, Tries
    <3>3. Kind[c] # "connect"
      BY <3>1 DEF Commands
    <3>4. QED
      BY <1>7, <2>2, <3>2, <3>3, ReconnectRunsDown DEF CloseAfterFailure
  <2>3. QED
    BY <2>1, <2>2
<1>8. ASSUME NEW k \in Conns, OpenSocket(c, k, listening)
      PROVE  PaceOK(c)' /\ StepsLeft(c)' < StepsLeft(c)
  BY <1>8, ContinueRunsDown DEF OpenSocket
<1>9. CASE OpenFails(c)
  BY <1>9, ContinueRunsDown DEF OpenFails
<1>10. CASE ReadHandshake(c)
  <2>1. CASE Finish(c, "refused")
    BY <1>10, <2>1, FinishRunsDown DEF ReadHandshake, Incoming
  <2>2. CASE ~Finish(c, "refused")
    BY <1>10, <2>2, ContinueRunsDown DEF ReadHandshake, Incoming
  <2>3. QED
    BY <2>1, <2>2
<1>11. CASE HandshakeFails(c)
  BY <1>11, ContinueRunsDown DEF HandshakeFails
<1>12. ASSUME pc[c] \in {"greet", "connfail"}, Kind[c] # "connect" PROVE c \in Commands
  BY <1>12 DEF PaceInv, PaceOK
<1>13. CASE Greet(c)
  <2>1. CASE \E r : Finish(c, r)
    BY <1>13, <2>1, FinishRunsDown DEF Greet
  <2>2. CASE ~\E r : Finish(c, r)
    BY <1>12, <1>13, <2>2, NextAttemptRunsDown DEF Greet
  <2>3. QED
    BY <2>1, <2>2
<1>14. CASE CloseAfterConnectFailure(c)
  <2>1. CASE tries[c] > 1
    <3>1. tries[c] - 1 \in Nat /\ tries[c] - 1 >= 1
      BY <2>1 DEF ClientTypeOK
    <3>2. tries' = [tries EXCEPT ![c] = tries[c] - 1]
      BY <1>14, <2>1 DEF CloseAfterConnectFailure
    <3>3. QED
      BY <1>14, <2>1, <3>1, <3>2, ReconnectRunsDown DEF CloseAfterConnectFailure
  <2>2. CASE ~(tries[c] > 1) /\ Kind[c] = "connect"
    BY <1>14, <2>2, FinishRunsDown DEF CloseAfterConnectFailure
  <2>3. CASE ~(tries[c] > 1) /\ Kind[c] # "connect"
    BY <1>12, <1>14, <2>3, NextAttemptRunsDown DEF CloseAfterConnectFailure
  <2>4. QED
    BY <2>1, <2>2, <2>3
<1>15. CASE Close(c)
  <2>1. pc[c] = "closing" /\ pc'[c] = "done"
    BY <1>15 DEF Close, Goto, ClientTypeOK
  <2>2. QED
    BY <2>1 DEF PaceOK, Connecting, StepsLeft
<1> QED
  BY <1>1, <1>2, <1>3, <1>4, <1>5, <1>6, <1>7, <1>8, <1>9, <1>10, <1>11, <1>13, <1>14, <1>15
     DEF Progress

LEMMA OthersStay ==
  ASSUME ClientTypeOK, NEW c \in Calls, NEW d \in Calls \ {c},
         \/ Start(c) \/ (\E listening : Progress(c, listening)) \/ ClientFault(c)
  PROVE  SamePlace(d)
<1> USE DEF Goto, Continue, Finish, NextAttempt, SamePlace, ClientTypeOK
<1>1. CASE Start(c)
  BY <1>1 DEF Start
<1>2. ASSUME NEW listening, Progress(c, listening) PROVE SamePlace(d)
  BY <1>2 DEF Progress, NotConnected, SendRequest, SendFails, ReadReply, DiscardStale, ReadFails,
              CloseAfterFailure, OpenSocket, OpenFails, ReadHandshake, HandshakeFails, Greet,
              CloseAfterConnectFailure, Close
<1>3. CASE ClientFault(c)
  BY <1>3 DEF ClientFault, SendTimesOut, Interrupt
<1> QED
  BY <1>1, <1>2, <1>3

\* What a step does to a call: nothing, or it is the call's own step.
LEMMA StepRunsDown ==
  ASSUME IInv, BudgetInv, PaceInv, [Next]_vars, NEW c \in Calls
  PROVE  /\ PaceOK(c)'
         /\ c \in Active => SamePlace(c) \/ StepsLeft(c)' < StepsLeft(c)
<1>0. ClientTypeOK /\ WireTypeOK /\ ReaderHasSocket /\ PaceOK(c)
  BY ReaderHasSocketHolds DEF IInv, SocketInv, PaceInv
<1>1. CASE SamePlace(c)
  BY <1>0, <1>1, SamePlacePace
<1>2. CASE Begin(c)
  <2>1. c \notin Active
    BY <1>2 DEF Begin, Start, Active
  <2>2. CASE Finish(c, "lost")
    <3>1. pc'[c] \in {"closing", "done"}
      BY <1>0, <2>2 DEF Finish, Goto, ClientTypeOK
    <3>2. QED
      BY <2>1, <3>1 DEF PaceOK, Trying, Connecting
  <2>3. CASE ~Finish(c, "lost")
    <3>1. /\ pc'[c] = CASE Kind[c] = "connect" -> "connect"
                        [] Kind[c] = "close"   -> "closing"
                        [] OTHER               -> "attempt"
          /\ attempt'[c] = 1 /\ tries'[c] = Tries(c)
      BY <1>0, <1>2, <2>3 DEF Begin, Start, Goto, ClientTypeOK
    <3>2. Tries(c) >= 1
      BY ClientAssumption DEF Tries
    <3>3. PaceOK(c)'
      <4>1. Tries(c)' = Tries(c) /\ Tries(c) <= Tries(c)
        BY ClientAssumption DEF Tries
      <4>2. QED
        BY <3>1, <3>2, <4>1 DEF PaceOK, Trying, Connecting, Commands
    <3>4. QED
      BY <2>1, <3>3
  <2>4. QED
    BY <2>2, <2>3
<1>3. CASE ClientStep(c)
  BY <1>0, <1>1, <1>3, ProgressRunsDown DEF ClientStep
<1>4. CASE ClientFaults(c)
  <2>1. \E r : Finish(c, r) /\ Trying(c)
    BY <1>4 DEF ClientFaults, ClientFault, SendTimesOut, Interrupt, TakeId, Trying
  <2>2. QED
    BY <1>0, <2>1, FinishRunsDown
<1>5. ASSUME NEW d \in Calls \ {c}, Begin(d) \/ ClientStep(d) \/ ClientFaults(d)
      PROVE  SamePlace(c)
  <2>1. c \in Calls \ {d}
    BY <1>5
  <2>2. QED
    BY <1>0, <1>5, <2>1, OthersStay DEF Begin, ClientStep, ClientFaults
<1>6. ASSUME UNCHANGED OtherClientVars \/ UNCHANGED clientVars PROVE SamePlace(c)
  BY <1>6 DEF OtherClientVars, clientVars, SamePlace
<1> QED
  BY <1>1, <1>2, <1>3, <1>4, <1>5, <1>6
     DEF Next, NetworkStep, ResetStep, SurveyStep, XCTestStep, CrashStep, RestartStep, AllOver,
         vars

LEMMA InitPace == Init => PaceInv
BY DEF Init, ClientInit, PaceInv, PaceOK, Trying, Connecting

PaceHolds == IInv /\ AnswerInv /\ BudgetInv /\ PaceInv

LEMMA PaceInvariant == Spec => []PaceHolds
<1>1. IInv /\ BudgetInv /\ PaceInv /\ [Next]_vars => PaceInv'
  BY StepRunsDown DEF PaceInv
<1>2. Init => PaceHolds
  BY InitIInv, InitAnswers, InitBudget, InitPace DEF PaceHolds
<1>3. PaceHolds /\ [Next]_vars => PaceHolds'
  BY <1>1, NextIInv, NextAnswers, NextBudget DEF PaceHolds
<1> QED
  BY <1>2, <1>3, PTL DEF Spec

\* However many times invoke and connect may try again: a call takes nine steps
\* for each of its attempts at the most, connect() three for each of its tries.
THEOREM CallsHaveFewSteps == Spec => []StepsAreCounted
<1>1. PaceHolds => StepsAreCounted
  BY EveryoneHasSteps DEF PaceHolds, IInv, SocketInv
<1> QED
  BY <1>1, PaceInvariant, PTL

\* For any number of calls, retries, faults and restarts: a call of the SDK has
\* a last step, whatever the agent, the wire and the other calls do.  What is
\* left to fairness is that it takes its steps, and that replies do not come in
\* faster than it discards them.
THEOREM CallsComeToAnEnd == Spec => CallsRunDown
<1>1. ASSUME PaceHolds, StepsAreCounted, StepsAreCounted', [Next]_vars
      PROVE  \A c \in Active :
               /\ StepsLeft(c)' \in 0 .. StepsLeft(c)
               /\ ClientStep(c) => \/ StepsLeft(c)' < StepsLeft(c)
                                   \/ Len(down'[sock]) < Len(down[sock])
  <2> TAKE c \in Active
  <2>1. c \in Calls /\ ClientTypeOK /\ WireTypeOK /\ ReaderHasSocket
    BY <1>1, ReaderHasSocketHolds DEF Active, PaceHolds, IInv, SocketInv
  <2>2. StepsLeft(c) \in Nat /\ StepsLeft(c)' \in Nat
    <3>1. \A n : n \in 0 .. MostSteps(c) => n \in Nat
      OBVIOUS
    <3>2. StepsLeft(c) \in 0 .. MostSteps(c) /\ StepsLeft(c)' \in 0 .. MostSteps(c)'
      BY <1>1, <2>1 DEF StepsAreCounted
    <3>3. QED
      BY <3>1, <3>2
  <2>3. SamePlace(c) \/ StepsLeft(c)' < StepsLeft(c)
    BY <1>1, <2>1, StepRunsDown DEF PaceHolds
  <2>4. SamePlace(c) => StepsLeft(c)' = StepsLeft(c)
    BY <2>1, SamePlacePace
  <2>5. ClientStep(c) => StepsLeft(c)' < StepsLeft(c) \/ Len(down'[sock]) < Len(down[sock])
    BY <1>1, <2>1, ProgressRunsDown DEF ClientStep, PaceHolds
  <2>6. QED
    BY <2>2, <2>3, <2>4, <2>5
<1>2. QED
  BY <1>1, PaceInvariant, CallsHaveFewSteps, PTL DEF Spec, CallsRunDown

\* No call is executed more often than it may try, whether it was answered or
\* gave up, and whatever reached the agent late: session.stop never twice.
THEOREM ExecutedWithinBudget == Spec => [](\A c \in Commands : Executions(c) <= Attempts(c))
<1>1. BudgetInv => \A c \in Commands : Executions(c) <= Attempts(c)
  <2> SUFFICES ASSUME BudgetInv, NEW c \in Commands PROVE Executions(c) <= Attempts(c)
    OBVIOUS
  <2>1. IsFiniteSet(sent[c]) /\ Cardinality(sent[c]) <= Attempts(c) /\ c \in Calls
    BY DEF BudgetInv, SentOK, WithinBudget, Commands
  <2>2. /\ Executions(c) <= Cardinality(sent[c])
        /\ Executions(c) \in Nat /\ Cardinality(sent[c]) \in Nat
    BY <2>1, FS_Subset, FS_CardinalityType DEF Executions
  <2>3. QED
    BY <2>1, <2>2, AttemptsType
<1> QED
  BY <1>1, PaceInvariant, PTL DEF PaceHolds
=============================================================================
