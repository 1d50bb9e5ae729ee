---------------------------- MODULE DeliveryProofs ----------------------------
(***************************************************************************)
(* Theorems about Delivery: what deliverLocally() owes a connection, for   *)
(* any number of messages, connections and users.                          *)
(***************************************************************************)
EXTENDS Delivery, NetiflyServerProofs

-----------------------------------------------------------------------------
\* The server under Delivery

\* A step of Delivery is one of the server, with what it does to the messages,
\* a publication, or a delivery.
LEMMA DeliveryParts ==
  ASSUME [DeliveryNext]_allVars
  PROVE  \/ /\ [Next]_vars /\ sent' = sent /\ got' = got
            /\ push' = push \/ (TransportClosed /\ push' = <<>>)
         \/ UNCHANGED vars /\ \E u \in User : Publish(u)
         \/ \E stalled \in SUBSET Conn : DeliverLocally(stalled)
<1>1. CASE ServerStep
  BY <1>1 DEF ServerStep, Next, CloseStep, deliveryVars
<1>2. CASE CloseDelivery
  BY <1>2 DEF CloseDelivery, Next, CloseStep
<1>3. CASE \E u \in User : Publish(u)
  BY <1>3 DEF Publish
<1>4. CASE UNCHANGED allVars
  BY <1>4 DEF allVars, deliveryVars
<1> QED
  BY <1>1, <1>2, <1>3, <1>4 DEF DeliveryNext

\* What a delivery does to the server: it closes the stalled sockets.
LEMMA DeliveryCloses ==
  ASSUME NEW stalled \in SUBSET Conn, DeliverLocally(stalled)
  PROVE  /\ CloseSockets(stalled)
         /\ UNCHANGED <<stage, userOf, registry, phase, tally, transportVars>>
BY DEF DeliverLocally

LEMMA ClosingTyped ==
  ASSUME Typed, NEW S, CloseSockets(S),
         UNCHANGED <<stage, userOf, registry, phase, tally, transportVars>>
  PROVE  Typed'
BY DEF Typed, TypeOK, OwnerKnown, ReadyState, CloseSockets, Closing, transportVars,
   TransportTypeOK

ServerInv == Typed /\ RegistryInv

LEMMA ServerKept ==
  ASSUME ServerInv, [DeliveryNext]_allVars
  PROVE  ServerInv'
<1>1. CASE [Next]_vars
  BY <1>1, NextTyped, NextRegistry DEF ServerInv
<1>2. CASE UNCHANGED vars
  BY <1>2, NextTyped, NextRegistry DEF ServerInv
<1>3. ASSUME NEW stalled \in SUBSET Conn, DeliverLocally(stalled) PROVE ServerInv'
  BY <1>3, DeliveryCloses, ClosingTyped, ClosingRegistry DEF ServerInv
<1> QED
  BY <1>1, <1>2, <1>3, DeliveryParts

LEMMA CountsKept ==
  ASSUME SubscribeMayFail = FALSE, Typed, RefCountsMatchHolders, CountedIsSubscribed,
         [DeliveryNext]_allVars
  PROVE  RefCountsMatchHolders' /\ CountedIsSubscribed'
<1>1. CASE [Next]_vars
  BY <1>1, NextCounted, NextDecides
<1>2. CASE UNCHANGED vars
  BY <1>2, NextCounted, NextDecides
<1>3. ASSUME NEW stalled \in SUBSET Conn, DeliverLocally(stalled)
      PROVE  RefCountsMatchHolders' /\ CountedIsSubscribed'
  BY <1>3, DeliveryCloses DEF RefCountsMatchHolders, CountedIsSubscribed,
     TransportOpen, Holders, WillBeSubscribed, transportVars
<1> QED
  BY <1>1, <1>2, <1>3, DeliveryParts

-----------------------------------------------------------------------------
\* Connections that have been registered

\* As long as it is OPEN, a connection that was registered still is.
Anchored(c) == ready[c] # "NONE" /\ (ready[c] = "OPEN" => stage[c] = "live")

LEMMA OpenHereIs ==
  ASSUME ServerInv, NEW u \in User
  PROVE  OpenHere(u) = {c \in Conn : ready[c] = "OPEN" /\ stage[c] = "live" /\ userOf[c] = u}
BY DEF ServerInv, RegistryInv, RegistryIsLive, OpenHere

\* A socket that exists keeps its user, and never becomes OPEN again.
LEMMA AnchoredStays ==
  ASSUME ServerInv, NEW c \in Conn, [DeliveryNext]_allVars, Anchored(c)
  PROVE  /\ Anchored(c)' /\ userOf'[c] = userOf[c]
         /\ ready'[c] = "OPEN" => ready[c] = "OPEN"
<1> USE DEF ServerInv, Typed, TypeOK, ReadyState, Anchored, SetStage
<1>0. stage[c] \notin {"none", "resolving", "rejected"}
  BY DEF RegistryInv, SocketKnown
<1>1. ASSUME UNCHANGED <<stage, userOf>>, NEW S, CloseSockets(S)
      PROVE  /\ Anchored(c)' /\ userOf'[c] = userOf[c]
             /\ ready'[c] = "OPEN" => ready[c] = "OPEN"
  BY <1>1 DEF CloseSockets, Closing
<1>2. ASSUME NEW d \in Conn, ConnStep(d)
      PROVE  /\ Anchored(c)' /\ userOf'[c] = userOf[c]
             /\ ready'[c] = "OPEN" => ready[c] = "OPEN"
  <2>1. CASE TerminateDead(d) \/ PeerClosing(d)
    BY <1>1, <2>1 DEF TerminateDead, PeerClosing
  <2>2. CASE UpgradeRequest(d) \/ RejectUpgrade(d)
             \/ \E u \in User : RejectOverCap(d, u) \/ AbortHandshake(d, u)
    <3>1. d # c /\ UNCHANGED <<userOf, ready>>
      BY <1>0, <2>2 DEF UpgradeRequest, RejectUpgrade, RejectOverCap, AbortHandshake
    <3>2. PICK s \in {"resolving", "rejected"} : stage' = [stage EXCEPT ![d] = s]
      BY <2>2 DEF UpgradeRequest, RejectUpgrade, RejectOverCap, AbortHandshake
    <3> QED
      BY <3>1, <3>2
  <2>3. ASSUME NEW u \in User, AcceptUpgrade(d, u)
        PROVE  /\ Anchored(c)' /\ userOf'[c] = userOf[c]
               /\ ready'[c] = "OPEN" => ready[c] = "OPEN"
    <3>1. d # c
      BY <1>0, <2>3 DEF AcceptUpgrade
    <3>2. PICK s \in Stage : stage' = [stage EXCEPT ![d] = s]
      BY <2>3 DEF AcceptUpgrade, Stage
    <3> QED
      BY <2>3, <3>1, <3>2 DEF AcceptUpgrade
  <2>4. CASE Register(d)
    BY <2>4 DEF Register
  <2>5. CASE SubscribeAnswered(d) \/ SubscribeRejected(d) \/ RegisterTooLate(d)
             \/ RegisterFailed(d)
    <3>1. UNCHANGED userOf /\ stage[d] # "live" /\ (ready[d] = "OPEN" => d # c \/ stage[d] = "live")
      BY <2>5 DEF SubscribeAnswered, SubscribeRejected, RegisterTooLate, RegisterFailed
    <3>2. PICK s \in {"returning", "failing", "done"} : stage' = [stage EXCEPT ![d] = s]
      BY <2>5 DEF SubscribeAnswered, SubscribeRejected, RegisterTooLate, RegisterFailed
    <3>3. \/ ready' = ready
          \/ ready' = [ready EXCEPT ![d] = Closing(@)]
      BY <2>5 DEF SubscribeAnswered, SubscribeRejected, RegisterTooLate, RegisterFailed
    <3> QED
      BY <3>1, <3>2, <3>3 DEF Closing
  <2>6. CASE SocketClosedLive(d) \/ SocketClosedEarly(d)
    <3>1. UNCHANGED userOf /\ ready' = [ready EXCEPT ![d] = "CLOSED"]
      BY <2>6 DEF SocketClosedLive, SocketClosedEarly
    <3>2. \A e \in Conn : e # d => stage'[e] = stage[e]
      BY <2>6 DEF SocketClosedLive, SocketClosedEarly
    <3> QED
      BY <3>1, <3>2
  <2> QED
    BY <1>2, <2>1, <2>2, <2>3, <2>4, <2>5, <2>6 DEF ConnStep
<1>3. ASSUME NEW u \in User, UserStep(u)
      PROVE  /\ Anchored(c)' /\ userOf'[c] = userOf[c]
             /\ ready'[c] = "OPEN" => ready[c] = "OPEN"
  BY <1>1, <1>3 DEF UserStep, UnsubscribeAnswered, UnsubscribeRejected, Disconnect, serverVars
<1>4. CASE CloseGracefully \/ CloseAtOnce
  BY <1>1, <1>4 DEF CloseGracefully, CloseAtOnce
<1>5. CASE WssClosed \/ TransportClosed \/ UNCHANGED vars
  BY <1>5 DEF WssClosed, TransportClosed, vars
<1>6. ASSUME NEW stalled \in SUBSET Conn, DeliverLocally(stalled)
      PROVE  /\ Anchored(c)' /\ userOf'[c] = userOf[c]
             /\ ready'[c] = "OPEN" => ready[c] = "OPEN"
  BY <1>1, <1>6, DeliveryCloses
<1> QED
  BY <1>2, <1>3, <1>4, <1>5, <1>6, DeliveryParts DEF Next, CloseStep

-----------------------------------------------------------------------------
\* Type correctness

MessagesTyped ==
  /\ sent \in Seq(Message)
  /\ push \in Seq(1..Len(sent))
  /\ got \in [Conn -> Seq(1..Len(sent))]

LEMMA SeqWidens ==
  ASSUME NEW S, NEW T, S \subseteq T, NEW q \in Seq(S)
  PROVE  q \in Seq(T)
OBVIOUS

\* What a publication appends.
LEMMA PublishIs ==
  ASSUME ServerInv, MessagesTyped, NEW u \in User, Publish(u)
  PROVE  \E m \in Message :
           /\ m.to = u /\ m.receivers = (IF u \in channel THEN 1 ELSE 0)
           /\ m.audience = (IF wire[u] = <<>> THEN OpenHere(u) ELSE {})
           /\ sent' = Append(sent, m)
           /\ push' = IF m.receivers = 1 THEN Append(push, Len(sent) + 1) ELSE push
           /\ got' = got
<1> DEFINE m == [to |-> u, receivers |-> IF u \in channel THEN 1 ELSE 0,
                 audience |-> IF wire[u] = <<>> THEN OpenHere(u) ELSE {}]
<1>1. OpenHere(u) \subseteq Conn
  BY OpenHereIs
<1>2. m \in Message
  BY <1>1 DEF Message
<1> QED
  BY <1>2 DEF Publish

LEMMA AppendSent ==
  ASSUME sent \in Seq(Message), NEW m \in Message
  PROVE  /\ Append(sent, m) \in Seq(Message)
         /\ Len(sent) \in Nat /\ Len(Append(sent, m)) = Len(sent) + 1
         /\ 1..Len(sent) \subseteq 1..Len(Append(sent, m))
         /\ 1..Len(Append(sent, m)) = 1..Len(sent) \cup {Len(sent) + 1}
         /\ \A n \in 1..Len(sent) : Append(sent, m)[n] = sent[n]
         /\ Append(sent, m)[Len(sent) + 1] = m
<1>1. /\ Append(sent, m) \in Seq(Message)
      /\ Len(sent) \in Nat /\ Len(Append(sent, m)) = Len(sent) + 1
      /\ \A n \in 1..Len(sent) : Append(sent, m)[n] = sent[n]
      /\ Append(sent, m)[Len(sent) + 1] = m
  OBVIOUS
<1> QED
  BY <1>1

\* The message deliverLocally() has in hand.
LEMMA InHand ==
  ASSUME MessagesTyped, push # <<>>
  PROVE  /\ Head(push) \in 1..Len(sent) /\ Head(push) = push[1]
         /\ Tail(push) \in Seq(1..Len(sent))
         /\ Len(push) \in Nat /\ Len(push) >= 1 /\ Len(Tail(push)) = Len(push) - 1
         /\ \A j \in 1..Len(Tail(push)) : Tail(push)[j] = push[j + 1] /\ j + 1 \in 1..Len(push)
         /\ sent[Head(push)].to \in User
<1>1. /\ Head(push) \in 1..Len(sent) /\ Head(push) = push[1]
      /\ Tail(push) \in Seq(1..Len(sent))
      /\ Len(push) \in Nat /\ Len(push) >= 1 /\ Len(Tail(push)) = Len(push) - 1
      /\ \A j \in 1..Len(Tail(push)) : Tail(push)[j] = push[j + 1]
  BY DEF MessagesTyped
<1>2. sent[Head(push)] \in Message
  BY <1>1 DEF MessagesTyped
<1> QED
  BY <1>1, <1>2 DEF Message

LEMMA NextMessagesTyped ==
  ASSUME ServerInv, MessagesTyped, [DeliveryNext]_allVars
  PROVE  MessagesTyped'
<1>1. CASE sent' = sent /\ got' = got /\ push' \in {push, <<>>}
  <2>1. <<>> \in Seq(1..Len(sent))
    OBVIOUS
  <2> QED
    BY <1>1, <2>1 DEF MessagesTyped
<1>2. ASSUME NEW u \in User, Publish(u) PROVE MessagesTyped'
  <2>1. PICK m \in Message : /\ sent' = Append(sent, m) /\ got' = got
                             /\ push' = push \/ push' = Append(push, Len(sent) + 1)
    BY <1>2, PublishIs
  <2>2. /\ sent' \in Seq(Message) /\ Len(sent) + 1 \in 1..Len(sent')
        /\ 1..Len(sent) \subseteq 1..Len(sent')
    BY <2>1, AppendSent DEF MessagesTyped
  <2>3. push \in Seq(1..Len(sent'))
    BY <2>2, SeqWidens DEF MessagesTyped
  <2>4. push' \in Seq(1..Len(sent'))
    <3> DEFINE n == Len(sent')
    <3>1. push \in Seq(1..n) /\ Len(sent) + 1 \in 1..n
      BY <2>2, <2>3
    <3> HIDE DEF n
    <3>2. Append(push, Len(sent) + 1) \in Seq(1..n)
      BY <3>1
    <3> QED
      BY <2>1, <3>1, <3>2 DEF n
  <2>5. ASSUME NEW c \in Conn PROVE got[c] \in Seq(1..Len(sent'))
    BY <2>2, SeqWidens DEF MessagesTyped
  <2>6. got' \in [Conn -> Seq(1..Len(sent'))]
    BY <2>1, <2>5 DEF MessagesTyped
  <2> QED
    BY <2>2, <2>4, <2>6 DEF MessagesTyped
<1>3. ASSUME NEW stalled \in SUBSET Conn, DeliverLocally(stalled) PROVE MessagesTyped'
  <2>1. /\ Head(push) \in 1..Len(sent) /\ push' = Tail(push) /\ sent' = sent
        /\ Tail(push) \in Seq(1..Len(sent))
    BY <1>3, InHand DEF DeliverLocally
  <2>2. \A c \in Conn : Append(got[c], Head(push)) \in Seq(1..Len(sent))
    BY <2>1 DEF MessagesTyped
  <2>3. got' \in [Conn -> Seq(1..Len(sent))]
    BY <1>3, <2>2 DEF DeliverLocally, MessagesTyped
  <2> QED
    BY <2>1, <2>3 DEF MessagesTyped
<1> QED
  BY <1>1, <1>2, <1>3, DeliveryParts

DeliveryTyped == ServerInv /\ MessagesTyped

LEMMA InitDelivery == DeliveryInit => DeliveryTyped
<1> SUFFICES ASSUME DeliveryInit PROVE DeliveryTyped
  OBVIOUS
<1>1. ServerInv
  BY InitTyped, InitRegistry DEF DeliveryInit, ServerInv
<1>2. <<>> \in Seq(Message) /\ <<>> \in Seq(1..Len(sent))
  OBVIOUS
<1> QED
  BY <1>1, <1>2 DEF DeliveryInit, DeliveryTyped, MessagesTyped

\* Every message on its way or written to a socket was published.
THEOREM DeliveryTypeCorrect == DeliverySpec => []DeliveryTypeOK
<1>1. DeliveryTyped /\ [DeliveryNext]_allVars => DeliveryTyped'
  BY ServerKept, NextMessagesTyped DEF DeliveryTyped
<1>2. DeliveryTyped => DeliveryTypeOK
  BY DEF DeliveryTyped, DeliveryTypeOK, MessagesTyped, ServerInv, Typed
<1> QED
  BY <1>1, <1>2, InitDelivery, PTL DEF DeliverySpec

-----------------------------------------------------------------------------
\* Order

Increasing(q) == \A i, j \in 1..Len(q) : i < j => q[i] < q[j]

\* Redis pushes in the order of publication, whatever is missing ...
PushInOrder == Increasing(push)

\* ... everything that was counted and comes after the next push is on its way ...
PushComplete ==
  \A m \in 1..Len(sent) :
    push # <<>> /\ sent[m].receivers = 1 /\ m > push[1] => InFlight(m)

\* ... and what a connection got was published before that.
GotInOrder ==
  \A c \in Conn :
    /\ Increasing(got[c])
    /\ \A i \in 1..Len(got[c]), j \in 1..Len(push) : got[c][i] < push[j]

\* A connection that got anything was registered.
GotAnchored == \A c \in Conn : got[c] # <<>> => Anchored(c)

\* While a connection is OPEN, everything for its user since the first message
\* it got has reached it or is on its way.
NothingMissed ==
  \A c \in Conn : ready[c] = "OPEN" =>
    \A i \in 1..Len(got[c]) : \A m \in 1..Len(sent) :
      got[c][i] < m /\ sent[m].to = userOf[c] /\ sent[m].receivers = 1
        => Received(c, m) \/ InFlight(m)

GapInv ==
  /\ DeliveryTyped /\ PushInOrder /\ PushComplete /\ GotInOrder /\ GotAnchored
  /\ NothingMissed /\ NoSilentGap

LEMMA IncreasingTail ==
  ASSUME NEW n \in Nat, NEW q \in Seq(1..n), q # <<>>, Increasing(q)
  PROVE  /\ Increasing(Tail(q))
         /\ \A j \in 1..Len(Tail(q)) : Head(q) < Tail(q)[j]
<1>1. /\ Len(q) \in Nat /\ Len(q) >= 1 /\ Len(Tail(q)) = Len(q) - 1
      /\ Head(q) = q[1]
      /\ \A j \in 1..Len(Tail(q)) : Tail(q)[j] = q[j + 1]
  OBVIOUS
<1>2. \A j \in 1..Len(Tail(q)) : j + 1 \in 1..Len(q) /\ 1 < j + 1
  BY <1>1
<1>3. 1 \in 1..Len(q)
  BY <1>1
<1>4. Increasing(Tail(q))
  <2> SUFFICES ASSUME NEW i \in 1..Len(Tail(q)), NEW j \in 1..Len(Tail(q)), i < j
               PROVE  q[i + 1] < q[j + 1]
    BY <1>1 DEF Increasing
  <2>1. i + 1 < j + 1
    BY <1>1
  <2> QED
    BY <1>2, <2>1 DEF Increasing
<1> QED
  BY <1>1, <1>2, <1>3, <1>4 DEF Increasing

LEMMA IncreasingAppend ==
  ASSUME NEW n \in Nat, NEW q \in Seq(1..n), Increasing(q),
         NEW m \in Nat, \A j \in 1..Len(q) : q[j] < m
  PROVE  Increasing(Append(q, m))
<1>1. /\ Len(q) \in Nat /\ Len(Append(q, m)) = Len(q) + 1
      /\ Append(q, m)[Len(q) + 1] = m
      /\ \A j \in 1..Len(q) : Append(q, m)[j] = q[j]
  OBVIOUS
<1> SUFFICES ASSUME NEW i \in 1..(Len(q) + 1), NEW j \in 1..(Len(q) + 1), i < j
             PROVE  Append(q, m)[i] < Append(q, m)[j]
  BY <1>1 DEF Increasing
<1>2. i \in 1..Len(q)
  BY <1>1
<1>3. CASE j \in 1..Len(q)
  BY <1>1, <1>2, <1>3 DEF Increasing
<1>4. CASE j = Len(q) + 1
  BY <1>1, <1>2, <1>4
<1>5. j \in 1..Len(q) \/ j = Len(q) + 1
  BY <1>1
<1> QED
  BY <1>3, <1>4, <1>5

\* The positions of the three sequences, and what is found there.
LEMMA Positions ==
  ASSUME MessagesTyped
  PROVE  /\ Len(sent) \in Nat /\ DOMAIN sent = 1..Len(sent)
         /\ Len(push) \in Nat /\ DOMAIN push = 1..Len(push)
         /\ \A j \in 1..Len(push) : push[j] \in 1..Len(sent)
         /\ \A c \in Conn : /\ Len(got[c]) \in Nat /\ DOMAIN got[c] = 1..Len(got[c])
                            /\ \A i \in 1..Len(got[c]) : got[c][i] \in 1..Len(sent)
                            /\ got[c] = <<>> => Len(got[c]) = 0
<1>1. \A c \in Conn : got[c] \in Seq(1..Len(sent))
  BY DEF MessagesTyped
<1>2. ASSUME NEW c \in Conn
      PROVE  /\ Len(got[c]) \in Nat /\ DOMAIN got[c] = 1..Len(got[c])
             /\ \A i \in 1..Len(got[c]) : got[c][i] \in 1..Len(sent)
             /\ got[c] = <<>> => Len(got[c]) = 0
  BY <1>1
<1> QED
  BY <1>2 DEF MessagesTyped

\* A step that neither publishes nor delivers.  Pushes are only lost when the
\* transport closes, and then no socket is left.
LEMMA GapServer ==
  ASSUME GapInv, [DeliveryNext]_allVars, sent' = sent, got' = got,
         push' = push \/ (TransportClosed /\ push' = <<>>)
  PROVE  GapInv'
<1> USE DEF GapInv, DeliveryTyped
<1>1. DeliveryTyped'
  BY ServerKept, NextMessagesTyped
<1>2. push' = <<>> => Len(push') = 0
  BY <1>1, EmptySeq DEF MessagesTyped
<1>3. PushInOrder' /\ GotInOrder' /\ PushComplete'
  BY <1>2 DEF PushInOrder, GotInOrder, PushComplete, Increasing, InFlight
<1>4. ASSUME NEW c \in Conn, got[c] # <<>>
      PROVE  /\ Anchored(c)' /\ userOf'[c] = userOf[c]
             /\ ready'[c] = "OPEN" => ready[c] = "OPEN" /\ push' = push
  <2>1. TransportClosed => ready' = ready /\ ready[c] # "OPEN"
    BY DEF TransportClosed, ServerInv, RegistryInv, Drained, Clients
  <2> QED
    BY <1>4, <2>1, AnchoredStays DEF GotAnchored
<1>5. GotAnchored'
  BY <1>4 DEF GotAnchored
<1>6. NothingMissed'
  <2> SUFFICES ASSUME NEW c \in Conn, ready'[c] = "OPEN", NEW i \in 1..Len(got[c]),
                      NEW m \in 1..Len(sent), got[c][i] < m,
                      sent[m].to = userOf'[c], sent[m].receivers = 1
               PROVE  (Received(c, m) \/ InFlight(m))'
    BY DEF NothingMissed
  <2>1. got[c] # <<>>
    BY Positions
  <2>2. ready[c] = "OPEN" /\ push' = push /\ sent[m].to = userOf[c]
    BY <1>4, <2>1
  <2>3. Received(c, m) \/ InFlight(m)
    BY <2>2 DEF NothingMissed
  <2> QED
    BY <2>2, <2>3 DEF Received, InFlight
<1>7. NoSilentGap'
  <2> SUFFICES ASSUME NEW c \in Conn, NEW i \in DOMAIN got[c], NEW j \in DOMAIN got[c],
                      NEW m \in DOMAIN sent, got[c][i] < m, m < got[c][j],
                      sent[m].to = userOf'[c], sent[m].receivers = 1
               PROVE  Received(c, m)
    BY DEF NoSilentGap, Received
  <2>1. userOf'[c] = userOf[c]
    BY <1>4, Positions
  <2> QED
    BY <2>1 DEF NoSilentGap
<1> QED
  BY <1>1, <1>3, <1>5, <1>6, <1>7

\* A publication is later than everything that was pushed or received.
LEMMA GapPublish ==
  ASSUME GapInv, [DeliveryNext]_allVars, UNCHANGED vars, NEW u \in User, Publish(u)
  PROVE  GapInv'
<1> USE DEF GapInv, DeliveryTyped
<1>1. DeliveryTyped'
  BY ServerKept, NextMessagesTyped
<1>0. PICK n : n = Len(sent) + 1
  OBVIOUS
<1>2. PICK m \in Message :
        /\ sent' = Append(sent, m) /\ got' = got
        /\ push' = IF m.receivers = 1 THEN Append(push, n) ELSE push
  BY <1>0, PublishIs
<1>3. /\ Len(sent) \in Nat /\ n \in Nat /\ Len(sent') = n /\ 1..Len(sent') = 1..Len(sent) \cup {n}
      /\ \A k \in 1..Len(sent) : sent'[k] = sent[k]
      /\ sent'[n] = m
  BY <1>0, <1>2, AppendSent DEF MessagesTyped
<1>4. /\ Len(push) \in Nat
      /\ \A j \in 1..Len(push) : push[j] \in 1..Len(sent) /\ push[j] < n
      /\ Len(push) = 0 <=> push = <<>>
  BY <1>0, Positions DEF MessagesTyped
<1>5. /\ Len(Append(push, n)) = Len(push) + 1
      /\ \A j \in 1..Len(push) : Append(push, n)[j] = push[j]
      /\ Append(push, n)[Len(push) + 1] = n
  BY DEF MessagesTyped
<1>6. DOMAIN push = 1..Len(push) /\ DOMAIN push' = 1..Len(push')
  BY <1>1, Positions DEF MessagesTyped
<1>7. PushInOrder'
  <2>1. push \in Seq(1..Len(sent)) /\ n \in Nat
    BY <1>3 DEF MessagesTyped
  <2>2. Increasing(Append(push, n))
    BY <1>3, <1>4, <2>1, IncreasingAppend DEF PushInOrder
  <2> QED
    BY <1>2, <2>2 DEF PushInOrder, Increasing
<1>8. \A k : InFlight(k) => InFlight(k)'
  <2> SUFFICES ASSUME NEW j \in 1..Len(push)
               PROVE  j \in 1..Len(push') /\ push'[j] = push[j]
    BY <1>6 DEF InFlight
  <2> QED
    BY <1>2, <1>4, <1>5
<1>9. m.receivers = 1 => InFlight(n)'
  <2>1. m.receivers = 1 => Len(push) + 1 \in 1..Len(push') /\ push'[Len(push) + 1] = n
    BY <1>2, <1>4, <1>5
  <2> QED
    BY <1>6, <2>1 DEF InFlight
<1>10. PushComplete'
  <2> SUFFICES ASSUME push' # <<>>, NEW k \in 1..Len(sent'), sent'[k].receivers = 1,
                      k > push'[1]
               PROVE  InFlight(k)'
    BY DEF PushComplete
  <2>1. CASE k = n
    BY <1>3, <1>9, <2>1
  <2>2. CASE k \in 1..Len(sent)
    <3>1. push # <<>>
      BY <1>2, <1>3, <1>4, <1>5, <2>2
    <3>2. push'[1] = push[1]
      BY <1>2, <1>4, <1>5, <3>1
    <3> QED
      BY <1>3, <1>8, <2>2, <3>1, <3>2 DEF PushComplete
  <2> QED
    BY <1>3, <2>1, <2>2
<1>11. GotInOrder'
  <2> SUFFICES ASSUME NEW c \in Conn, NEW i \in 1..Len(got[c]), NEW j \in 1..Len(push')
               PROVE  got[c][i] < push'[j]
    BY <1>2 DEF GotInOrder, Increasing
  <2>1. got[c][i] \in 1..Len(sent)
    BY Positions
  <2>2. CASE j \in 1..Len(push)
    BY <1>2, <1>5, <2>2 DEF GotInOrder
  <2>3. CASE j \notin 1..Len(push)
    BY <1>2, <1>3, <1>4, <1>5, <2>1, <2>3
  <2> QED
    BY <2>2, <2>3
<1>12. GotAnchored'
  BY <1>2 DEF GotAnchored, Anchored, vars
<1>13. NothingMissed'
  <2> SUFFICES ASSUME NEW c \in Conn, ready[c] = "OPEN", NEW i \in 1..Len(got[c]),
                      NEW k \in 1..Len(sent'), got[c][i] < k,
                      sent'[k].to = userOf[c], sent'[k].receivers = 1
               PROVE  (Received(c, k) \/ InFlight(k))'
    BY <1>2 DEF NothingMissed, vars
  <2>1. CASE k = n
    BY <1>3, <1>9, <2>1
  <2>2. CASE k \in 1..Len(sent)
    <3>1. Received(c, k) \/ InFlight(k)
      BY <1>3, <2>2 DEF NothingMissed
    <3> QED
      BY <1>2, <1>8, <3>1 DEF Received
  <2> QED
    BY <1>3, <2>1, <2>2
<1>14. NoSilentGap'
  <2> SUFFICES ASSUME NEW c \in Conn, NEW i \in DOMAIN got[c], NEW j \in DOMAIN got[c],
                      NEW k \in DOMAIN sent', got[c][i] < k, k < got[c][j],
                      sent'[k].to = userOf[c], sent'[k].receivers = 1
               PROVE  Received(c, k)
    BY <1>2 DEF NoSilentGap, Received, vars
  <2>1. k \in 1..Len(sent') /\ got[c][j] \in 1..Len(sent)
    BY <1>1, Positions DEF MessagesTyped
  <2>2. k \in 1..Len(sent)
    BY <1>3, <2>1
  <2> QED
    BY <1>3, <2>2, Positions DEF NoSilentGap
<1> QED
  BY <1>1, <1>7, <1>10, <1>11, <1>12, <1>13, <1>14

\* Who gets the message in hand, and what becomes of the rest.
LEMMA Delivered ==
  ASSUME DeliveryTyped, NEW stalled \in SUBSET Conn, DeliverLocally(stalled)
  PROVE  /\ push # <<>> /\ push' = Tail(push) /\ sent' = sent /\ userOf' = userOf
         /\ \A c \in Conn :
              /\ c \in OpenHere(sent[push[1]].to) \ stalled
                   <=> ready'[c] = "OPEN" /\ stage[c] = "live" /\ userOf[c] = sent[push[1]].to
              /\ got'[c] = IF c \in OpenHere(sent[push[1]].to) \ stalled
                           THEN Append(got[c], push[1]) ELSE got[c]
         /\ \A k : InFlight(k) /\ k # push[1] => InFlight(k)'
<1> USE DEF DeliveryTyped
<1>1. /\ push # <<>> /\ push' = Tail(push) /\ sent' = sent /\ userOf' = userOf
      /\ Head(push) = push[1] /\ sent[push[1]].to \in User
      /\ CloseSockets(stalled) /\ stalled \subseteq OpenHere(sent[push[1]].to)
      /\ got' = [c \in Conn |-> IF c \in OpenHere(sent[push[1]].to) \ stalled
                                THEN Append(got[c], push[1]) ELSE got[c]]
  BY InHand DEF DeliverLocally
<1>2. \A c \in Conn : c \in OpenHere(sent[push[1]].to)
        <=> ready[c] = "OPEN" /\ stage[c] = "live" /\ userOf[c] = sent[push[1]].to
  BY <1>1, OpenHereIs
<1>3. \A c \in Conn : c \in OpenHere(sent[push[1]].to) \ stalled
        <=> ready'[c] = "OPEN" /\ stage[c] = "live" /\ userOf[c] = sent[push[1]].to
  BY <1>1, <1>2 DEF CloseSockets, Closing
<1>4. ASSUME NEW k, InFlight(k), k # push[1] PROVE InFlight(k)'
  <2>1. PICK j \in DOMAIN push : push[j] = k
    BY <1>4 DEF InFlight
  <2>2. j \in 1..Len(push) /\ j # 1 /\ Len(push) \in Nat
    BY <1>4, <2>1, Positions
  <2>3. /\ Len(Tail(push)) = Len(push) - 1 /\ DOMAIN Tail(push) = 1..Len(Tail(push))
        /\ \A i \in 1..Len(Tail(push)) : Tail(push)[i] = push[i + 1]
    BY <1>1 DEF MessagesTyped
  <2>4. j - 1 \in 1..Len(Tail(push)) /\ (j - 1) + 1 = j
    BY <2>2, <2>3
  <2> QED
    BY <1>1, <2>1, <2>3, <2>4 DEF InFlight
<1> QED
  BY <1>1, <1>3, <1>4

\* The new last element of what a connection got.
LEMMA AppendGot ==
  ASSUME DeliveryTyped, NEW c \in Conn, NEW m
  PROVE  /\ Len(Append(got[c], m)) = Len(got[c]) + 1
         /\ DOMAIN Append(got[c], m) = 1..(Len(got[c]) + 1)
         /\ Len(got[c]) \in Nat /\ DOMAIN got[c] = 1..Len(got[c])
         /\ 1..(Len(got[c]) + 1) = 1..Len(got[c]) \cup {Len(got[c]) + 1}
         /\ \A i \in 1..Len(got[c]) : Append(got[c], m)[i] = got[c][i]
         /\ Append(got[c], m)[Len(got[c]) + 1] = m
         /\ Append(got[c], m) # <<>>
<1>1. got[c] \in Seq(1..Len(sent))
  BY DEF DeliveryTyped, MessagesTyped
<1>2. /\ Len(Append(got[c], m)) = Len(got[c]) + 1
      /\ DOMAIN Append(got[c], m) = 1..(Len(got[c]) + 1)
      /\ Len(got[c]) \in Nat /\ DOMAIN got[c] = 1..Len(got[c])
      /\ \A i \in 1..Len(got[c]) : Append(got[c], m)[i] = got[c][i]
      /\ Append(got[c], m)[Len(got[c]) + 1] = m
  BY <1>1
<1>3. Append(got[c], m) # <<>>
  <2>1. Len(<<>>) = 0
    OBVIOUS
  <2>2. Len(Append(got[c], m)) # 0
    BY <1>2
  <2> QED
    BY <2>1, <2>2
<1>4. \A n \in Nat : 1..(n + 1) = 1..n \cup {n + 1}
  OBVIOUS
<1> QED
  BY <1>2, <1>3, <1>4

\* Nobody loses what it got.
LEMMA ReceivedStays ==
  ASSUME DeliveryTyped, NEW stalled \in SUBSET Conn, DeliverLocally(stalled),
         NEW c \in Conn, NEW m, Received(c, m)
  PROVE  Received(c, m)'
<1>1. CASE got'[c] = got[c]
  BY <1>1 DEF Received
<1>2. CASE got'[c] = Append(got[c], push[1])
  BY <1>2, AppendGot DEF Received
<1> QED
  BY <1>1, <1>2, Delivered

LEMMA DeliverOrder ==
  ASSUME GapInv, NEW stalled \in SUBSET Conn, DeliverLocally(stalled)
  PROVE  PushInOrder' /\ PushComplete' /\ GotInOrder'
<1> USE DEF GapInv
<1>1. /\ push # <<>> /\ push \in Seq(1..Len(sent)) /\ Len(sent) \in Nat
      /\ push' = Tail(push) /\ sent' = sent /\ Head(push) = push[1]
      /\ 1 \in 1..Len(push) /\ push[1] \in 1..Len(sent)
  BY Delivered, InHand, Positions DEF DeliveryTyped, MessagesTyped
<1>2. /\ Len(push) \in Nat /\ Len(push') = Len(push) - 1
      /\ \A j \in 1..Len(push') : j + 1 \in 1..Len(push) /\ push'[j] = push[j + 1]
  BY <1>1, InHand DEF DeliveryTyped
<1>3. PushInOrder' /\ \A j \in 1..Len(push') : push[1] < push'[j]
  BY <1>1, IncreasingTail DEF PushInOrder, Increasing
<1>4. PushComplete'
  <2> SUFFICES ASSUME push' # <<>>, NEW k \in 1..Len(sent), sent[k].receivers = 1,
                      k > push'[1]
               PROVE  InFlight(k)'
    BY <1>1 DEF PushComplete
  <2>1. 1 \in 1..Len(push') /\ push'[1] \in 1..Len(sent)
    <3>1. push' \in Seq(1..Len(sent))
      BY <1>1
    <3> QED
      BY <3>1
  <2>2. k > push[1] /\ k # push[1]
    <3>1. push[1] < push'[1] /\ push'[1] < k
      BY <1>3, <2>1
    <3>2. push[1] \in Int /\ push'[1] \in Int /\ k \in Int
      BY <1>1, <2>1
    <3> QED
      BY <3>1, <3>2
  <2>3. InFlight(k)
    BY <1>1, <2>2 DEF PushComplete
  <2> QED
    BY <2>2, <2>3, Delivered
<1>5. ASSUME NEW c \in Conn
      PROVE  /\ Increasing(got'[c])
             /\ \A i \in 1..Len(got'[c]), j \in 1..Len(push') : got'[c][i] < push'[j]
  <2>1. /\ Increasing(got[c]) /\ got[c] \in Seq(1..Len(sent))
        /\ \A i \in 1..Len(got[c]) : got[c][i] < push[1]
        /\ \A i \in 1..Len(got[c]), j \in 1..Len(push') : got[c][i] < push'[j]
    BY <1>1, <1>2 DEF GotInOrder, DeliveryTyped, MessagesTyped
  <2>2. CASE got'[c] = got[c]
    BY <2>1, <2>2
  <2>3. CASE got'[c] = Append(got[c], push[1])
    <3>1. Increasing(Append(got[c], push[1]))
      BY <1>1, <2>1, IncreasingAppend
    <3>2. ASSUME NEW i \in 1..Len(got'[c]), NEW j \in 1..Len(push')
          PROVE  got'[c][i] < push'[j]
      <4>1. i \in 1..Len(got[c]) \/ i = Len(got[c]) + 1
        BY <2>3, AppendGot
      <4> QED
        BY <1>3, <2>1, <2>3, <4>1, AppendGot
    <3> QED
      BY <2>3, <3>1, <3>2
  <2> QED
    BY <2>2, <2>3, Delivered
<1> QED
  BY <1>3, <1>4, <1>5 DEF GotInOrder

\* Overloaded sockets are skipped, and closed: an OPEN one was not skipped.
LEMMA DeliverMissesNothing ==
  ASSUME GapInv, [DeliveryNext]_allVars,
         NEW stalled \in SUBSET Conn, DeliverLocally(stalled)
  PROVE  GotAnchored' /\ NothingMissed'
<1> USE DEF GapInv
<1>1. /\ push' = Tail(push) /\ sent' = sent /\ userOf' = userOf /\ push # <<>>
      /\ stage' = stage /\ push[1] \in 1..Len(sent)
  BY Delivered, InHand DEF DeliveryTyped, DeliverLocally
<1>2. ASSUME NEW c \in Conn, got'[c] # <<>>
      PROVE  Anchored(c)' /\ (ready'[c] = "OPEN" => stage[c] = "live")
  <2>1. CASE got'[c] = got[c]
    BY <1>1, <1>2, <2>1, AnchoredStays DEF GotAnchored, DeliveryTyped, Anchored
  <2>2. CASE got'[c] # got[c]
    BY <1>1, <2>2, Delivered DEF Anchored
  <2> QED
    BY <2>1, <2>2
<1>3. ASSUME NEW c \in Conn, ready'[c] = "OPEN", NEW i \in 1..Len(got'[c]),
             NEW m \in 1..Len(sent), got'[c][i] < m,
             sent[m].to = userOf[c], sent[m].receivers = 1
      PROVE  (Received(c, m) \/ InFlight(m))'
  <2>1. CASE got'[c] = Append(got[c], push[1])
    <3>1. CASE m = push[1]
      BY <2>1, <3>1, AppendGot DEF Received
    <3>2. CASE m # push[1] /\ i \in 1..Len(got[c])
      <4>1. ready[c] = "OPEN" /\ got[c][i] < m
        BY <1>3, <2>1, <3>2, AppendGot DEF DeliverLocally, CloseSockets, Closing
      <4>2. Received(c, m) \/ InFlight(m)
        BY <1>3, <3>2, <4>1 DEF NothingMissed
      <4> QED
        BY <3>2, <4>2, Delivered, ReceivedStays
    <3>3. CASE m # push[1] /\ i = Len(got[c]) + 1
      <4>1. push[1] < m
        BY <1>3, <2>1, <3>3, AppendGot
      <4>2. InFlight(m)
        BY <1>1, <1>3, <4>1 DEF PushComplete
      <4> QED
        BY <3>3, <4>2, Delivered
    <3> QED
      BY <1>3, <2>1, <3>1, <3>2, <3>3, AppendGot
  <2>2. CASE got'[c] = got[c] /\ got'[c] # Append(got[c], push[1])
    <3>1. got[c] # <<>>
      BY <1>3, <2>2, Positions DEF DeliveryTyped
    <3>2. ready[c] = "OPEN"
      BY <1>3 DEF DeliverLocally, CloseSockets, Closing
    <3>3. m # push[1]
      BY <1>2, <1>3, <2>2, <3>1, Delivered
    <3>4. Received(c, m) \/ InFlight(m)
      BY <1>3, <2>2, <3>2 DEF NothingMissed
    <3> QED
      BY <3>3, <3>4, Delivered, ReceivedStays
  <2> QED
    BY <2>1, <2>2, Delivered
<1> QED
  BY <1>1, <1>2, <1>3 DEF GotAnchored, NothingMissed

\* A message between two others was neither skipped nor is it still to come.
LEMMA DeliverLeavesNoGap ==
  ASSUME GapInv, [DeliveryNext]_allVars,
         NEW stalled \in SUBSET Conn, DeliverLocally(stalled)
  PROVE  NoSilentGap'
<1> USE DEF GapInv
<1>1. /\ sent' = sent /\ userOf' = userOf /\ push # <<>> /\ DOMAIN sent = 1..Len(sent)
      /\ DeliveryTyped'
  BY Delivered, ServerKept, NextMessagesTyped, Positions DEF DeliveryTyped
<1>2. GotInOrder' /\ \A c \in Conn : DOMAIN got'[c] = 1..Len(got'[c])
  <2>1. MessagesTyped'
    BY <1>1 DEF DeliveryTyped
  <2>2. \A c \in Conn : got'[c] \in Seq(1..Len(sent'))
    BY <2>1 DEF MessagesTyped
  <2>3. \A c \in Conn : DOMAIN got'[c] = 1..Len(got'[c])
    BY <2>2
  <2> QED
    BY <2>3, DeliverOrder
<1>3. ASSUME NEW c \in Conn, NEW i \in 1..Len(got'[c]), NEW j \in 1..Len(got'[c]),
             NEW m \in 1..Len(sent), got'[c][i] < m, m < got'[c][j],
             sent[m].to = userOf[c], sent[m].receivers = 1
      PROVE  Received(c, m)'
  <2>1. CASE got'[c] = Append(got[c], push[1])
    <3>1. CASE i \in 1..Len(got[c]) /\ j \in 1..Len(got[c])
      <4>1. /\ i \in DOMAIN got[c] /\ j \in DOMAIN got[c] /\ m \in DOMAIN sent
            /\ got[c][i] < m /\ m < got[c][j]
        BY <1>1, <1>3, <2>1, <3>1, AppendGot
      <4>2. Received(c, m)
        BY <1>3, <4>1 DEF NoSilentGap
      <4> QED
        BY <4>2, ReceivedStays
    <3>2. CASE i \in 1..Len(got[c]) /\ j = Len(got[c]) + 1
      <4>1. /\ got[c][i] < m /\ m < push[1]
        BY <1>3, <2>1, <3>2, AppendGot
      <4>2. ready[c] = "OPEN"
        <5>1. got'[c] # got[c]
          BY <2>1, AppendGot
        <5>2. ready'[c] = "OPEN"
          BY <5>1, Delivered
        <5> QED
          BY <5>2 DEF DeliverLocally, CloseSockets, Closing
      <4>3. Received(c, m) \/ InFlight(m)
        BY <1>3, <3>2, <4>1, <4>2 DEF NothingMissed
      <4>4. ~InFlight(m)
        <5>1. \A k \in 1..Len(push) : 1 \in 1..Len(push) /\ (k = 1 \/ 1 < k)
          BY Positions DEF DeliveryTyped
        <5>2. \A k \in 1..Len(push) : push[1] = push[k] \/ push[1] < push[k]
          BY <5>1 DEF PushInOrder, Increasing
        <5>3. \A k \in 1..Len(push) : push[1] \in Int /\ push[k] \in Int
          BY <5>1, Positions DEF DeliveryTyped
        <5>4. \A k \in 1..Len(push) : push[k] # m
          BY <4>1, <5>2, <5>3
        <5> QED
          BY <5>4, Positions DEF InFlight, DeliveryTyped
      <4> QED
        BY <4>3, <4>4, ReceivedStays
    <3>3. CASE i = Len(got[c]) + 1
      <4>1. got'[c][j] < got'[c][i] \/ i = j
        <5>1. j = i \/ j < i
          BY <1>3, <2>1, <3>3, AppendGot
        <5>2. Increasing(got'[c])
          BY <1>2 DEF GotInOrder, Increasing
        <5> QED
          BY <1>3, <5>1, <5>2 DEF Increasing
      <4>2. got'[c][i] \in Int /\ got'[c][j] \in Int
        <5>1. MessagesTyped'
          BY <1>1 DEF DeliveryTyped
        <5>2. got'[c] \in Seq(1..Len(sent'))
          BY <5>1 DEF MessagesTyped
        <5> QED
          BY <1>3, <5>2
      <4> QED
        BY <1>3, <4>1, <4>2
    <3>4. /\ i \in 1..Len(got[c]) \/ i = Len(got[c]) + 1
          /\ j \in 1..Len(got[c]) \/ j = Len(got[c]) + 1
      BY <2>1, AppendGot
    <3> QED
      BY <3>1, <3>2, <3>3, <3>4
  <2>2. CASE got'[c] = got[c]
    <3>1. i \in DOMAIN got[c] /\ j \in DOMAIN got[c] /\ m \in DOMAIN sent
      BY <1>1, <2>2, Positions DEF DeliveryTyped
    <3>2. Received(c, m)
      BY <1>3, <2>2, <3>1 DEF NoSilentGap
    <3> QED
      BY <3>2, ReceivedStays
  <2> QED
    BY <2>1, <2>2, Delivered
<1> QED
  BY <1>1, <1>2, <1>3 DEF NoSilentGap, GotInOrder, Increasing

LEMMA NextGap ==
  ASSUME GapInv, [DeliveryNext]_allVars
  PROVE  GapInv'
<1>1. ASSUME NEW stalled \in SUBSET Conn, DeliverLocally(stalled) PROVE GapInv'
  <2>1. DeliveryTyped'
    BY ServerKept, NextMessagesTyped DEF GapInv, DeliveryTyped
  <2> QED
    BY <1>1, <2>1, DeliverOrder, DeliverMissesNothing, DeliverLeavesNoGap DEF GapInv
<1> QED
  BY <1>1, DeliveryParts, GapServer, GapPublish

LEMMA InitGap == DeliveryInit => GapInv
<1> SUFFICES ASSUME DeliveryInit PROVE GapInv
  OBVIOUS
<1>1. Len(<<>>) = 0 /\ DOMAIN <<>> = {}
  OBVIOUS
<1> QED
  BY <1>1, InitDelivery DEF DeliveryInit, GapInv, PushInOrder, PushComplete, GotInOrder,
     GotAnchored, NothingMissed, NoSilentGap, Increasing

\* Whatever Redis rejects and whoever stalls, is terminated or leaves: what a
\* connection gets is in publication order, once each, and between its first
\* and its last message there is no hole that a sender was told is not there
\* (deliverLocally() closes the sockets it skips).
THEOREM GapsNeverSilent == DeliverySpec => []NoSilentGap
<1>1. GapInv => NoSilentGap
  BY DEF GapInv
<1> QED
  BY <1>1, InitGap, NextGap, PTL DEF DeliverySpec

-----------------------------------------------------------------------------
\* Completeness

\* Those who may count on a message were registered for its user.
AudienceKnown ==
  \A m \in 1..Len(sent) : \A c \in sent[m].audience :
    Anchored(c) /\ userOf[c] = sent[m].to

AudienceInv ==
  /\ DeliveryTyped /\ RefCountsMatchHolders /\ CountedIsSubscribed
  /\ AudienceKnown /\ AudienceServed

LEMMA AudienceIsConn ==
  ASSUME MessagesTyped
  PROVE  \A m \in 1..Len(sent) : sent[m].audience \subseteq Conn
<1>1. \A m \in 1..Len(sent) : sent[m] \in Message
  BY DEF MessagesTyped
<1> QED
  BY <1>1 DEF Message

\* Who was registered stays known, whatever happens.
LEMMA AudienceStays ==
  ASSUME AudienceInv, [DeliveryNext]_allVars,
         NEW m \in 1..Len(sent), NEW c \in sent[m].audience
  PROVE  /\ c \in Conn /\ Anchored(c) /\ Anchored(c)' /\ userOf[c] = sent[m].to
         /\ userOf'[c] = sent[m].to /\ (ready'[c] = "OPEN" => ready[c] = "OPEN")
<1>1. c \in Conn /\ Anchored(c) /\ userOf[c] = sent[m].to
  BY AudienceIsConn DEF AudienceInv, DeliveryTyped, AudienceKnown
<1> QED
  BY <1>1, AnchoredStays DEF AudienceInv, DeliveryTyped

LEMMA AudienceServer ==
  ASSUME AudienceInv, [DeliveryNext]_allVars, sent' = sent, got' = got,
         push' = push \/ (TransportClosed /\ push' = <<>>)
  PROVE  AudienceKnown' /\ AudienceServed'
<1>1. AudienceKnown'
  BY AudienceStays DEF AudienceKnown
<1>2. AudienceServed'
  <2> SUFFICES ASSUME NEW m \in DOMAIN sent, NEW c \in sent[m].audience,
                      ready'[c] = "OPEN"
               PROVE  InFlight(m)' \/ Received(c, m)'
    BY DEF AudienceServed
  <2>1. m \in 1..Len(sent)
    BY Positions DEF AudienceInv, DeliveryTyped
  <2>2. c \in Conn /\ ready[c] = "OPEN"
    BY <2>1, AudienceStays
  <2>3. push' = push
    BY <2>2 DEF TransportClosed, AudienceInv, DeliveryTyped, ServerInv, RegistryInv,
       Drained, Clients
  <2>4. InFlight(m) \/ Received(c, m)
    BY <2>2 DEF AudienceInv, AudienceServed
  <2> QED
    BY <2>3, <2>4 DEF InFlight, Received
<1> QED
  BY <1>1, <1>2

\* A registered OPEN connection with nothing of its user on the wire is
\* subscribed: the publication is counted, and pushed to this instance.
LEMMA AudienceReached ==
  ASSUME AudienceInv, NEW u \in User, wire[u] = <<>>, OpenHere(u) # {}
  PROVE  u \in channel
<1> USE DEF AudienceInv, DeliveryTyped, ServerInv, RegistryInv
<1>1. PICK c \in Conn : ready[c] = "OPEN" /\ c \in registry[u]
  BY DEF OpenHere, Typed, TypeOK
<1>2. phase \notin {"closingTransport", "closed"}
  BY <1>1 DEF Drained, Clients
<1>3. TransportOpen
  BY <1>2 DEF TransportOpen, Typed, TypeOK, Phase
<1>4. WillBeSubscribed(u)
  BY <1>1, <1>3, RegisteredDecides DEF RegisteredStaysSubscribed, Typed
<1> QED
  BY <1>4 DEF WillBeSubscribed

LEMMA AudiencePublish ==
  ASSUME AudienceInv, [DeliveryNext]_allVars, UNCHANGED vars, NEW u \in User, Publish(u)
  PROVE  AudienceKnown' /\ AudienceServed'
<1> USE DEF AudienceInv, DeliveryTyped
<1>0. PICK n : n = Len(sent) + 1
  OBVIOUS
<1>1. PICK m \in Message :
        /\ sent' = Append(sent, m) /\ got' = got /\ m.to = u
        /\ m.receivers = (IF u \in channel THEN 1 ELSE 0)
        /\ m.audience = (IF wire[u] = <<>> THEN OpenHere(u) ELSE {})
        /\ push' = IF m.receivers = 1 THEN Append(push, n) ELSE push
  BY <1>0, PublishIs
<1>2. /\ Len(sent') = n /\ 1..Len(sent') = 1..Len(sent) \cup {n}
      /\ \A k \in 1..Len(sent) : sent'[k] = sent[k]
      /\ sent'[n] = m
  BY <1>0, <1>1, AppendSent DEF MessagesTyped
<1>3. MessagesTyped'
  BY NextMessagesTyped
<1>4. /\ DOMAIN sent = 1..Len(sent) /\ DOMAIN sent' = 1..Len(sent')
      /\ DOMAIN push = 1..Len(push) /\ DOMAIN push' = 1..Len(push') /\ Len(push) \in Nat
  BY <1>3, Positions
<1>5. \A k : InFlight(k) => InFlight(k)'
  <2> SUFFICES ASSUME NEW j \in 1..Len(push)
               PROVE  j \in 1..Len(push') /\ push'[j] = push[j]
    BY <1>4 DEF InFlight
  <2>1. /\ Len(Append(push, n)) = Len(push) + 1
        /\ \A i \in 1..Len(push) : Append(push, n)[i] = push[i]
    BY DEF MessagesTyped
  <2> QED
    BY <1>1, <1>4, <2>1
<1>6. ASSUME NEW c \in m.audience
      PROVE  /\ c \in Conn /\ Anchored(c) /\ userOf[c] = u
             /\ InFlight(n)'
  <2>1. wire[u] = <<>> /\ c \in OpenHere(u)
    BY <1>1, <1>6
  <2>2. c \in Conn /\ Anchored(c) /\ userOf[c] = u
    BY <2>1, OpenHereIs DEF Anchored
  <2>3. push' = Append(push, n)
    BY <1>1, <2>1, AudienceReached
  <2>4. Len(push') = Len(push) + 1 /\ push'[Len(push) + 1] = n
    BY <2>3 DEF MessagesTyped
  <2>5. InFlight(n)'
    BY <1>4, <2>4 DEF InFlight
  <2> QED
    BY <2>2, <2>5
<1>7. AudienceKnown'
  <2> SUFFICES ASSUME NEW k \in 1..Len(sent'), NEW c \in sent'[k].audience
               PROVE  Anchored(c)' /\ userOf'[c] = sent'[k].to
    BY DEF AudienceKnown
  <2>1. CASE k = n
    BY <1>1, <1>2, <1>6, <2>1 DEF Anchored, vars
  <2>2. CASE k \in 1..Len(sent)
    BY <1>2, <2>2, AudienceStays
  <2> QED
    BY <1>2, <2>1, <2>2
<1>8. AudienceServed'
  <2> SUFFICES ASSUME NEW k \in 1..Len(sent'), NEW c \in sent'[k].audience,
                      ready[c] = "OPEN"
               PROVE  InFlight(k)' \/ Received(c, k)'
    BY <1>4 DEF AudienceServed, vars
  <2>1. CASE k = n
    BY <1>2, <1>6, <2>1
  <2>2. CASE k \in 1..Len(sent)
    <3>1. InFlight(k) \/ Received(c, k)
      BY <1>2, <1>4, <2>2 DEF AudienceServed
    <3> QED
      BY <1>1, <1>5, <3>1 DEF Received
  <2> QED
    BY <1>2, <2>1, <2>2
<1> QED
  BY <1>7, <1>8

\* deliverLocally() reaches every OPEN connection of the audience.
LEMMA AudienceDeliver ==
  ASSUME AudienceInv, [DeliveryNext]_allVars,
         NEW stalled \in SUBSET Conn, DeliverLocally(stalled)
  PROVE  AudienceKnown' /\ AudienceServed'
<1> USE DEF AudienceInv, DeliveryTyped
<1>1. sent' = sent /\ DOMAIN sent = 1..Len(sent) /\ push # <<>>
  BY Delivered, Positions
<1>2. AudienceKnown'
  BY <1>1, AudienceStays DEF AudienceKnown
<1>3. AudienceServed'
  <2> SUFFICES ASSUME NEW m \in 1..Len(sent), NEW c \in sent[m].audience,
                      ready'[c] = "OPEN"
               PROVE  InFlight(m)' \/ Received(c, m)'
    BY <1>1 DEF AudienceServed
  <2>1. c \in Conn /\ ready[c] = "OPEN" /\ stage[c] = "live" /\ userOf[c] = sent[m].to
    BY AudienceStays DEF Anchored
  <2>2. InFlight(m) \/ Received(c, m)
    BY <1>1, <2>1 DEF AudienceServed
  <2>3. CASE m = push[1]
    <3>1. got'[c] = Append(got[c], m)
      BY <2>1, <2>3, Delivered
    <3> QED
      BY <2>1, <3>1, AppendGot DEF Received
  <2>4. CASE m # push[1]
    BY <2>1, <2>2, <2>4, Delivered, ReceivedStays
  <2> QED
    BY <2>3, <2>4
<1> QED
  BY <1>2, <1>3

LEMMA NextAudience ==
  ASSUME SubscribeMayFail = FALSE, AudienceInv, [DeliveryNext]_allVars
  PROVE  AudienceInv'
<1>1. DeliveryTyped'
  BY ServerKept, NextMessagesTyped DEF AudienceInv, DeliveryTyped
<1>2. RefCountsMatchHolders' /\ CountedIsSubscribed'
  BY CountsKept DEF AudienceInv, DeliveryTyped, ServerInv
<1>3. AudienceKnown' /\ AudienceServed'
  BY DeliveryParts, AudienceServer, AudiencePublish, AudienceDeliver
<1> QED
  BY <1>1, <1>2, <1>3 DEF AudienceInv

LEMMA InitAudience == DeliveryInit => AudienceInv
<1> SUFFICES ASSUME DeliveryInit PROVE AudienceInv
  OBVIOUS
<1>1. Len(<<>>) = 0 /\ DOMAIN <<>> = {}
  OBVIOUS
<1> QED
  BY <1>1, InitDelivery, InitCounted, InitDecides DEF DeliveryInit, AudienceInv,
     AudienceKnown, AudienceServed

\* As long as Redis rejects no SUBSCRIBE: a message published while a connection
\* is registered, with no command of its user under way, reaches it unless it
\* stops being OPEN first, and no connection gets messages with a silent gap,
\* however others come, stall, are terminated and go.
THEOREM DeliveryFaithful ==
  ASSUME SubscribeMayFail = FALSE
  PROVE  DeliverySpec => []DeliveryIsFaithful
<1> DEFINE I == AudienceInv /\ GapInv
<1>1. DeliveryInit => I
  BY InitAudience, InitGap
<1>2. I /\ [DeliveryNext]_allVars => I'
  BY NextAudience, NextGap
<1>3. I => DeliveryIsFaithful
  BY DEF AudienceInv, GapInv, DeliveryIsFaithful
<1> QED
  BY <1>1, <1>2, <1>3, PTL DEF DeliverySpec
=============================================================================
