------------------------------ MODULE Delivery ------------------------------
(***************************************************************************)
(* Messages on top of NetiflyServer: publish() through Redis, the pushes   *)
(* that arrive on the instance's subscriber connection, and                *)
(* deliverLocally().  A message is a number, the order of its publication. *)
(***************************************************************************)
EXTENDS NetiflyServer

CONSTANT MaxMessages    \* bound on the number of publications

ASSUME DeliveryAssumption == MaxMessages \in Nat

VARIABLES sent,  \* Seq([to, receivers, ...]), the publications in Redis order
          push,  \* Seq(Nat), messages on their way to this instance
          got    \* [Conn -> Seq(Nat)], what ws.send() was called with

deliveryVars == <<sent, push, got>>
allVars == <<vars, deliveryVars>>

\* "receivers" is Redis's answer to PUBLISH.  "audience" records what the
\* properties need of the moment of publication: which registered sockets may
\* count on the message because no command of the user was on the wire.
Message == [to : User, receivers : {0, 1}, audience : SUBSET Conn]

DeliveryTypeOK ==
  /\ TypeOK
  /\ sent \in Seq(Message)
  /\ push \in Seq(1..Len(sent))
  /\ got \in [Conn -> Seq(1..Len(sent))]

DeliveryInit ==
  /\ Init
  /\ sent = <<>>
  /\ push = <<>>
  /\ got = [c \in Conn |-> <<>>]

OpenHere(u) == {c \in registry[u] : ready[c] = "OPEN"}

-----------------------------------------------------------------------------
\* publish() by this instance, by another one or by a NetiflyPublisher: Redis
\* counts the subscribed instances and pushes the message to them.
Publish(u) ==
  LET receivers == IF u \in channel THEN 1 ELSE 0 IN
  /\ Len(sent) < MaxMessages
  /\ sent' = Append(sent,
       [to |-> u, receivers |-> receivers,
        audience |-> IF wire[u] = <<>> THEN OpenHere(u) ELSE {}])
  /\ push' = IF receivers = 1 THEN Append(push, Len(sent) + 1) ELSE push
  /\ UNCHANGED <<vars, got>>

\* Seeded fault: the first stalled socket ends the loop.
DeliverLocallyBreaks(stalled) ==
  LET u == sent[Head(push)].to IN
  /\ push # <<>>
  /\ stalled \subseteq OpenHere(u)
  /\ push' = Tail(push)
  /\ got' = [c \in Conn |-> IF stalled = {} /\ c \in OpenHere(u)
                            THEN Append(got[c], Head(push)) ELSE got[c]]
  /\ CloseSockets(stalled)
  /\ UNCHANGED <<sent, stage, userOf, registry, phase, tally, transportVars>>

\* deliverLocally(): a socket that is not OPEN is skipped; one whose outbound
\* buffer is over maxBufferedBytes is skipped and closed with 1013; every
\* other socket of the user gets the message.
DeliverLocally(stalled) ==
  LET m == Head(push)
      u == sent[m].to IN
  /\ push # <<>>
  /\ stalled \subseteq OpenHere(u)
  /\ push' = Tail(push)
  /\ got' = [c \in Conn |-> IF c \in OpenHere(u) \ stalled
                            THEN Append(got[c], m) ELSE got[c]]
  /\ CloseSockets(stalled)
  /\ UNCHANGED <<sent, stage, userOf, registry, phase, tally, transportVars>>

\* The subscriber connection ends: pushes that were not read are gone.
CloseDelivery ==
  /\ TransportClosed
  /\ push' = <<>>
  /\ UNCHANGED <<sent, got>>

ServerStep ==
  /\ \/ \E c \in Conn : ConnStep(c)
     \/ \E u \in User : UserStep(u)
     \/ CloseGracefully \/ CloseAtOnce \/ WssClosed
  /\ UNCHANGED deliveryVars

DeliveryNext ==
  \/ ServerStep
  \/ CloseDelivery
  \/ \E u \in User : Publish(u)
  \/ \E stalled \in SUBSET Conn : DeliverLocally(stalled)

DeliverySpec == DeliveryInit /\ [][DeliveryNext]_allVars

-----------------------------------------------------------------------------
\* Properties

InFlight(m) == \E i \in DOMAIN push : push[i] = m
Received(c, m) == \E i \in DOMAIN got[c] : got[c][i] = m

\* A message published while c was registered, with no subscription command
\* of its user under way, reaches c unless c stopped being OPEN first: no
\* other connection's arrival, failure, overload or departure takes it away.
AudienceServed ==
  \A m \in DOMAIN sent : \A c \in sent[m].audience :
    InFlight(m) \/ Received(c, m) \/ ready[c] # "OPEN"

\* A connection receives each message at most once and in publication order,
\* and what it receives between its first and its last message is everything
\* the senders were told was delivered.
NoSilentGap ==
  \A c \in Conn :
    /\ \A i, j \in DOMAIN got[c] : i < j => got[c][i] < got[c][j]
    /\ \A i, j \in DOMAIN got[c] : \A m \in DOMAIN sent :
         /\ got[c][i] < m /\ m < got[c][j]
         /\ sent[m].to = userOf[c] /\ sent[m].receivers = 1
         => Received(c, m)

\* What deliverLocally() owes a connection, however others come, stall and go.
DeliveryIsFaithful == AudienceServed /\ NoSilentGap
=============================================================================
