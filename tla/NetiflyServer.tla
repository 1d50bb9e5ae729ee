--------------------------- MODULE NetiflyServer ---------------------------
(***************************************************************************)
(* One server instance (netiflyServer.ts): the life of every WebSocket     *)
(* from the HTTP upgrade to its 'close' event, the local registry, the     *)
(* subscriptions held through RefCountedTransport, disconnect(), and the   *)
(* graceful or forced close() of the instance.                             *)
(*                                                                         *)
(* An action is the code that runs between two awaits or events: Node runs *)
(* it to completion, and everything else interleaves.                      *)
(***************************************************************************)
EXTENDS RefCountedTransport, FiniteSets

CONSTANTS NoUser,                 \* userOf before resolveUserId() answers
          MaxConnectionsPerUser,
          SubscribeMayFail,       \* may Redis reject a SUBSCRIBE?
          UnsubscribeMayFail      \* may Redis reject an UNSUBSCRIBE?

ASSUME ServerAssumption ==
  /\ IsFiniteSet(Conn)
  /\ NoUser \notin User
  /\ MaxConnectionsPerUser \in Nat
  /\ SubscribeMayFail \in BOOLEAN
  /\ UnsubscribeMayFail \in BOOLEAN

VARIABLES stage,    \* [Conn -> Stage], where the handlers of a connection are
          userOf,   \* [Conn -> User or NoUser], set by resolveUserId()
          ready,    \* [Conn -> ReadyState], ws.readyState
          registry, \* [User -> SUBSET Conn], ConnectionRegistry
          phase,    \* how far close() has come
          tally     \* [User -> Int], 'connect' minus 'disconnect' events seen

serverVars == <<stage, userOf, ready, registry, phase, tally>>
vars == <<stage, userOf, ready, registry, phase, tally,
          refCounts, wire, channel>>

\* "resolving"   awaiting resolveUserId()
\* "subscribing" awaiting transport.subscribe(), SUBSCRIBE on the wire
\* "returning"   subscribe() fulfilled, the code after the await has not run
\* "failing"     subscribe() rejected, the catch block has not run
\* "live"        `subscribed' is true: the 'close' listener must unsubscribe
Stage == {"none", "resolving", "rejected", "subscribing", "returning",
          "failing", "live", "done"}
ReadyState == {"NONE", "OPEN", "CLOSING", "CLOSED"}
Phase == {"running", "draining", "closingWss", "closingTransport", "closed"}

TypeOK ==
  /\ TransportTypeOK
  /\ stage \in [Conn -> Stage]
  /\ userOf \in [Conn -> User \cup {NoUser}]
  /\ ready \in [Conn -> ReadyState]
  /\ registry \in [User -> SUBSET Conn]
  /\ phase \in Phase
  /\ tally \in [User -> Int]

\* wss.clients: ws drops a socket from the set on its 'close' event.
Clients == {c \in Conn : ready[c] \in {"OPEN", "CLOSING"}}

Init ==
  /\ TransportInit
  /\ stage = [c \in Conn |-> "none"]
  /\ userOf = [c \in Conn |-> NoUser]
  /\ ready = [c \in Conn |-> "NONE"]
  /\ registry = [u \in User |-> {}]
  /\ phase = "running"
  /\ tally = [u \in User |-> 0]

-----------------------------------------------------------------------------
\* The upgrade

SetStage(c, s) == stage' = [stage EXCEPT ![c] = s]

\* ConnectionRegistry: a set per user, without an entry for an empty one.
AddConnection(u, c) == registry' = [registry EXCEPT ![u] = @ \cup {c}]
RemoveConnection(u, c) == registry' = [registry EXCEPT ![u] = @ \ {c}]

\* An 'upgrade' request whose origin is allowed; `closed' is not consulted.
UpgradeRequest(c) ==
  /\ stage[c] = "none"
  /\ SetStage(c, "resolving")
  /\ UNCHANGED <<userOf, ready, registry, phase, tally, transportVars>>

\* 403 for the origin, 401 for resolveUserId().
RejectUpgrade(c) ==
  /\ stage[c] \in {"none", "resolving"}
  /\ SetStage(c, "rejected")
  /\ UNCHANGED <<userOf, ready, registry, phase, tally, transportVars>>

OverCap(u) == Cardinality(registry[u]) >= MaxConnectionsPerUser

\* 429.
RejectOverCap(c, u) ==
  /\ stage[c] = "resolving"
  /\ OverCap(u)
  /\ SetStage(c, "rejected")
  /\ UNCHANGED <<userOf, ready, registry, phase, tally, transportVars>>

\* ws answers 503 once wss.close() was called.
WssAccepting == phase \in {"running", "draining"}

AbortHandshake(c, u) ==
  /\ stage[c] = "resolving"
  /\ ~OverCap(u)
  /\ ~WssAccepting
  /\ SetStage(c, "rejected")
  /\ UNCHANGED <<userOf, ready, registry, phase, tally, transportVars>>

\* wss.handleUpgrade() and registerConnection() as far as its first await.
AcceptUpgrade(c, u) ==
  /\ stage[c] = "resolving"
  /\ ~OverCap(u)
  /\ WssAccepting
  /\ userOf' = [userOf EXCEPT ![c] = u]
  /\ ready' = [ready EXCEPT ![c] = "OPEN"]
  /\ SetStage(c, IF FirstSubscriber(u) THEN "subscribing" ELSE "returning")
  /\ Subscribe(u, c)
  /\ UNCHANGED <<registry, phase, tally>>

-----------------------------------------------------------------------------
\* Answers of Redis

\* After transport.close() the raw connection may reject anything.
TransportOpen == phase \in {"running", "draining", "closingWss"}

SubscribeAnswered(c) ==
  LET u == userOf[c] IN
  /\ stage[c] = "subscribing"
  /\ RawSubscribed(u, c)
  /\ SetStage(c, "returning")
  /\ UNCHANGED <<userOf, ready, registry, phase, tally>>

SubscribeRejected(c) ==
  LET u == userOf[c] IN
  /\ SubscribeMayFail \/ ~TransportOpen
  /\ stage[c] = "subscribing"
  /\ RawSubscribeRejected(u, c)
  /\ SetStage(c, "failing")
  /\ UNCHANGED <<userOf, ready, registry, phase, tally>>

UnsubscribeAnswered(u) ==
  /\ RawUnsubscribed(u)
  /\ UNCHANGED serverVars

UnsubscribeRejected(u) ==
  /\ UnsubscribeMayFail \/ ~TransportOpen
  /\ RawUnsubscribeRejected(u)
  /\ UNCHANGED serverVars

-----------------------------------------------------------------------------
\* registerConnection() after the await, and the 'close' listener

\* Seeded fault: readyState is not looked at again after the await.
RegisterUnchecked(c) ==
  /\ stage[c] = "returning"
  /\ SetStage(c, "live")
  /\ AddConnection(userOf[c], c)
  /\ tally' = [tally EXCEPT ![userOf[c]] = @ + 1]
  /\ UNCHANGED <<userOf, ready, phase, transportVars>>

\* readyState is still OPEN: the connection is registered.
Register(c) ==
  LET u == userOf[c] IN
  /\ stage[c] = "returning"
  /\ ready[c] = "OPEN"
  /\ SetStage(c, "live")
  /\ AddConnection(u, c)
  /\ tally' = [tally EXCEPT ![u] = @ + 1]
  /\ UNCHANGED <<userOf, ready, phase, transportVars>>

\* Seeded fault: the early return forgets to unsubscribe.
RegisterTooLateLeaks(c) ==
  /\ stage[c] = "returning"
  /\ ready[c] # "OPEN"
  /\ SetStage(c, "done")
  /\ UNCHANGED <<userOf, ready, registry, phase, tally, transportVars>>

\* Seeded fault: it emits 'disconnect' for a connection never announced.
RegisterTooLateEmits(c) ==
  /\ stage[c] = "returning"
  /\ ready[c] # "OPEN"
  /\ SetStage(c, "done")
  /\ tally' = [tally EXCEPT ![userOf[c]] = @ - 1]
  /\ Unsubscribe(userOf[c])
  /\ UNCHANGED <<userOf, ready, registry, phase>>

\* The socket closed while SUBSCRIBE was in flight.
RegisterTooLate(c) ==
  /\ stage[c] = "returning"
  /\ ready[c] # "OPEN"
  /\ SetStage(c, "done")
  /\ Unsubscribe(userOf[c])
  /\ UNCHANGED <<userOf, ready, registry, phase, tally>>

\* ws.close() and ws.terminate() both leave OPEN for CLOSING.
Closing(r) == IF r = "OPEN" THEN "CLOSING" ELSE r

RegisterFailed(c) ==
  /\ stage[c] = "failing"
  /\ SetStage(c, "done")
  /\ ready' = [ready EXCEPT ![c] = Closing(@)]
  /\ UNCHANGED <<userOf, registry, phase, tally, transportVars>>

\* The 'close' event of a connection that is live ...
SocketClosedLive(c) ==
  LET u == userOf[c] IN
  /\ ready[c] \in {"OPEN", "CLOSING"}
  /\ stage[c] = "live"
  /\ ready' = [ready EXCEPT ![c] = "CLOSED"]
  /\ SetStage(c, "done")
  /\ RemoveConnection(u, c)
  /\ tally' = [tally EXCEPT ![u] = @ - 1]
  /\ Unsubscribe(u)
  /\ UNCHANGED <<userOf, phase>>

\* ... and of one that is not live yet, or failed.
SocketClosedEarly(c) ==
  LET u == userOf[c] IN
  /\ ready[c] \in {"OPEN", "CLOSING"}
  /\ stage[c] # "live"
  /\ ready' = [ready EXCEPT ![c] = "CLOSED"]
  /\ RemoveConnection(u, c)
  /\ UNCHANGED <<stage, userOf, phase, tally, transportVars>>

-----------------------------------------------------------------------------
\* The ways the server itself closes sockets

CloseSockets(S) ==
  ready' = [c \in Conn |-> IF c \in S THEN Closing(ready[c]) ELSE ready[c]]

\* disconnect(userId): only what is registered here.
Disconnect(u) ==
  /\ registry[u] # {}
  /\ CloseSockets(registry[u])
  /\ UNCHANGED <<stage, userOf, registry, phase, tally, transportVars>>

\* The heartbeat terminates a socket that missed a pong; its timer is
\* cleared when close() starts.
TerminateDead(c) ==
  /\ phase = "running"
  /\ ready[c] = "OPEN"
  /\ CloseSockets({c})
  /\ UNCHANGED <<stage, userOf, registry, phase, tally, transportVars>>

\* The peer's close frame, or the end of its TCP stream, has arrived; ws will
\* emit 'close' later.
PeerClosing(c) ==
  /\ ready[c] = "OPEN"
  /\ CloseSockets({c})
  /\ UNCHANGED <<stage, userOf, registry, phase, tally, transportVars>>

\* close() without force: every OPEN client gets a 1012 close frame.
CloseGracefully ==
  /\ phase = "running"
  /\ Clients # {}
  /\ CloseSockets(Clients)
  /\ phase' = "draining"
  /\ UNCHANGED <<stage, userOf, registry, tally, transportVars>>

\* Seeded fault: stragglers are not terminated.
CloseAtOnceWithoutTerminate ==
  /\ phase \in {"running", "draining"}
  /\ phase' = "closingWss"
  /\ UNCHANGED <<stage, userOf, ready, registry, tally, transportVars>>

\* terminate() of every client and wss.close(), with no await between them:
\* close() when forced or idle, and the end of the drain, whether by the
\* clients' 'close' events or by drainMs.
CloseAtOnce ==
  /\ phase \in {"running", "draining"}
  /\ CloseSockets(Clients)
  /\ phase' = "closingWss"
  /\ UNCHANGED <<stage, userOf, registry, tally, transportVars>>

\* Seeded fault: wss.close() is not awaited.
WssClosedTooSoon ==
  /\ phase = "closingWss"
  /\ CloseTransport
  /\ phase' = "closingTransport"
  /\ UNCHANGED <<stage, userOf, ready, registry, tally>>

\* The callback of wss.close(): no client is left.
WssClosed ==
  /\ phase = "closingWss"
  /\ Clients = {}
  /\ CloseTransport
  /\ phase' = "closingTransport"
  /\ UNCHANGED <<stage, userOf, ready, registry, tally>>

\* raw.close() resolves; subscribers still waiting are rejected with it.
TransportClosed ==
  /\ phase = "closingTransport"
  /\ RawClosed
  /\ stage' = [c \in Conn |->
                 IF stage[c] = "subscribing" THEN "failing" ELSE stage[c]]
  /\ registry' = [u \in User |-> {}]
  /\ phase' = "closed"
  /\ UNCHANGED <<userOf, ready, tally>>

-----------------------------------------------------------------------------
ConnStep(c) ==
  \/ UpgradeRequest(c)
  \/ RejectUpgrade(c)
  \/ \E u \in User : \/ RejectOverCap(c, u)
                     \/ AbortHandshake(c, u)
                     \/ AcceptUpgrade(c, u)
  \/ SubscribeAnswered(c) \/ SubscribeRejected(c)
  \/ Register(c) \/ RegisterTooLate(c) \/ RegisterFailed(c)
  \/ SocketClosedLive(c) \/ SocketClosedEarly(c)
  \/ TerminateDead(c) \/ PeerClosing(c)

UserStep(u) ==
  \/ UnsubscribeAnswered(u) \/ UnsubscribeRejected(u)
  \/ Disconnect(u)

CloseStep == CloseGracefully \/ CloseAtOnce \/ WssClosed \/ TransportClosed

Next ==
  \/ \E c \in Conn : ConnStep(c)
  \/ \E u \in User : UserStep(u)
  \/ CloseStep

Spec == Init /\ [][Next]_vars

\* Redis answers what it was sent; Node runs a settled promise's continuation;
\* ws destroys a closing socket after at most its own 30 s close timer; a
\* drain ends at drainMs; an idle wss.close() calls back; disconnectRedis()
\* is bounded by its fallback timer.  Clients owe us nothing, resolveUserId()
\* may hang, and nobody is obliged to call close().
Fairness ==
  /\ \A c \in Conn :
       /\ WF_vars(SubscribeAnswered(c) \/ SubscribeRejected(c))
       /\ WF_vars(Register(c) \/ RegisterTooLate(c) \/ RegisterFailed(c))
       /\ WF_vars(ready[c] = "CLOSING" /\ (SocketClosedLive(c) \/ SocketClosedEarly(c)))
  /\ \A u \in User : WF_vars(UnsubscribeAnswered(u) \/ UnsubscribeRejected(u))
  /\ WF_vars(phase = "draining" /\ CloseAtOnce)
  /\ WF_vars(WssClosed)
  /\ WF_vars(TransportClosed)

FairSpec == Spec /\ Fairness

-----------------------------------------------------------------------------
\* Properties

\* The connections that owe the transport one unsubscribe().
Holders(u) ==
  {c \in Conn : userOf[c] = u /\ stage[c] \in {"subscribing", "returning", "live"}}

\* Every connection "subscribes and unsubscribes for itself exactly once"
\* (netiflyServer.ts:212): while the transport is open the count of a user is
\* the number of connections with an unsubscribe() still to make, whatever
\* closes, fails or is rejected in between.
RefCountsMatchHolders ==
  TransportOpen => \A u \in User : refCounts[u] = Cardinality(Holders(u))

\* refCountedTransport.test.ts:82: "rolls back the ref count if the raw
\* transport rejects subscribe(), so the next call retries it".  A later
\* subscribe() reaches Redis only when the count is 0, so as long as the count
\* is positive the commands sent must leave the channel subscribed.
CountedIsSubscribed ==
  TransportOpen => \A u \in User : refCounts[u] > 0 => WillBeSubscribed(u)

\* NOT-5: "overlapping connections can never unsubscribe out from under one
\* another".  As long as one connection of u is registered, the commands sent
\* to Redis end with u's channel subscribed.
RegisteredStaysSubscribed ==
  TransportOpen => \A u \in User : registry[u] # {} => WillBeSubscribed(u)

\* The registry holds exactly the connections whose 'close' listener will
\* unsubscribe, each under its own user, and none that is already CLOSED:
\* deliverLocally(), the cap and disconnect() see no stale socket.
RegistryIsLive ==
  \A u \in User : registry[u] =
    {c \in Conn : stage[c] = "live" /\ userOf[c] = u /\ ready[c] # "CLOSED"}

\* An application that counts 'connect' and 'disconnect' events per user has
\* the size of the registry, also through close(): its final registry.clear()
\* drops no connection whose 'disconnect' was never emitted.
TallyMatchesRegistry ==
  \A u \in User : tally[u] = Cardinality(registry[u])

Unsettled(u) ==
  \/ wire[u] # <<>>
  \/ \E c \in Conn : userOf[c] = u /\ stage[c] = "returning"

\* isOnline() and isConnectedHere() agree whenever nothing of u is in flight.
PresenceAtRest ==
  TransportOpen =>
    \A u \in User : ~Unsettled(u) => (u \in channel <=> registry[u] # {})

\* When close() has resolved nothing is left: no socket, no registered
\* connection, no reference, no subscription.
ClosedLeavesNothing ==
  phase = "closed" =>
    /\ Clients = {}
    /\ channel = {}
    /\ \A u \in User : registry[u] = {} /\ refCounts[u] = 0 /\ wire[u] = <<>>

\* Once transport.close() was called no late continuation sends the raw
\* transport another command, and no connection is registered any more.
NoLateTransportUse ==
  [][~TransportOpen =>
       \A u \in User : /\ Len(wire'[u]) <= Len(wire[u])
                       /\ registry'[u] \subseteq registry[u]]_vars

\* close() never hangs, whatever is in flight when it is called.
CloseCompletes == phase # "running" ~> phase = "closed"

\* Presence converges: once connections stop coming and going, Redis counts
\* this instance for exactly the users that have a connection here.
PresenceConverges ==
  <>[](\A u \in User : u \in channel <=> registry[u] # {})

\* What RefCountedTransport promises its callers, and how the server meets it.
Shared == INSTANCE SharedSubscription WITH
  Caller <- Conn,
  holders <- [u \in User |-> IF TransportOpen THEN Holders(u) ELSE {}],
  open <- {u \in User : TransportOpen /\ WillBeSubscribed(u)}

\* Without Redis failures the instance implements SharedSubscription: a
\* channel is asked for exactly while somebody holds it.
ImplementsSharedSubscription == Shared!Spec
=============================================================================
