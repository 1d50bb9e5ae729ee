------------------------ MODULE NetiflyServerProofs ------------------------
(***************************************************************************)
(* Theorems about NetiflyServer, for any finite set of connections, any    *)
(* set of users and any cap.                                               *)
(***************************************************************************)
EXTENDS NetiflyServer, FiniteSetTheorems, TLAPS

\* The registry's operations are read where they are used.
USE DEF AddConnection, RemoveConnection

\* A connection past the upgrade knows its user, and has a socket.
OwnerKnown ==
  \A c \in Conn :
    stage[c] \in {"subscribing", "returning", "failing", "live"} =>
      userOf[c] \in User

-----------------------------------------------------------------------------
\* Operations of RefCountedTransport keep their types

LEMMA SubscribeType ==
  ASSUME TransportTypeOK, NEW u \in User, NEW c \in Conn, Subscribe(u, c)
  PROVE  TransportTypeOK'
<1>1. SubscribeBy(c) \in Command
  BY DEF SubscribeBy, Command
<1>2. refCounts' \in [User -> Nat]
  BY DEF TransportTypeOK, Subscribe
<1>3. Append(wire[u], SubscribeBy(c)) \in Seq(Command)
  BY <1>1 DEF TransportTypeOK
<1>4. wire' \in [User -> Seq(Command)]
  BY <1>3 DEF TransportTypeOK, Subscribe
<1> QED
  BY <1>2, <1>4 DEF TransportTypeOK, Subscribe

LEMMA UnsubscribeType ==
  ASSUME TransportTypeOK, NEW u \in User, Unsubscribe(u)
  PROVE  TransportTypeOK'
<1>1. UnsubscribeCmd \in Command
  BY DEF UnsubscribeCmd, Command
<1>2. refCounts' \in [User -> Nat]
  BY DEF TransportTypeOK, Unsubscribe, Dropped
<1>3. Append(wire[u], UnsubscribeCmd) \in Seq(Command)
  BY <1>1 DEF TransportTypeOK
<1>4. wire' \in [User -> Seq(Command)]
  BY <1>3 DEF TransportTypeOK, Unsubscribe
<1> QED
  BY <1>2, <1>4 DEF TransportTypeOK, Unsubscribe

LEMMA AnswerHeadType ==
  ASSUME TransportTypeOK, NEW u \in User, wire[u] # <<>>, AnswerHead(u)
  PROVE  wire' \in [User -> Seq(Command)]
<1>1. Tail(wire[u]) \in Seq(Command)
  BY DEF TransportTypeOK
<1> QED
  BY <1>1 DEF TransportTypeOK, AnswerHead

LEMMA AnswerType ==
  ASSUME TransportTypeOK, NEW u \in User,
         \/ \E c \in Conn : RawSubscribed(u, c) \/ RawSubscribeRejected(u, c)
         \/ RawUnsubscribed(u) \/ RawUnsubscribeRejected(u)
  PROVE  TransportTypeOK'
<1>1. wire[u] # <<>> /\ AnswerHead(u)
  BY DEF RawSubscribed, RawSubscribeRejected, RawUnsubscribed, RawUnsubscribeRejected
<1>2. wire' \in [User -> Seq(Command)]
  BY <1>1, AnswerHeadType
<1>3. refCounts' \in [User -> Nat]
  <2>1. \/ refCounts' = refCounts
        \/ refCounts' = [refCounts EXCEPT ![u] = Dropped(@)]
    BY DEF RawSubscribed, RawSubscribeRejected, RawUnsubscribed, RawUnsubscribeRejected
  <2> QED
    BY <2>1 DEF TransportTypeOK, Dropped
<1>4. channel' \subseteq User
  BY DEF TransportTypeOK, RawSubscribed, RawSubscribeRejected, RawUnsubscribed,
         RawUnsubscribeRejected
<1> QED
  BY <1>2, <1>3, <1>4 DEF TransportTypeOK

-----------------------------------------------------------------------------
\* Type correctness

Typed == TypeOK /\ OwnerKnown

LEMMA InitTyped == Init => Typed
<1> SUFFICES ASSUME Init PROVE Typed
  OBVIOUS
<1>1. TransportTypeOK
  BY DEF Init, TransportInit, TransportTypeOK
<1> QED
  BY <1>1 DEF Init, Typed, TypeOK, OwnerKnown, Stage, ReadyState, Phase

LEMMA TypedUpgrade ==
  ASSUME Typed, NEW c \in Conn,
         \/ UpgradeRequest(c) \/ RejectUpgrade(c)
         \/ \E u \in User : \/ RejectOverCap(c, u)
                            \/ AbortHandshake(c, u)
                            \/ AcceptUpgrade(c, u)
  PROVE  Typed'
<1> USE DEF Typed, TypeOK, OwnerKnown, Stage, ReadyState, Phase, SetStage
<1>1. ASSUME stage' = [stage EXCEPT ![c] = "resolving"]
             \/ stage' = [stage EXCEPT ![c] = "rejected"],
             UNCHANGED <<userOf, ready, registry, phase, tally, transportVars>>
      PROVE  Typed'
  BY <1>1 DEF transportVars, TransportTypeOK
<1>2. ASSUME NEW u \in User, AcceptUpgrade(c, u) PROVE Typed'
  <2>1. TransportTypeOK'
    BY <1>2, SubscribeType DEF AcceptUpgrade
  <2>2. PICK s \in {"subscribing", "returning"} : stage' = [stage EXCEPT ![c] = s]
    BY <1>2 DEF AcceptUpgrade
  <2> QED
    BY <1>2, <2>1, <2>2 DEF AcceptUpgrade
<1> QED
  BY <1>1, <1>2 DEF UpgradeRequest, RejectUpgrade, RejectOverCap, AbortHandshake

LEMMA TypedAnswer ==
  ASSUME Typed, NEW c \in Conn, SubscribeAnswered(c) \/ SubscribeRejected(c)
  PROVE  Typed'
<1> USE DEF Typed, TypeOK, OwnerKnown, Stage, ReadyState, Phase, SetStage
<1>1. userOf[c] \in User /\ stage[c] = "subscribing"
  BY DEF SubscribeAnswered, SubscribeRejected
<1>2. TransportTypeOK'
  BY <1>1, AnswerType DEF SubscribeAnswered, SubscribeRejected
<1>3. PICK s \in {"returning", "failing"} : stage' = [stage EXCEPT ![c] = s]
  BY DEF SubscribeAnswered, SubscribeRejected
<1> QED
  BY <1>1, <1>2, <1>3 DEF SubscribeAnswered, SubscribeRejected

LEMMA TypedUserStep ==
  ASSUME Typed, NEW u \in User, UserStep(u)
  PROVE  Typed'
<1> USE DEF Typed, TypeOK, OwnerKnown, Stage, ReadyState, Phase
<1>1. CASE UnsubscribeAnswered(u) \/ UnsubscribeRejected(u)
  <2>1. TransportTypeOK'
    BY <1>1, AnswerType DEF UnsubscribeAnswered, UnsubscribeRejected
  <2> QED
    BY <1>1, <2>1 DEF UnsubscribeAnswered, UnsubscribeRejected, serverVars
<1>2. CASE Disconnect(u)
  BY <1>2 DEF Disconnect, CloseSockets, Closing, transportVars, TransportTypeOK
<1> QED
  BY <1>1, <1>2 DEF UserStep

LEMMA TypedContinuation ==
  ASSUME Typed, NEW c \in Conn,
         Register(c) \/ RegisterTooLate(c) \/ RegisterFailed(c)
  PROVE  Typed'
<1> USE DEF Typed, TypeOK, OwnerKnown, Stage, ReadyState, Phase, SetStage
<1>1. userOf[c] \in User
  BY DEF Register, RegisterTooLate, RegisterFailed
<1>2. CASE Register(c)
  BY <1>1, <1>2 DEF Register, transportVars, TransportTypeOK
<1>3. CASE RegisterTooLate(c)
  <2>1. TransportTypeOK'
    BY <1>1, <1>3, UnsubscribeType DEF RegisterTooLate
  <2> QED
    BY <1>3, <2>1 DEF RegisterTooLate
<1>4. CASE RegisterFailed(c)
  BY <1>4 DEF RegisterFailed, Closing, transportVars, TransportTypeOK
<1> QED
  BY <1>2, <1>3, <1>4

LEMMA TypedSocketEvent ==
  ASSUME Typed, NEW c \in Conn,
         \/ SocketClosedLive(c) \/ SocketClosedEarly(c)
         \/ TerminateDead(c) \/ PeerClosing(c)
  PROVE  Typed'
<1> USE DEF Typed, TypeOK, OwnerKnown, Stage, ReadyState, Phase, SetStage
<1>1. CASE SocketClosedLive(c)
  <2>1. TransportTypeOK'
    BY <1>1, UnsubscribeType DEF SocketClosedLive
  <2> QED
    BY <1>1, <2>1 DEF SocketClosedLive
<1>2. CASE SocketClosedEarly(c)
  <2>1. registry' \in [User -> SUBSET Conn]
    BY <1>2 DEF SocketClosedEarly
  <2> QED
    BY <1>2, <2>1 DEF SocketClosedEarly, transportVars, TransportTypeOK
<1>3. CASE TerminateDead(c) \/ PeerClosing(c)
  BY <1>3 DEF TerminateDead, PeerClosing, CloseSockets, Closing,
     transportVars, TransportTypeOK
<1> QED
  BY <1>1, <1>2, <1>3

LEMMA TypedCloseStep ==
  ASSUME Typed, CloseStep
  PROVE  Typed'
<1> USE DEF Typed, TypeOK, OwnerKnown, Stage, ReadyState, Phase, TransportTypeOK
<1>1. CASE CloseGracefully \/ CloseAtOnce
  BY <1>1 DEF CloseGracefully, CloseAtOnce, CloseSockets, Closing, transportVars
<1>2. CASE WssClosed
  BY <1>2 DEF WssClosed, CloseTransport
<1>3. CASE TransportClosed
  <2>1. wire' \in [User -> Seq(Command)]
    BY <1>3 DEF TransportClosed, RawClosed
  <2> QED
    BY <1>3, <2>1 DEF TransportClosed, RawClosed
<1> QED
  BY <1>1, <1>2, <1>3 DEF CloseStep

LEMMA StutterTyped == Typed /\ UNCHANGED vars => Typed'
BY DEF Typed, TypeOK, OwnerKnown, TransportTypeOK, vars

LEMMA NextTyped == Typed /\ [Next]_vars => Typed'
<1> SUFFICES ASSUME Typed, Next PROVE Typed'
  BY StutterTyped
<1>1. ASSUME NEW c \in Conn, ConnStep(c) PROVE Typed'
  BY <1>1, TypedUpgrade, TypedAnswer, TypedContinuation, TypedSocketEvent
     DEF ConnStep
<1> QED
  BY <1>1, TypedUserStep, TypedCloseStep DEF Next

\* Every reachable state is well typed, whatever Redis rejects: no count goes
\* negative, no connection is registered for a user it did not resolve to.
THEOREM TypeCorrect == Spec => []TypeOK
<1>1. Typed => TypeOK
  BY DEF Typed
<1> QED
  BY InitTyped, NextTyped, <1>1, PTL DEF Spec

-----------------------------------------------------------------------------
\* The counts of RefCountedTransport

Holding == {"subscribing", "returning", "live"}

LEMMA HoldersFinite ==
  ASSUME NEW u PROVE IsFiniteSet(Holders(u)) /\ Cardinality(Holders(u)) \in Nat
BY ServerAssumption, FS_Subset, FS_CardinalityType DEF Holders

\* A step that moves c between two stages that both hold, or both do not.
LEMMA HoldersKept ==
  ASSUME Typed, NEW c \in Conn, NEW s \in Stage,
         stage' = [stage EXCEPT ![c] = s], userOf' = userOf,
         s \in Holding <=> stage[c] \in Holding
  PROVE  \A u : Holders(u)' = Holders(u)
BY DEF Typed, TypeOK, Holders, Holding

\* A step that makes c let go.
LEMMA HoldersLess ==
  ASSUME Typed, NEW c \in Conn, NEW s \in Stage \ Holding,
         stage' = [stage EXCEPT ![c] = s], userOf' = userOf,
         stage[c] \in Holding
  PROVE  /\ c \in Holders(userOf[c])
         /\ \A u : Holders(u)' = IF u = userOf[c] THEN Holders(u) \ {c} ELSE Holders(u)
BY DEF Typed, TypeOK, Holders, Holding

Counted == \A u \in User : refCounts[u] = Cardinality(Holders(u))

LEMMA CountedKept ==
  ASSUME Counted, refCounts' = refCounts, \A u : Holders(u)' = Holders(u)
  PROVE  Counted'
BY DEF Counted

\* Giving one reference back for one holder less.
LEMMA CountedLess ==
  ASSUME Typed, Counted, NEW c \in Conn, NEW s \in Stage \ Holding,
         stage' = [stage EXCEPT ![c] = s], userOf' = userOf,
         stage[c] \in Holding,
         refCounts' = [refCounts EXCEPT ![userOf[c]] = Dropped(@)]
  PROVE  Counted'
<1> DEFINE o == userOf[c]
<1>1. o \in User
  BY DEF Typed, OwnerKnown, Holding
<1>2. c \in Holders(o)
  BY HoldersLess
<1>3. \A u : Holders(u)' = IF u = o THEN Holders(u) \ {c} ELSE Holders(u)
  BY HoldersLess
<1>4. Cardinality(Holders(o)') = Cardinality(Holders(o)) - 1
  BY <1>2, <1>3, HoldersFinite, FS_RemoveElement
<1>5. Cardinality(Holders(o)) >= 1
  BY <1>2, HoldersFinite, FS_EmptySet
<1>6. refCounts'[o] = Cardinality(Holders(o)')
  BY <1>1, <1>4, <1>5, HoldersFinite DEF Counted, Dropped, Typed, TypeOK, TransportTypeOK
<1>7. ASSUME NEW u \in User, u # o PROVE refCounts'[u] = Cardinality(Holders(u)')
  BY <1>1, <1>3, <1>7 DEF Counted, Typed, TypeOK, TransportTypeOK
<1> QED
  BY <1>6, <1>7 DEF Counted

\* Taking one reference for one holder more.
LEMMA CountedMore ==
  ASSUME Typed, Counted, NEW c \in Conn, NEW u \in User, AcceptUpgrade(c, u)
  PROVE  Counted'
<1>1. PICK s \in {"subscribing", "returning"} : stage' = [stage EXCEPT ![c] = s]
  BY DEF AcceptUpgrade, SetStage
<1>2. /\ stage[c] = "resolving"
      /\ userOf' = [userOf EXCEPT ![c] = u]
      /\ refCounts' = [refCounts EXCEPT ![u] = @ + 1]
  BY DEF AcceptUpgrade, Subscribe
<1>3. c \notin Holders(u)
  BY <1>2 DEF Holders
<1>4. \A v : Holders(v)' = IF v = u THEN Holders(v) \cup {c} ELSE Holders(v)
  BY <1>1, <1>2 DEF Holders, Typed, TypeOK
<1>5. Cardinality(Holders(u)') = Cardinality(Holders(u)) + 1
  BY <1>3, <1>4, HoldersFinite, FS_AddElement
<1> QED
  BY <1>2, <1>4, <1>5 DEF Counted, Typed, TypeOK, TransportTypeOK

\* Only close() moves the phase.
LEMMA ConnStepPhase == \A c \in Conn : ConnStep(c) => phase' = phase
BY DEF ConnStep, UpgradeRequest, RejectUpgrade, RejectOverCap, AbortHandshake,
   AcceptUpgrade, SubscribeAnswered, SubscribeRejected, Register,
   RegisterTooLate, RegisterFailed, SocketClosedLive, SocketClosedEarly,
   TerminateDead, PeerClosing

LEMMA UserStepPhase == \A u \in User : UserStep(u) => phase' = phase
BY DEF UserStep, UnsubscribeAnswered, UnsubscribeRejected, Disconnect, serverVars

LEMMA ConnStepCounted ==
  ASSUME Typed, Counted, NEW c \in Conn, ConnStep(c)
  PROVE  Counted'
<1> USE DEF SetStage
<1>1. CASE UpgradeRequest(c) \/ RejectUpgrade(c)
           \/ \E u \in User : RejectOverCap(c, u) \/ AbortHandshake(c, u)
  <2>1. PICK s \in {"resolving", "rejected"} : stage' = [stage EXCEPT ![c] = s]
    BY <1>1 DEF UpgradeRequest, RejectUpgrade, RejectOverCap, AbortHandshake
  <2>2. stage[c] \notin Holding /\ userOf' = userOf /\ refCounts' = refCounts
    BY <1>1 DEF UpgradeRequest, RejectUpgrade, RejectOverCap, AbortHandshake,
       transportVars, Holding
  <2>3. s \in Stage /\ s \notin Holding
    BY DEF Stage, Holding
  <2> QED
    BY <2>1, <2>2, <2>3, HoldersKept, CountedKept
<1>2. ASSUME NEW u \in User, AcceptUpgrade(c, u) PROVE Counted'
  BY <1>2, CountedMore
<1>3. CASE SubscribeAnswered(c) \/ Register(c) \/ RegisterFailed(c)
  <2>1. PICK s \in Stage : /\ stage' = [stage EXCEPT ![c] = s]
                           /\ s \in Holding <=> stage[c] \in Holding
    BY <1>3 DEF SubscribeAnswered, Register, RegisterFailed, Stage, Holding
  <2>2. userOf' = userOf /\ refCounts' = refCounts
    BY <1>3 DEF SubscribeAnswered, RawSubscribed, Register, RegisterFailed, transportVars
  <2> QED
    BY <2>1, <2>2, HoldersKept, CountedKept
<1>4. CASE SubscribeRejected(c) \/ RegisterTooLate(c) \/ SocketClosedLive(c)
  <2>1. PICK s \in {"failing", "done"} : stage' = [stage EXCEPT ![c] = s]
    BY <1>4 DEF SubscribeRejected, RegisterTooLate, SocketClosedLive
  <2>2. /\ stage[c] \in Holding
        /\ userOf' = userOf
        /\ refCounts' = [refCounts EXCEPT ![userOf[c]] = Dropped(@)]
    BY <1>4 DEF SubscribeRejected, RawSubscribeRejected, RegisterTooLate,
       SocketClosedLive, Unsubscribe, Holding
  <2>3. s \in Stage \ Holding
    BY DEF Stage, Holding
  <2> QED
    BY <2>1, <2>2, <2>3, CountedLess
<1>5. CASE SocketClosedEarly(c) \/ TerminateDead(c) \/ PeerClosing(c)
  BY <1>5 DEF SocketClosedEarly, TerminateDead, PeerClosing, transportVars,
     Counted, Holders
<1> QED
  BY <1>1, <1>2, <1>3, <1>4, <1>5 DEF ConnStep

LEMMA UserStepCounted ==
  ASSUME Counted, NEW u \in User, UserStep(u)
  PROVE  Counted'
BY DEF UserStep, UnsubscribeAnswered, RawUnsubscribed, UnsubscribeRejected,
   RawUnsubscribeRejected, Disconnect, serverVars, transportVars, Counted, Holders

LEMMA NextCounted ==
  ASSUME Typed, RefCountsMatchHolders, [Next]_vars
  PROVE  RefCountsMatchHolders'
<1> SUFFICES ASSUME TransportOpen' PROVE Counted'
  BY DEF RefCountsMatchHolders, Counted
<1> USE DEF RefCountsMatchHolders, TransportOpen
<1>1. ASSUME NEW c \in Conn, ConnStep(c) PROVE Counted'
  BY <1>1, ConnStepPhase, ConnStepCounted DEF Counted
<1>2. ASSUME NEW u \in User, UserStep(u) PROVE Counted'
  BY <1>2, UserStepPhase, UserStepCounted DEF Counted
<1>3. CASE CloseGracefully \/ CloseAtOnce
  BY <1>3 DEF CloseGracefully, CloseAtOnce, transportVars, Counted, Holders
<1>4. CASE WssClosed \/ TransportClosed
  BY <1>4 DEF WssClosed, TransportClosed
<1>5. CASE UNCHANGED vars
  BY <1>5 DEF vars, Counted, Holders
<1> QED
  BY <1>1, <1>2, <1>3, <1>4, <1>5 DEF Next, CloseStep

LEMMA InitCounted == Init => RefCountsMatchHolders
<1> SUFFICES ASSUME Init PROVE RefCountsMatchHolders
  OBVIOUS
<1>1. \A u : Holders(u) = {}
  BY DEF Init, Holders
<1> QED
  BY <1>1, FS_EmptySet DEF Init, TransportInit, RefCountsMatchHolders

\* Whatever fails, closes or is rejected, the count of a user is the number of
\* connections that still have an unsubscribe() to make (netiflyServer.ts:212).
THEOREM RefCountsCorrect == Spec => []RefCountsMatchHolders
<1> DEFINE I == Typed /\ RefCountsMatchHolders
<1>1. Init => I
  BY InitTyped, InitCounted
<1>2. I /\ [Next]_vars => I'
  BY NextTyped, NextCounted
<1>3. I => RefCountsMatchHolders
  OBVIOUS
<1> QED
  BY <1>1, <1>2, <1>3, PTL DEF Spec

-----------------------------------------------------------------------------
\* The registry

\* A connection has a socket from the end of its handshake on ...
SocketKnown ==
  \A c \in Conn : stage[c] \in {"none", "resolving", "rejected"} <=> ready[c] = "NONE"

\* ... and every socket is gone when the transport is closed.
Drained == phase \in {"closingTransport", "closed"} => Clients = {}

RegistryInv == RegistryIsLive /\ SocketKnown /\ Drained

LEMMA UpgradeRegistry ==
  ASSUME Typed, RegistryInv, NEW c \in Conn,
         \/ UpgradeRequest(c) \/ RejectUpgrade(c)
         \/ \E u \in User : \/ RejectOverCap(c, u)
                            \/ AbortHandshake(c, u)
                            \/ AcceptUpgrade(c, u)
  PROVE  RegistryInv'
<1> USE DEF Typed, TypeOK, RegistryInv, RegistryIsLive, SocketKnown, Drained, Clients, SetStage
<1>1. CASE UpgradeRequest(c) \/ RejectUpgrade(c)
           \/ \E u \in User : RejectOverCap(c, u) \/ AbortHandshake(c, u)
  <2>1. PICK s \in {"resolving", "rejected"} : stage' = [stage EXCEPT ![c] = s]
    BY <1>1 DEF UpgradeRequest, RejectUpgrade, RejectOverCap, AbortHandshake
  <2>2. /\ stage[c] \in {"none", "resolving"}
        /\ UNCHANGED <<userOf, ready, registry, phase>>
    BY <1>1 DEF UpgradeRequest, RejectUpgrade, RejectOverCap, AbortHandshake
  <2> QED
    BY <2>1, <2>2
<1>2. ASSUME NEW u \in User, AcceptUpgrade(c, u) PROVE RegistryInv'
  <2>1. PICK s \in {"subscribing", "returning"} : stage' = [stage EXCEPT ![c] = s]
    BY <1>2 DEF AcceptUpgrade
  <2>2. /\ stage[c] = "resolving" /\ WssAccepting
        /\ userOf' = [userOf EXCEPT ![c] = u]
        /\ ready' = [ready EXCEPT ![c] = "OPEN"]
        /\ UNCHANGED <<registry, phase>>
    BY <1>2 DEF AcceptUpgrade
  <2> QED
    BY <2>1, <2>2 DEF WssAccepting
<1> QED
  BY <1>1, <1>2

LEMMA AnswerRegistry ==
  ASSUME Typed, RegistryInv, NEW c \in Conn,
         \/ SubscribeAnswered(c) \/ SubscribeRejected(c)
         \/ RegisterTooLate(c) \/ RegisterFailed(c)
  PROVE  RegistryInv'
<1> USE DEF Typed, TypeOK, RegistryInv, RegistryIsLive, SocketKnown, Drained, Clients, SetStage
<1>1. PICK s \in {"returning", "failing", "done"} : stage' = [stage EXCEPT ![c] = s]
  BY DEF SubscribeAnswered, SubscribeRejected, RegisterTooLate, RegisterFailed
<1>2. /\ stage[c] \in {"subscribing", "returning", "failing"}
      /\ \/ ready' = ready
         \/ ready' = [ready EXCEPT ![c] = Closing(@)]
      /\ UNCHANGED <<userOf, registry, phase>>
  BY DEF SubscribeAnswered, SubscribeRejected, RegisterTooLate, RegisterFailed
<1> QED
  BY <1>1, <1>2 DEF Closing, ReadyState

LEMMA RegisterRegistry ==
  ASSUME Typed, RegistryInv, NEW c \in Conn, Register(c)
  PROVE  RegistryInv'
<1> USE DEF Typed, TypeOK, RegistryInv, RegistryIsLive, SocketKnown, Drained, Clients, SetStage
<1>1. userOf[c] \in User
  BY DEF Register, OwnerKnown
<1> QED
  BY <1>1 DEF Register

LEMMA CloseEventRegistry ==
  ASSUME Typed, RegistryInv, NEW c \in Conn,
         SocketClosedLive(c) \/ SocketClosedEarly(c)
  PROVE  RegistryInv'
<1> USE DEF Typed, TypeOK, RegistryInv, RegistryIsLive, SocketKnown, Drained, Clients, SetStage
<1>1. /\ ready[c] \in {"OPEN", "CLOSING"}
      /\ ready' = [ready EXCEPT ![c] = "CLOSED"]
      /\ registry' = [registry EXCEPT ![userOf[c]] = @ \ {c}]
      /\ UNCHANGED <<userOf, phase>>
  BY DEF SocketClosedLive, SocketClosedEarly
<1>2. \/ stage[c] = "live" /\ stage' = [stage EXCEPT ![c] = "done"]
      \/ stage[c] # "live" /\ stage' = stage
  BY DEF SocketClosedLive, SocketClosedEarly
<1>3. \A u \in User : registry'[u] =
        {d \in Conn : stage'[d] = "live" /\ userOf[d] = u /\ ready'[d] # "CLOSED"}
  BY <1>1, <1>2
<1>4. SocketKnown'
  BY <1>1, <1>2
<1>5. Drained'
  BY <1>1
<1> QED
  BY <1>1, <1>3, <1>4, <1>5

\* Sockets on their way out are still registered.
LEMMA ClosingRegistry ==
  ASSUME Typed, RegistryInv, NEW S, CloseSockets(S),
         UNCHANGED <<stage, userOf, registry>>,
         phase' \in {"closingTransport", "closed"} => phase' = phase
  PROVE  RegistryInv'
<1> USE DEF Typed, TypeOK, RegistryInv, RegistryIsLive, SocketKnown, Drained, Clients
<1>1. \A c \in Conn : /\ ready'[c] = "CLOSED" <=> ready[c] = "CLOSED"
                      /\ ready'[c] = "NONE" <=> ready[c] = "NONE"
                      /\ c \in Clients' => c \in Clients
  BY DEF CloseSockets, Closing, ReadyState
<1> QED
  BY <1>1

LEMMA CloseStepRegistry ==
  ASSUME Typed, RegistryInv, CloseStep
  PROVE  RegistryInv'
<1>1. CASE CloseGracefully \/ CloseAtOnce
  <2>1. /\ CloseSockets(Clients)
        /\ UNCHANGED <<stage, userOf, registry>>
        /\ phase' \in {"draining", "closingWss"}
    BY <1>1 DEF CloseGracefully, CloseAtOnce
  <2> QED
    BY <2>1, ClosingRegistry
<1>2. CASE WssClosed
  BY <1>2 DEF WssClosed, RegistryInv, RegistryIsLive, SocketKnown, Drained, Clients
<1>3. CASE TransportClosed
  <2> USE DEF Typed, TypeOK, RegistryInv, RegistryIsLive, SocketKnown, Drained, Clients
  <2>1. /\ UNCHANGED <<userOf, ready>>
        /\ registry' = [u \in User |-> {}]
        /\ Clients = {}
    BY <1>3 DEF TransportClosed
  <2>2. \A c \in Conn :
          \/ stage'[c] = stage[c]
          \/ stage[c] = "subscribing" /\ stage'[c] = "failing"
    BY <1>3 DEF TransportClosed
  <2>3. \A c \in Conn : stage'[c] = "live" => ready'[c] = "CLOSED"
    BY <2>1, <2>2 DEF ReadyState
  <2> QED
    BY <2>1, <2>2, <2>3
<1> QED
  BY <1>1, <1>2, <1>3 DEF CloseStep

LEMMA NextRegistry == Typed /\ RegistryInv /\ [Next]_vars => RegistryInv'
<1> SUFFICES ASSUME Typed, RegistryInv, [Next]_vars PROVE RegistryInv'
  OBVIOUS
<1>1. ASSUME NEW c \in Conn, ConnStep(c) PROVE RegistryInv'
  <2>1. CASE TerminateDead(c) \/ PeerClosing(c)
    BY <2>1, ClosingRegistry DEF TerminateDead, PeerClosing
  <2> QED
    BY <1>1, <2>1, UpgradeRegistry, AnswerRegistry, RegisterRegistry,
       CloseEventRegistry DEF ConnStep
<1>2. ASSUME NEW u \in User, UserStep(u) PROVE RegistryInv'
  <2>1. CASE Disconnect(u)
    BY <2>1, ClosingRegistry DEF Disconnect
  <2>2. CASE UnsubscribeAnswered(u) \/ UnsubscribeRejected(u)
    BY <2>2 DEF UnsubscribeAnswered, UnsubscribeRejected, serverVars,
       RegistryInv, RegistryIsLive, SocketKnown, Drained, Clients
  <2> QED
    BY <1>2, <2>1, <2>2 DEF UserStep
<1>3. CASE UNCHANGED vars
  BY <1>3 DEF vars, RegistryInv, RegistryIsLive, SocketKnown, Drained, Clients
<1> QED
  BY <1>1, <1>2, <1>3, CloseStepRegistry DEF Next

LEMMA InitRegistry == Init => RegistryInv
BY DEF Init, RegistryInv, RegistryIsLive, SocketKnown, Drained, Clients

\* The registry is exactly the set of connections whose 'close' listener will
\* unsubscribe: no closed socket, no connection under another user's name.
THEOREM RegistryCorrect == Spec => []RegistryIsLive
<1> DEFINE I == Typed /\ RegistryInv
<1>1. Init => I
  BY InitTyped, InitRegistry
<1>2. I /\ [Next]_vars => I'
  BY NextTyped, NextRegistry
<1>3. I => RegistryIsLive
  BY DEF RegistryInv
<1> QED
  BY <1>1, <1>2, <1>3, PTL DEF Spec

-----------------------------------------------------------------------------
\* No registered connection loses its channel (NOT-5)

LEMMA SentLast ==
  ASSUME NEW q \in Seq(Command), q # <<>>
  PROVE  Tail(q) # <<>> => Tail(q)[Len(Tail(q))] = q[Len(q)]
OBVIOUS

LEMMA EmptySeq == ASSUME NEW S, NEW q \in Seq(S), q = <<>> PROVE Len(q) = 0
OBVIOUS

LEMMA OnlyCommandLast ==
  ASSUME NEW q \in Seq(Command), q # <<>>, Tail(q) = <<>>
  PROVE  q[Len(q)] = Head(q)
<1>1. Tail(q) \in Seq(Command) /\ Len(Tail(q)) = Len(q) - 1
  OBVIOUS
<1>2. Len(Tail(q)) = 0
  BY <1>1, EmptySeq
<1>3. Len(q) = 1
  BY <1>1, <1>2
<1> QED
  BY <1>3

LEMMA AppendLast ==
  ASSUME NEW q \in Seq(Command), NEW e
  PROVE  Append(q, e) # <<>> /\ Append(q, e)[Len(Append(q, e))] = e
<1>1. Len(Append(q, e)) = Len(q) + 1 /\ Len(q) \in Nat
  OBVIOUS
<1>2. Len(<<>>) = 0
  OBVIOUS
<1> QED
  BY <1>1, <1>2

LEMMA SubscribeNotUnsubscribe == \A c : SubscribeBy(c) # UnsubscribeCmd
BY DEF SubscribeBy, UnsubscribeCmd

\* The commands on the wire decide as they are answered.
LEMMA AnswerKeepsDecision ==
  ASSUME Typed, NEW u \in User, wire[u] # <<>>, AnswerHead(u),
         \/ \E c \in Conn : Head(wire[u]) = SubscribeBy(c) /\ channel' = channel \cup {u}
         \/ Head(wire[u]) = UnsubscribeCmd /\ channel' \in {channel, channel \ {u}}
  PROVE  \A v \in User : WillBeSubscribed(v) => WillBeSubscribed(v)'
<1> USE DEF WillBeSubscribed
<1>1. wire \in [User -> Seq(Command)] /\ wire' = [wire EXCEPT ![u] = Tail(@)]
  BY DEF Typed, TypeOK, TransportTypeOK, AnswerHead
<1>2. ASSUME NEW v \in User, v # u, WillBeSubscribed(v) PROVE WillBeSubscribed(v)'
  BY <1>1, <1>2
<1>3. ASSUME WillBeSubscribed(u) PROVE WillBeSubscribed(u)'
  <2>1. wire[u] \in Seq(Command) /\ wire'[u] = Tail(wire[u])
    BY <1>1
  <2>2. wire[u][Len(wire[u])] # UnsubscribeCmd
    BY <1>3
  <2>3. CASE Tail(wire[u]) = <<>>
    <3>1. Head(wire[u]) # UnsubscribeCmd
      BY <2>1, <2>2, <2>3, OnlyCommandLast
    <3> QED
      BY <2>1, <2>3, <3>1
  <2>4. CASE Tail(wire[u]) # <<>>
    BY <2>1, <2>2, <2>4, SentLast
  <2> QED
    BY <2>3, <2>4
<1> QED
  BY <1>2, <1>3

\* A first subscriber sends SUBSCRIBE, so that the count may become positive.
LEMMA SubscribeDecides ==
  ASSUME Typed, CountedIsSubscribed, TransportOpen,
         NEW u \in User, NEW c \in Conn, Subscribe(u, c)
  PROVE  \A v \in User : refCounts'[v] > 0 => WillBeSubscribed(v)'
<1> USE DEF WillBeSubscribed, Typed, TypeOK, TransportTypeOK
<1>1. ASSUME NEW v \in User, v # u, refCounts'[v] > 0 PROVE WillBeSubscribed(v)'
  BY <1>1 DEF Subscribe, CountedIsSubscribed
<1>2. CASE FirstSubscriber(u)
  <2>1. wire[u] \in Seq(Command) /\ wire'[u] = Append(wire[u], SubscribeBy(c))
    BY <1>2 DEF Subscribe
  <2>2. wire'[u] # <<>> /\ wire'[u][Len(wire'[u])] = SubscribeBy(c)
    BY <2>1, AppendLast
  <2> QED
    BY <1>1, <2>2, SubscribeNotUnsubscribe
<1>3. CASE ~FirstSubscriber(u)
  <2>1. refCounts[u] > 0
    BY <1>3 DEF FirstSubscriber
  <2> QED
    BY <1>1, <1>3, <2>1 DEF Subscribe, CountedIsSubscribed
<1> QED
  BY <1>2, <1>3

\* The last one out sends UNSUBSCRIBE, and the count is 0.
LEMMA UnsubscribeDecides ==
  ASSUME Typed, CountedIsSubscribed, TransportOpen, NEW u \in User, Unsubscribe(u)
  PROVE  \A v \in User : refCounts'[v] > 0 => WillBeSubscribed(v)'
<1> USE DEF WillBeSubscribed, Typed, TypeOK, TransportTypeOK
<1>1. ASSUME NEW v \in User, refCounts'[v] > 0 PROVE WillBeSubscribed(v)'
  <2>1. refCounts[v] > 0 /\ (v = u => refCounts[u] > 1)
    BY <1>1 DEF Unsubscribe, Dropped
  <2>2. wire'[v] = wire[v] /\ channel' = channel
    BY <2>1 DEF Unsubscribe
  <2> QED
    BY <2>1, <2>2 DEF CountedIsSubscribed
<1> QED
  BY <1>1

LEMMA NextDecides ==
  ASSUME SubscribeMayFail = FALSE, Typed, CountedIsSubscribed, [Next]_vars
  PROVE  CountedIsSubscribed'
<1> SUFFICES ASSUME TransportOpen'
             PROVE  \A u \in User : refCounts'[u] > 0 => WillBeSubscribed(u)'
  BY DEF CountedIsSubscribed
<1>1. ASSUME TransportOpen, UNCHANGED transportVars
      PROVE  \A u \in User : refCounts'[u] > 0 => WillBeSubscribed(u)'
  BY <1>1 DEF transportVars, CountedIsSubscribed, WillBeSubscribed
<1>2. ASSUME TransportOpen, refCounts' = refCounts, NEW u \in User,
             \/ \E c \in Conn : RawSubscribed(u, c)
             \/ RawUnsubscribed(u) \/ RawUnsubscribeRejected(u)
      PROVE  \A v \in User : refCounts'[v] > 0 => WillBeSubscribed(v)'
  <2>1. \A v \in User : WillBeSubscribed(v) => WillBeSubscribed(v)'
    <3>1. CASE \E c \in Conn : RawSubscribed(u, c)
      BY <3>1, AnswerKeepsDecision DEF RawSubscribed
    <3>2. CASE RawUnsubscribed(u) \/ RawUnsubscribeRejected(u)
      BY <3>2, AnswerKeepsDecision DEF RawUnsubscribed, RawUnsubscribeRejected
    <3> QED
      BY <1>2, <3>1, <3>2
  <2> QED
    BY <1>2, <2>1 DEF CountedIsSubscribed
<1>3. ASSUME NEW c \in Conn, ConnStep(c)
      PROVE  \A u \in User : refCounts'[u] > 0 => WillBeSubscribed(u)'
  <2>1. TransportOpen
    BY <1>3, ConnStepPhase DEF TransportOpen
  <2>2. CASE \/ UpgradeRequest(c) \/ RejectUpgrade(c) \/ Register(c)
             \/ RegisterFailed(c) \/ SocketClosedEarly(c)
             \/ TerminateDead(c) \/ PeerClosing(c)
             \/ \E u \in User : RejectOverCap(c, u) \/ AbortHandshake(c, u)
    BY <1>1, <2>1, <2>2 DEF UpgradeRequest, RejectUpgrade, Register,
       RegisterFailed, SocketClosedEarly, TerminateDead, PeerClosing,
       RejectOverCap, AbortHandshake
  <2>3. ASSUME NEW u \in User, AcceptUpgrade(c, u)
        PROVE  \A v \in User : refCounts'[v] > 0 => WillBeSubscribed(v)'
    BY <2>1, <2>3, SubscribeDecides DEF AcceptUpgrade
  <2>4. CASE SubscribeAnswered(c)
    <3>1. userOf[c] \in User
      BY <2>4 DEF SubscribeAnswered, Typed, OwnerKnown
    <3> QED
      BY <1>2, <2>1, <2>4, <3>1 DEF SubscribeAnswered, RawSubscribed
  <2>5. CASE SubscribeRejected(c)
    BY <2>1, <2>5 DEF SubscribeRejected
  <2>6. CASE RegisterTooLate(c) \/ SocketClosedLive(c)
    <3>1. userOf[c] \in User /\ Unsubscribe(userOf[c])
      BY <2>6 DEF RegisterTooLate, SocketClosedLive, Typed, OwnerKnown
    <3> QED
      BY <2>1, <3>1, UnsubscribeDecides
  <2> QED
    BY <1>3, <2>2, <2>3, <2>4, <2>5, <2>6 DEF ConnStep
<1>4. ASSUME NEW u \in User, UserStep(u)
      PROVE  \A v \in User : refCounts'[v] > 0 => WillBeSubscribed(v)'
  <2>1. TransportOpen
    BY <1>4, UserStepPhase DEF TransportOpen
  <2>2. CASE Disconnect(u)
    BY <1>1, <2>1, <2>2 DEF Disconnect
  <2>3. CASE UnsubscribeAnswered(u) \/ UnsubscribeRejected(u)
    BY <1>2, <2>1, <2>3 DEF UnsubscribeAnswered, UnsubscribeRejected,
       RawUnsubscribed, RawUnsubscribeRejected
  <2> QED
    BY <1>4, <2>2, <2>3 DEF UserStep
<1>5. CASE CloseStep
  BY <1>1, <1>5 DEF CloseStep, CloseGracefully, CloseAtOnce, WssClosed,
     TransportClosed, TransportOpen
<1>6. CASE UNCHANGED vars
  BY <1>1, <1>6 DEF vars, transportVars, TransportOpen
<1> QED
  BY <1>3, <1>4, <1>5, <1>6 DEF Next

LEMMA InitDecides == Init => CountedIsSubscribed
BY DEF Init, TransportInit, CountedIsSubscribed

\* If Redis rejects no SUBSCRIBE, a count above 0 means that the channel is
\* asked for: a later subscriber loses nothing by not asking again.
THEOREM CountedSubscribed ==
  ASSUME SubscribeMayFail = FALSE
  PROVE  Spec => []CountedIsSubscribed
<1> DEFINE I == Typed /\ CountedIsSubscribed
<1>1. Init => I
  BY InitTyped, InitDecides
<1>2. I /\ [Next]_vars => I'
  BY NextTyped, NextDecides
<1>3. I => CountedIsSubscribed
  OBVIOUS
<1> QED
  BY <1>1, <1>2, <1>3, PTL DEF Spec

LEMMA RegisteredDecides ==
  ASSUME TypeOK, RefCountsMatchHolders, RegistryIsLive, CountedIsSubscribed
  PROVE  RegisteredStaysSubscribed
<1> SUFFICES ASSUME TransportOpen, NEW u \in User, registry[u] # {}
             PROVE  WillBeSubscribed(u)
  BY DEF RegisteredStaysSubscribed
<1>1. Holders(u) # {}
  BY DEF RegistryIsLive, Holders
<1>2. refCounts[u] > 0
  BY <1>1, HoldersFinite, FS_EmptySet DEF RefCountsMatchHolders
<1> QED
  BY <1>2 DEF CountedIsSubscribed

\* NOT-5, "overlapping connections can never unsubscribe out from under one
\* another": if Redis rejects no SUBSCRIBE, the commands sent for a user with
\* a registered connection always end with its channel subscribed, whatever
\* UNSUBSCRIBE does.
THEOREM NeverUnsubscribedFromUnder ==
  ASSUME SubscribeMayFail = FALSE
  PROVE  Spec => []RegisteredStaysSubscribed
<1>1. TypeOK /\ RefCountsMatchHolders /\ RegistryIsLive /\ CountedIsSubscribed
        => RegisteredStaysSubscribed
  BY RegisteredDecides
<1> QED
  BY <1>1, TypeCorrect, RefCountsCorrect, RegistryCorrect, CountedSubscribed, PTL

-----------------------------------------------------------------------------
\* What close() leaves

\* Once the transport is closing nothing is counted; once it is closed,
\* nothing is subscribed or on the wire.
Forgotten ==
  /\ ~TransportOpen => \A u \in User : refCounts[u] = 0
  /\ phase = "closed" => channel = {} /\ \A u \in User : wire[u] = <<>>

LEMMA UnsubscribeForgotten ==
  ASSUME Typed, Forgotten, ~TransportOpen, NEW u \in User, Unsubscribe(u)
  PROVE  UNCHANGED transportVars
<1>1. refCounts[u] = 0
  BY DEF Forgotten
<1>2. wire' = wire /\ channel' = channel
  BY <1>1 DEF Unsubscribe
<1>3. refCounts' = refCounts
  BY <1>1 DEF Unsubscribe, Dropped, Typed, TypeOK, TransportTypeOK
<1> QED
  BY <1>2, <1>3 DEF transportVars

\* After transport.close(), an answer is all that can happen to the transport.
LEMMA LateStep ==
  ASSUME Typed, Forgotten, RegistryInv, ~TransportOpen,
         (\E c \in Conn : ConnStep(c)) \/ (\E u \in User : UserStep(u))
  PROVE  /\ \A u \in User : registry'[u] \subseteq registry[u]
         /\ \/ UNCHANGED transportVars
            \/ /\ \A u \in User : refCounts'[u] = 0
               /\ \E u \in User : wire[u] # <<>> /\ AnswerHead(u)
<1>1. Clients = {} /\ ~WssAccepting
  BY DEF RegistryInv, Drained, TransportOpen, WssAccepting, Typed, TypeOK, Phase
<1>2. ASSUME NEW c \in Conn, ConnStep(c) PROVE
        \/ UNCHANGED <<registry, transportVars>>
        \/ /\ registry' = registry /\ \A u \in User : refCounts'[u] = 0
           /\ \E u \in User : wire[u] # <<>> /\ AnswerHead(u)
  <2>1. ready[c] \notin {"OPEN", "CLOSING"}
    BY <1>1 DEF Clients
  <2>2. ~Register(c) /\ ~SocketClosedLive(c) /\ ~SocketClosedEarly(c)
        /\ \A u \in User : ~AcceptUpgrade(c, u)
    BY <1>1, <2>1 DEF Register, SocketClosedLive, SocketClosedEarly, AcceptUpgrade
  <2>3. CASE RegisterTooLate(c)
    BY <2>3, UnsubscribeForgotten DEF RegisterTooLate, Typed, OwnerKnown
  <2>4. CASE SubscribeAnswered(c) \/ SubscribeRejected(c)
    <3>1. userOf[c] \in User
      BY <2>4 DEF SubscribeAnswered, SubscribeRejected, Typed, OwnerKnown
    <3>2. \A u \in User : refCounts'[u] = 0
      BY <2>4 DEF SubscribeAnswered, SubscribeRejected, RawSubscribed,
         RawSubscribeRejected, Dropped, Forgotten, Typed, TypeOK, TransportTypeOK
    <3> QED
      BY <2>4, <3>1, <3>2 DEF SubscribeAnswered, SubscribeRejected,
         RawSubscribed, RawSubscribeRejected
  <2>5. CASE \/ UpgradeRequest(c) \/ RejectUpgrade(c) \/ RegisterFailed(c)
             \/ TerminateDead(c) \/ PeerClosing(c)
             \/ \E u \in User : RejectOverCap(c, u) \/ AbortHandshake(c, u)
    BY <2>5 DEF UpgradeRequest, RejectUpgrade, RegisterFailed, TerminateDead,
       PeerClosing, RejectOverCap, AbortHandshake
  <2> QED
    BY <1>2, <2>2, <2>3, <2>4, <2>5 DEF ConnStep
<1>3. ASSUME NEW u \in User, UserStep(u) PROVE
        \/ UNCHANGED <<registry, transportVars>>
        \/ /\ registry' = registry /\ \A v \in User : refCounts'[v] = 0
           /\ \E v \in User : wire[v] # <<>> /\ AnswerHead(v)
  BY <1>3 DEF UserStep, Disconnect, UnsubscribeAnswered, UnsubscribeRejected,
     RawUnsubscribed, RawUnsubscribeRejected, serverVars, Forgotten
<1> QED
  BY <1>2, <1>3

LEMMA NextForgotten ==
  ASSUME Typed, RegistryInv, Forgotten, [Next]_vars
  PROVE  Forgotten'
<1>1. CASE TransportOpen'
  BY <1>1 DEF TransportOpen, Forgotten
<1>2. CASE ~TransportOpen' /\ ((\E c \in Conn : ConnStep(c)) \/ (\E u \in User : UserStep(u)))
  <2>1. phase' = phase /\ ~TransportOpen
    BY <1>2, ConnStepPhase, UserStepPhase DEF TransportOpen
  <2>2. CASE UNCHANGED transportVars
    BY <2>1, <2>2 DEF transportVars, Forgotten, TransportOpen
  <2>3. CASE /\ \A u \in User : refCounts'[u] = 0
             /\ \E u \in User : wire[u] # <<>>
    BY <2>1, <2>3 DEF Forgotten
  <2> QED
    BY <1>2, <2>1, <2>2, <2>3, LateStep
<1>3. CASE WssClosed
  BY <1>3 DEF WssClosed, CloseTransport, Forgotten
<1>4. CASE TransportClosed
  BY <1>4 DEF TransportClosed, RawClosed, Forgotten, TransportOpen
<1>5. CASE CloseGracefully \/ CloseAtOnce
  BY <1>5 DEF CloseGracefully, CloseAtOnce, Forgotten, TransportOpen
<1>6. CASE UNCHANGED vars
  BY <1>6 DEF vars, Forgotten, TransportOpen
<1> QED
  BY <1>1, <1>2, <1>3, <1>4, <1>5, <1>6 DEF Next, CloseStep

CloseInv == Typed /\ RegistryInv /\ Forgotten

LEMMA CloseInvariant == Spec => []CloseInv
<1>1. Init => CloseInv
  BY InitTyped, InitRegistry
     DEF Init, TransportInit, CloseInv, Forgotten, TransportOpen
<1>2. CloseInv /\ [Next]_vars => CloseInv'
  BY NextTyped, NextRegistry, NextForgotten DEF CloseInv
<1> QED
  BY <1>1, <1>2, PTL DEF Spec

\* When close() has resolved, no socket, registered connection, reference,
\* subscription or unanswered command is left, whatever was in flight.
THEOREM CloseLeavesNothing == Spec => []ClosedLeavesNothing
<1>1. CloseInv => ClosedLeavesNothing
  <2> SUFFICES ASSUME CloseInv, phase = "closed", NEW u \in User
               PROVE  /\ Clients = {} /\ channel = {}
                      /\ registry[u] = {} /\ refCounts[u] = 0 /\ wire[u] = <<>>
    BY DEF ClosedLeavesNothing, CloseInv, RegistryInv, Drained, Forgotten
  <2>1. Clients = {}
    BY DEF CloseInv, RegistryInv, Drained
  <2>2. \A c \in Conn : stage[c] = "live" => ready[c] = "CLOSED"
    BY <2>1 DEF CloseInv, RegistryInv, SocketKnown, Clients, Typed, TypeOK, ReadyState
  <2>3. registry[u] = {}
    BY <2>2 DEF CloseInv, RegistryInv, RegistryIsLive
  <2> QED
    BY <2>1, <2>3 DEF CloseInv, Forgotten, TransportOpen
<1> QED
  BY <1>1, CloseInvariant, PTL

\* A continuation that runs after transport.close() sends Redis nothing and
\* registers nobody.
THEOREM NothingLate == Spec => NoLateTransportUse
<1> DEFINE Late == ~TransportOpen =>
                     \A u \in User : /\ Len(wire'[u]) <= Len(wire[u])
                                     /\ registry'[u] \subseteq registry[u]
<1>1. CloseInv /\ [Next]_vars => Late
  <2> SUFFICES ASSUME CloseInv, [Next]_vars, ~TransportOpen, NEW u \in User
               PROVE  /\ Len(wire'[u]) <= Len(wire[u])
                      /\ registry'[u] \subseteq registry[u]
    OBVIOUS
  <2>0. wire \in [User -> Seq(Command)]
    BY DEF CloseInv, Typed, TypeOK, TransportTypeOK
  <2>1. CASE (\E c \in Conn : ConnStep(c)) \/ (\E v \in User : UserStep(v))
    <3>1. registry'[u] \subseteq registry[u]
      BY <2>1, LateStep DEF CloseInv
    <3>2. CASE wire' = wire
      BY <2>0, <3>1, <3>2
    <3>3. ASSUME NEW v \in User, wire[v] # <<>>, AnswerHead(v)
          PROVE  Len(wire'[u]) <= Len(wire[u])
      <4>1. wire'[u] = IF u = v THEN Tail(wire[u]) ELSE wire[u]
        BY <2>0, <3>3 DEF AnswerHead
      <4>2. wire[u] \in Seq(Command)
        BY <2>0
      <4> QED
        BY <3>3, <4>1, <4>2
    <3> QED
      BY <2>1, <3>1, <3>2, <3>3, LateStep DEF CloseInv, transportVars
  <2>2. CASE TransportClosed
    <3>1. wire'[u] = <<>> /\ registry'[u] = {}
      BY <2>2 DEF TransportClosed, RawClosed
    <3> QED
      BY <2>0, <3>1
  <2>3. CASE UNCHANGED vars
    BY <2>0, <2>3 DEF vars
  <2>4. ~CloseGracefully /\ ~CloseAtOnce /\ ~WssClosed
    BY DEF CloseGracefully, CloseAtOnce, WssClosed, TransportOpen
  <2> QED
    BY <2>1, <2>2, <2>3, <2>4 DEF Next, CloseStep
<1> QED
  BY <1>1, CloseInvariant, PTL DEF Spec, NoLateTransportUse

-----------------------------------------------------------------------------
\* 'connect' and 'disconnect' events

LEMMA RegistryFinite ==
  ASSUME Typed, NEW u \in User
  PROVE  IsFiniteSet(registry[u]) /\ Cardinality(registry[u]) \in Nat
BY ServerAssumption, FS_Subset, FS_CardinalityType DEF Typed, TypeOK

\* Register() announces a connection that was not registered ...
LEMMA RegisterTally ==
  ASSUME Typed, RegistryInv, TallyMatchesRegistry, NEW c \in Conn, Register(c)
  PROVE  TallyMatchesRegistry'
<1> DEFINE o == userOf[c]
<1>1. /\ o \in User /\ stage[c] # "live"
      /\ registry' = [registry EXCEPT ![o] = @ \cup {c}]
      /\ tally' = [tally EXCEPT ![o] = @ + 1]
  BY DEF Register, Typed, OwnerKnown
<1>2. c \notin registry[o]
  BY <1>1 DEF RegistryInv, RegistryIsLive
<1>3. Cardinality(registry[o] \cup {c}) = Cardinality(registry[o]) + 1
  BY <1>1, <1>2, RegistryFinite, FS_AddElement
<1> QED
  BY <1>1, <1>3 DEF TallyMatchesRegistry, Typed, TypeOK

\* ... and the 'close' listener signs off one that was.
LEMMA CloseTally ==
  ASSUME Typed, RegistryInv, TallyMatchesRegistry, NEW c \in Conn, SocketClosedLive(c)
  PROVE  TallyMatchesRegistry'
<1> DEFINE o == userOf[c]
<1>1. /\ o \in User /\ stage[c] = "live" /\ ready[c] # "CLOSED"
      /\ registry' = [registry EXCEPT ![o] = @ \ {c}]
      /\ tally' = [tally EXCEPT ![o] = @ - 1]
  BY DEF SocketClosedLive, Typed, OwnerKnown
<1>2. c \in registry[o]
  BY <1>1 DEF RegistryInv, RegistryIsLive
<1>3. Cardinality(registry[o] \ {c}) = Cardinality(registry[o]) - 1
  BY <1>1, <1>2, RegistryFinite, FS_RemoveElement
<1> QED
  BY <1>1, <1>3 DEF TallyMatchesRegistry, Typed, TypeOK

\* An early 'close' and the final clear() change no registered set.
LEMMA EarlyRegistry ==
  ASSUME Typed, RegistryInv, NEW c \in Conn, SocketClosedEarly(c)
  PROVE  registry' = registry
<1>1. stage[c] # "live" /\ registry' = [registry EXCEPT ![userOf[c]] = @ \ {c}]
  BY DEF SocketClosedEarly
<1>2. \A u \in User : c \notin registry[u]
  BY <1>1 DEF RegistryInv, RegistryIsLive
<1> QED
  BY <1>1, <1>2 DEF Typed, TypeOK

LEMMA ClearRegistry ==
  ASSUME Typed, RegistryInv, TransportClosed
  PROVE  registry' = registry
<1>1. Clients = {}
  BY DEF TransportClosed, RegistryInv, Drained
<1>2. \A c \in Conn : stage[c] = "live" => ready[c] = "CLOSED"
  BY <1>1 DEF RegistryInv, SocketKnown, Clients, Typed, TypeOK, ReadyState
<1>3. \A u \in User : registry[u] = {}
  BY <1>2 DEF RegistryInv, RegistryIsLive
<1> QED
  BY <1>3 DEF TransportClosed, Typed, TypeOK

\* The events an application sees never lose count of the registry.
THEOREM EventsMatchRegistry == Spec => []TallyMatchesRegistry
<1> DEFINE I == Typed /\ RegistryInv /\ TallyMatchesRegistry
<1>1. Init => I
  BY InitTyped, InitRegistry, FS_EmptySet DEF Init, TallyMatchesRegistry
<1>2. I /\ [Next]_vars => I'
  <2> SUFFICES ASSUME I, [Next]_vars PROVE TallyMatchesRegistry'
    BY NextTyped, NextRegistry
  <2>1. ASSUME UNCHANGED <<registry, tally>> PROVE TallyMatchesRegistry'
    BY <2>1 DEF TallyMatchesRegistry
  <2>2. ASSUME NEW c \in Conn, ConnStep(c) PROVE TallyMatchesRegistry'
    <3>1. CASE Register(c) \/ SocketClosedLive(c)
      BY <3>1, RegisterTally, CloseTally
    <3>2. CASE SocketClosedEarly(c)
      BY <2>1, <3>2, EarlyRegistry DEF SocketClosedEarly
    <3>3. CASE ~Register(c) /\ ~SocketClosedLive(c) /\ ~SocketClosedEarly(c)
      BY <2>1, <2>2, <3>3 DEF ConnStep, UpgradeRequest, RejectUpgrade,
         RejectOverCap, AbortHandshake, AcceptUpgrade, SubscribeAnswered,
         SubscribeRejected, RegisterTooLate, RegisterFailed, TerminateDead,
         PeerClosing
    <3> QED
      BY <3>1, <3>2, <3>3
  <2>3. ASSUME NEW u \in User, UserStep(u) PROVE TallyMatchesRegistry'
    BY <2>1, <2>3 DEF UserStep, UnsubscribeAnswered, UnsubscribeRejected,
       Disconnect, serverVars
  <2>4. CASE CloseStep
    BY <2>1, <2>4, ClearRegistry DEF CloseStep, CloseGracefully, CloseAtOnce,
       WssClosed, TransportClosed
  <2>5. CASE UNCHANGED vars
    BY <2>1, <2>5 DEF vars
  <2> QED
    BY <2>2, <2>3, <2>4, <2>5 DEF Next
<1>3. I => TallyMatchesRegistry
  OBVIOUS
<1> QED
  BY <1>1, <1>2, <1>3, PTL DEF Spec
=============================================================================
