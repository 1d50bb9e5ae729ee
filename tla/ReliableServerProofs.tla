------------------------- MODULE ReliableServerProofs -------------------------
(***************************************************************************)
(* Theorems about a NetiflyServer whose Redis rejects no command while the *)
(* transport is open: it implements SharedSubscription, and presence is    *)
(* right whenever nothing of a user is in flight.                          *)
(***************************************************************************)
EXTENDS NetiflyServerProofs

\* A count of 0 means that the commands sent leave the channel unsubscribed:
\* with CountedIsSubscribed, the count decides.
UncountedIsUnsubscribed ==
  TransportOpen => \A u \in User : refCounts[u] = 0 => ~WillBeSubscribed(u)

ReliableInv ==
  Typed /\ RefCountsMatchHolders /\ CountedIsSubscribed /\ UncountedIsUnsubscribed

-----------------------------------------------------------------------------
\* The channel of an uncounted user

\* Answering a command does not bring an unsubscribed channel back.
LEMMA AnswerKeepsUnsubscribed ==
  ASSUME Typed, NEW u \in User, wire[u] # <<>>, AnswerHead(u),
         \/ \E c \in Conn : Head(wire[u]) = SubscribeBy(c) /\ channel' = channel \cup {u}
         \/ Head(wire[u]) = UnsubscribeCmd /\ channel' = channel \ {u}
  PROVE  \A v \in User : ~WillBeSubscribed(v) => ~WillBeSubscribed(v)'
<1> USE DEF WillBeSubscribed
<1>1. wire \in [User -> Seq(Command)] /\ wire' = [wire EXCEPT ![u] = Tail(@)]
  BY DEF Typed, TypeOK, TransportTypeOK, AnswerHead
<1>2. ASSUME NEW v \in User, v # u, ~WillBeSubscribed(v) PROVE ~WillBeSubscribed(v)'
  BY <1>1, <1>2
<1>3. ASSUME ~WillBeSubscribed(u) PROVE ~WillBeSubscribed(u)'
  <2>1. wire[u] \in Seq(Command) /\ wire'[u] = Tail(wire[u])
    BY <1>1
  <2>2. wire[u][Len(wire[u])] = UnsubscribeCmd
    BY <1>3
  <2>3. CASE Tail(wire[u]) = <<>>
    <3>1. Head(wire[u]) = UnsubscribeCmd
      BY <2>1, <2>2, <2>3, OnlyCommandLast
    <3>2. u \notin channel'
      BY <3>1, SubscribeNotUnsubscribe
    <3> QED
      BY <2>1, <2>3, <3>2
  <2>4. CASE Tail(wire[u]) # <<>>
    BY <2>1, <2>2, <2>4, SentLast
  <2> QED
    BY <2>3, <2>4
<1> QED
  BY <1>2, <1>3

\* The last one out sends UNSUBSCRIBE.
LEMMA LastUnsubscribes ==
  ASSUME Typed, UncountedIsUnsubscribed, TransportOpen,
         NEW u \in User, Unsubscribe(u)
  PROVE  \A v \in User : refCounts'[v] = 0 => ~WillBeSubscribed(v)'
<1> USE DEF WillBeSubscribed, Typed, TypeOK, TransportTypeOK
<1>1. ASSUME NEW v \in User, v # u, refCounts'[v] = 0 PROVE ~WillBeSubscribed(v)'
  <2>1. refCounts[v] = 0 /\ wire'[v] = wire[v] /\ channel' = channel
    BY <1>1 DEF Unsubscribe
  <2> QED
    BY <2>1 DEF UncountedIsUnsubscribed
<1>2. CASE refCounts[u] = 1
  <2>1. wire[u] \in Seq(Command) /\ wire'[u] = Append(wire[u], UnsubscribeCmd)
    BY <1>2 DEF Unsubscribe
  <2>2. wire'[u] # <<>> /\ wire'[u][Len(wire'[u])] = UnsubscribeCmd
    BY <2>1, AppendLast
  <2> QED
    BY <1>1, <2>2
<1>3. CASE refCounts[u] # 1 /\ refCounts'[u] = 0
  <2>1. refCounts[u] = 0 /\ wire' = wire /\ channel' = channel
    BY <1>3 DEF Unsubscribe, Dropped
  <2> QED
    BY <1>1, <2>1 DEF UncountedIsUnsubscribed
<1> QED
  BY <1>1, <1>2, <1>3

LEMMA NextUncounted ==
  ASSUME SubscribeMayFail = FALSE, UnsubscribeMayFail = FALSE,
         Typed, UncountedIsUnsubscribed, [Next]_vars
  PROVE  UncountedIsUnsubscribed'
<1> SUFFICES ASSUME TransportOpen'
             PROVE  \A u \in User : refCounts'[u] = 0 => ~WillBeSubscribed(u)'
  BY DEF UncountedIsUnsubscribed
<1>1. ASSUME TransportOpen, UNCHANGED transportVars
      PROVE  \A u \in User : refCounts'[u] = 0 => ~WillBeSubscribed(u)'
  BY <1>1 DEF transportVars, UncountedIsUnsubscribed, WillBeSubscribed
<1>2. ASSUME TransportOpen, NEW u \in User,
             RawUnsubscribed(u) \/ \E c \in Conn : RawSubscribed(u, c)
      PROVE  \A v \in User : refCounts'[v] = 0 => ~WillBeSubscribed(v)'
  <2>1. refCounts' = refCounts
    BY <1>2 DEF RawSubscribed, RawUnsubscribed
  <2>2. \A v \in User : ~WillBeSubscribed(v) => ~WillBeSubscribed(v)'
    BY <1>2, AnswerKeepsUnsubscribed DEF RawSubscribed, RawUnsubscribed
  <2> QED
    BY <1>2, <2>1, <2>2 DEF UncountedIsUnsubscribed
<1>3. ASSUME NEW c \in Conn, ConnStep(c)
      PROVE  \A u \in User : refCounts'[u] = 0 => ~WillBeSubscribed(u)'
  <2>1. TransportOpen
    BY <1>3, ConnStepPhase DEF TransportOpen
  <2>2. CASE \/ UpgradeRequest(c) \/ RejectUpgrade(c) \/ Register(c)
             \/ RegisterFailed(c) \/ SocketClosedEarly(c)
             \/ TerminateDead(c) \/ PeerClosing(c)
             \/ \E u \in User : RejectOverCap(c, u) \/ AbortHandshake(c, u)
    BY <1>1, <2>1, <2>2 DEF UpgradeRequest, RejectUpgrade, Register,
       RegisterFailed, SocketClosedEarly, TerminateDead, PeerClosing,
       RejectOverCap, AbortHandshake
  <2>3. ASSUME NEW u \in User, AcceptUpgrade(c, u)
        PROVE  \A v \in User : refCounts'[v] = 0 => ~WillBeSubscribed(v)'
    BY <2>1, <2>3 DEF AcceptUpgrade, Subscribe, UncountedIsUnsubscribed,
       WillBeSubscribed, Typed, TypeOK, TransportTypeOK
  <2>4. CASE SubscribeAnswered(c)
    BY <1>2, <2>1, <2>4 DEF SubscribeAnswered, Typed, OwnerKnown
  <2>5. ~SubscribeRejected(c)
    BY <2>1 DEF SubscribeRejected
  <2>6. CASE RegisterTooLate(c) \/ SocketClosedLive(c)
    BY <2>1, <2>6, LastUnsubscribes
       DEF RegisterTooLate, SocketClosedLive, Typed, OwnerKnown
  <2> QED
    BY <1>3, <2>2, <2>3, <2>4, <2>5, <2>6 DEF ConnStep
<1>4. ASSUME NEW u \in User, UserStep(u)
      PROVE  \A v \in User : refCounts'[v] = 0 => ~WillBeSubscribed(v)'
  <2>1. TransportOpen
    BY <1>4, UserStepPhase DEF TransportOpen
  <2>2. UnsubscribeAnswered(u) \/ Disconnect(u)
    BY <1>4, <2>1 DEF UserStep, UnsubscribeRejected
  <2> QED
    BY <1>1, <1>2, <2>1, <2>2 DEF UnsubscribeAnswered, Disconnect
<1>5. CASE CloseStep
  BY <1>1, <1>5 DEF CloseStep, CloseGracefully, CloseAtOnce, WssClosed,
     TransportClosed, TransportOpen
<1>6. CASE UNCHANGED vars
  BY <1>1, <1>6 DEF vars, transportVars, TransportOpen
<1> QED
  BY <1>3, <1>4, <1>5, <1>6 DEF Next

LEMMA InitUncounted == Init => UncountedIsUnsubscribed
BY DEF Init, TransportInit, UncountedIsUnsubscribed, WillBeSubscribed

LEMMA CountDecides ==
  ASSUME SubscribeMayFail = FALSE, UnsubscribeMayFail = FALSE
  PROVE  Spec => []ReliableInv
<1> DEFINE I == Typed /\ UncountedIsUnsubscribed
<1>1. Init => I
  BY InitTyped, InitUncounted
<1>2. I /\ [Next]_vars => I'
  BY NextTyped, NextUncounted
<1>3. Spec => []I
  BY <1>1, <1>2, PTL DEF Spec
<1>4. I /\ RefCountsMatchHolders /\ CountedIsSubscribed => ReliableInv
  BY DEF ReliableInv
<1> QED
  BY <1>3, <1>4, RefCountsCorrect, CountedSubscribed, PTL

-----------------------------------------------------------------------------
\* The refinement of SharedSubscription

\* The values SharedSubscription's variables take in the server.
HoldersOf == [u \in User |-> IF TransportOpen THEN Holders(u) ELSE {}]
OpenChannels == {u \in User : TransportOpen /\ WillBeSubscribed(u)}

\* The channels asked for are those somebody holds.
LEMMA OpenAreHeld ==
  ReliableInv => OpenChannels = {u \in User : HoldersOf[u] # {}}
<1> SUFFICES ASSUME ReliableInv, TransportOpen, NEW u \in User
             PROVE  WillBeSubscribed(u) <=> Holders(u) # {}
  BY DEF OpenChannels, HoldersOf
<1>1. refCounts[u] = Cardinality(Holders(u)) /\ refCounts[u] \in Nat
  BY DEF ReliableInv, RefCountsMatchHolders, Typed, TypeOK, TransportTypeOK
<1>2. refCounts[u] = 0 <=> Holders(u) = {}
  BY <1>1, HoldersFinite, FS_EmptySet
<1> QED
  BY <1>1, <1>2 DEF ReliableInv, CountedIsSubscribed, UncountedIsUnsubscribed

LEMMA OpenAreHeldNext ==
  ReliableInv' => (OpenChannels = {u \in User : HoldersOf[u] # {}})'
BY OpenAreHeld, PTL

\* What a connection's step does to the holders.
LEMMA HolderStep ==
  ASSUME Typed, NEW c \in Conn, ConnStep(c)
  PROVE  \/ \A u \in User : Holders(u)' = Holders(u)
         \/ \E o \in User :
              \/ /\ c \notin Holders(o)
                 /\ \A u \in User : Holders(u)' =
                      IF u = o THEN Holders(u) \cup {c} ELSE Holders(u)
              \/ /\ c \in Holders(o)
                 /\ \A u \in User : Holders(u)' =
                      IF u = o THEN Holders(u) \ {c} ELSE Holders(u)
<1> USE DEF SetStage
<1>1. CASE UpgradeRequest(c) \/ RejectUpgrade(c)
           \/ \E u \in User : RejectOverCap(c, u) \/ AbortHandshake(c, u)
  <2>1. PICK s \in {"resolving", "rejected"} : stage' = [stage EXCEPT ![c] = s]
    BY <1>1 DEF UpgradeRequest, RejectUpgrade, RejectOverCap, AbortHandshake
  <2>2. stage[c] \notin Holding /\ userOf' = userOf
    BY <1>1 DEF UpgradeRequest, RejectUpgrade, RejectOverCap, AbortHandshake, Holding
  <2>3. s \in Stage /\ s \notin Holding
    BY DEF Stage, Holding
  <2> QED
    BY <2>1, <2>2, <2>3, HoldersKept
<1>2. ASSUME NEW o \in User, AcceptUpgrade(c, o)
      PROVE  /\ c \notin Holders(o)
             /\ \A u \in User : Holders(u)' =
                  IF u = o THEN Holders(u) \cup {c} ELSE Holders(u)
  <2>1. PICK s \in {"subscribing", "returning"} : stage' = [stage EXCEPT ![c] = s]
    BY <1>2 DEF AcceptUpgrade
  <2>2. stage[c] = "resolving" /\ userOf' = [userOf EXCEPT ![c] = o]
    BY <1>2 DEF AcceptUpgrade
  <2> QED
    BY <2>1, <2>2 DEF Holders, Typed, TypeOK
<1>3. CASE SubscribeAnswered(c) \/ Register(c) \/ RegisterFailed(c)
  <2>1. PICK s \in Stage : /\ stage' = [stage EXCEPT ![c] = s]
                           /\ s \in Holding <=> stage[c] \in Holding
    BY <1>3 DEF SubscribeAnswered, Register, RegisterFailed, Stage, Holding
  <2>2. userOf' = userOf
    BY <1>3 DEF SubscribeAnswered, Register, RegisterFailed
  <2> QED
    BY <2>1, <2>2, HoldersKept
<1>4. CASE SubscribeRejected(c) \/ RegisterTooLate(c) \/ SocketClosedLive(c)
  <2>1. PICK s \in {"failing", "done"} : stage' = [stage EXCEPT ![c] = s]
    BY <1>4 DEF SubscribeRejected, RegisterTooLate, SocketClosedLive
  <2>2. stage[c] \in Holding /\ userOf' = userOf
    BY <1>4 DEF SubscribeRejected, RegisterTooLate, SocketClosedLive, Holding
  <2>3. s \in Stage \ Holding
    BY DEF Stage, Holding
  <2>4. userOf[c] \in User
    BY <2>2 DEF Typed, OwnerKnown, Holding
  <2> QED
    BY <2>1, <2>2, <2>3, <2>4, HoldersLess
<1>5. CASE SocketClosedEarly(c) \/ TerminateDead(c) \/ PeerClosing(c)
  BY <1>5 DEF SocketClosedEarly, TerminateDead, PeerClosing, Holders
<1> QED
  BY <1>1, <1>2, <1>3, <1>4, <1>5 DEF ConnStep

\* One holder more, or one holder less, opens or closes what Acquire and
\* Release say.
LEMMA AcquireMapped ==
  ASSUME NEW u \in User, NEW c \in Conn, TransportOpen, TransportOpen',
         ReliableInv, ReliableInv', c \notin Holders(u),
         \A v \in User : Holders(v)' = IF v = u THEN Holders(v) \cup {c} ELSE Holders(v)
  PROVE  /\ c \notin HoldersOf[u]
         /\ HoldersOf' = [HoldersOf EXCEPT ![u] = @ \cup {c}]
         /\ OpenChannels' = OpenChannels \cup {u}
<1>1. c \notin HoldersOf[u] /\ HoldersOf' = [HoldersOf EXCEPT ![u] = @ \cup {c}]
  BY DEF HoldersOf
<1>2. OpenChannels' = {v \in User : HoldersOf'[v] # {}}
  BY OpenAreHeldNext
<1>3. \A v \in User : HoldersOf'[v] # {} <=> HoldersOf[v] # {} \/ v = u
  BY <1>1 DEF HoldersOf
<1> QED
  BY <1>1, <1>2, <1>3, OpenAreHeld

LEMMA ReleaseMapped ==
  ASSUME NEW u \in User, NEW c \in Conn, TransportOpen, TransportOpen',
         ReliableInv, ReliableInv', c \in Holders(u),
         \A v \in User : Holders(v)' = IF v = u THEN Holders(v) \ {c} ELSE Holders(v)
  PROVE  /\ c \in HoldersOf[u]
         /\ HoldersOf' = [HoldersOf EXCEPT ![u] = @ \ {c}]
         /\ OpenChannels' = IF HoldersOf[u] = {c} THEN OpenChannels \ {u} ELSE OpenChannels
<1>1. c \in HoldersOf[u] /\ HoldersOf' = [HoldersOf EXCEPT ![u] = @ \ {c}]
  BY DEF HoldersOf
<1>2. OpenChannels' = {v \in User : HoldersOf'[v] # {}}
  BY OpenAreHeldNext
<1>3. \A v \in User : HoldersOf'[v] # {} <=>
        HoldersOf[v] # {} /\ ~(v = u /\ HoldersOf[u] = {c})
  BY <1>1 DEF HoldersOf
<1> QED
  BY <1>1, <1>2, <1>3, OpenAreHeld

\* Nothing happens to the abstract state while the holders stay ...
LEMMA StutterMapped ==
  ASSUME ReliableInv, ReliableInv', TransportOpen' = TransportOpen,
         \A u \in User : Holders(u)' = Holders(u)
  PROVE  UNCHANGED <<HoldersOf, OpenChannels>>
<1>1. HoldersOf' = HoldersOf
  BY DEF HoldersOf
<1>2. OpenChannels' = {v \in User : HoldersOf'[v] # {}}
  BY OpenAreHeldNext
<1> QED
  BY <1>1, <1>2, OpenAreHeld

\* ... nor once the transport is closed.
LEMMA ClosedMapped ==
  ASSUME ~TransportOpen'
  PROVE  HoldersOf' = [u \in User |-> {}] /\ OpenChannels' = {}
BY DEF HoldersOf, OpenChannels

LEMMA StepMapped ==
  ASSUME ReliableInv, ReliableInv', [Next]_vars
  PROVE  [Shared!Next]_<<HoldersOf, OpenChannels>>
<1>1. CASE ~TransportOpen'
  BY <1>1, ClosedMapped DEF HoldersOf, OpenChannels, Shared!Next, Shared!CloseAll
<1>2. ASSUME NEW c \in Conn, ConnStep(c), TransportOpen'
      PROVE  [Shared!Next]_<<HoldersOf, OpenChannels>>
  <2>1. TransportOpen
    BY <1>2, ConnStepPhase DEF TransportOpen
  <2>2. CASE \A u \in User : Holders(u)' = Holders(u)
    BY <1>2, <2>1, <2>2, StutterMapped
  <2>3. ASSUME NEW u \in User, c \notin Holders(u),
               \A v \in User : Holders(v)' =
                 IF v = u THEN Holders(v) \cup {c} ELSE Holders(v)
        PROVE  Shared!Acquire(u, c)
    BY <1>2, <2>1, <2>3, AcquireMapped DEF HoldersOf, OpenChannels, Shared!Acquire
  <2>4. ASSUME NEW u \in User, c \in Holders(u),
               \A v \in User : Holders(v)' =
                 IF v = u THEN Holders(v) \ {c} ELSE Holders(v)
        PROVE  Shared!Release(u, c)
    BY <1>2, <2>1, <2>4, ReleaseMapped DEF HoldersOf, OpenChannels, Shared!Release
  <2>5. CASE \E u \in User : Shared!Acquire(u, c) \/ Shared!Release(u, c)
    BY <2>5 DEF Shared!Next
  <2> QED
    BY <1>2, <2>2, <2>3, <2>4, <2>5, HolderStep DEF ReliableInv
<1>3. ASSUME TransportOpen', \/ \E u \in User : UserStep(u)
                             \/ CloseStep
                             \/ UNCHANGED vars
      PROVE  UNCHANGED <<HoldersOf, OpenChannels>>
  <2>1. TransportOpen /\ UNCHANGED <<stage, userOf>>
    BY <1>3 DEF UserStep, UnsubscribeAnswered, UnsubscribeRejected, Disconnect,
       serverVars, CloseStep, CloseGracefully, CloseAtOnce, WssClosed,
       TransportClosed, TransportOpen, vars
  <2>2. \A u \in User : Holders(u)' = Holders(u)
    BY <2>1 DEF Holders
  <2> QED
    BY <1>3, <2>1, <2>2, StutterMapped
<1> QED
  BY <1>1, <1>2, <1>3 DEF Next

LEMMA InitMapped == Init => Shared!Init
<1> SUFFICES ASSUME Init PROVE Shared!Init
  OBVIOUS
<1>1. TransportOpen /\ \A u \in User : Holders(u) = {} /\ ~WillBeSubscribed(u)
  BY DEF Init, TransportInit, TransportOpen, Holders, WillBeSubscribed
<1> QED
  BY <1>1 DEF Shared!Init

\* refCountedTransport.ts:3-12: if Redis rejects nothing while the transport
\* is open, the server's connections share each user's channel as
\* SharedSubscription says: the first one in opens it, the last one out closes
\* it, and close() closes them all.
THEOREM SharedSubscriptionImplemented ==
  ASSUME SubscribeMayFail = FALSE, UnsubscribeMayFail = FALSE
  PROVE  Spec => ImplementsSharedSubscription
<1>1. ReliableInv /\ ReliableInv' /\ [Next]_vars
        => [Shared!Next]_<<HoldersOf, OpenChannels>>
  BY StepMapped
<1>2. Spec => []ReliableInv
  BY CountDecides
<1> QED
  BY <1>1, <1>2, InitMapped, PTL
     DEF Spec, ImplementsSharedSubscription, Shared!Spec, HoldersOf, OpenChannels

-----------------------------------------------------------------------------
\* Presence at rest

Sent(q, c) == \E i \in 1..Len(q) : q[i] = SubscribeBy(c)

\* Who waits for SUBSCRIBE has one on the wire ...
WaitersAreSent ==
  \A c \in Conn : stage[c] = "subscribing" => Sent(wire[userOf[c]], c)

\* ... and the 'close' event of a live connection ends its life.
LiveHasSocket == \A c \in Conn : stage[c] = "live" => ready[c] # "CLOSED"

RestInv == WaitersAreSent /\ LiveHasSocket

\* An answered command leaves the others on the wire.
LEMMA SentTail ==
  ASSUME NEW q \in Seq(Command), q # <<>>, NEW c, Sent(q, c), Head(q) # SubscribeBy(c)
  PROVE  Sent(Tail(q), c)
<1>1. PICK i \in 1..Len(q) : q[i] = SubscribeBy(c)
  BY DEF Sent
<1>2. i # 1
  BY <1>1
<1>3. /\ Len(Tail(q)) = Len(q) - 1 /\ i - 1 \in 1..Len(Tail(q))
      /\ Tail(q)[i - 1] = q[i]
  BY <1>2
<1> QED
  BY <1>1, <1>3 DEF Sent

LEMMA SentAppend ==
  ASSUME NEW q \in Seq(Command), NEW e \in Command, NEW c, Sent(q, c) \/ e = SubscribeBy(c)
  PROVE  Sent(Append(q, e), c)
<1>1. Len(Append(q, e)) = Len(q) + 1 /\ Len(q) \in Nat
  OBVIOUS
<1>2. CASE e = SubscribeBy(c)
  <2>1. Append(q, e)[Len(q) + 1] = e /\ Len(q) + 1 \in 1..Len(Append(q, e))
    BY <1>1
  <2> QED
    BY <1>2, <2>1 DEF Sent
<1>3. CASE Sent(q, c)
  <2>1. PICK i \in 1..Len(q) : q[i] = SubscribeBy(c)
    BY <1>3 DEF Sent
  <2>2. Append(q, e)[i] = q[i] /\ i \in 1..Len(Append(q, e))
    BY <1>1
  <2> QED
    BY <2>1, <2>2 DEF Sent
<1> QED
  BY <1>2, <1>3

LEMMA SubscribeByInjective ==
  \A c, d : SubscribeBy(c) = SubscribeBy(d) => c = d
BY DEF SubscribeBy

\* Steps after which whoever still waits is still sent.
LEMMA WaitersKept ==
  ASSUME Typed, WaitersAreSent, userOf' = userOf,
         \A d \in Conn : stage'[d] = "subscribing" => stage[d] = "subscribing",
         \/ wire' = wire
         \/ \E u \in User : wire' = [wire EXCEPT ![u] = Append(@, UnsubscribeCmd)]
         \/ \E u \in User :
              /\ wire[u] # <<>> /\ AnswerHead(u)
              /\ \A d \in Conn : stage'[d] = "subscribing" => Head(wire[u]) # SubscribeBy(d)
  PROVE  WaitersAreSent'
<1> SUFFICES ASSUME NEW d \in Conn, stage'[d] = "subscribing"
             PROVE  Sent(wire'[userOf[d]], d)
  BY DEF WaitersAreSent
<1> DEFINE o == userOf[d]
<1>1. o \in User /\ wire \in [User -> Seq(Command)] /\ Sent(wire[o], d)
  BY DEF Typed, TypeOK, OwnerKnown, TransportTypeOK, WaitersAreSent
<1>2. ASSUME NEW u \in User, wire' = [wire EXCEPT ![u] = Append(@, UnsubscribeCmd)]
      PROVE  Sent(wire'[o], d)
  <2>1. UnsubscribeCmd \in Command
    BY DEF Command
  <2>2. Sent(Append(wire[o], UnsubscribeCmd), d)
    BY <1>1, <2>1, SentAppend
  <2> QED
    BY <1>1, <1>2, <2>2
<1>3. ASSUME NEW u \in User, wire[u] # <<>>, AnswerHead(u), Head(wire[u]) # SubscribeBy(d)
      PROVE  Sent(wire'[o], d)
  <2>1. wire' = [wire EXCEPT ![u] = Tail(@)]
    BY <1>3 DEF AnswerHead
  <2>2. u = o => Sent(Tail(wire[u]), d)
    BY <1>1, <1>3, SentTail
  <2> QED
    BY <1>1, <2>1, <2>2
<1> QED
  BY <1>1, <1>2, <1>3

LEMMA AcceptWaits ==
  ASSUME Typed, WaitersAreSent, NEW c \in Conn, NEW u \in User, AcceptUpgrade(c, u)
  PROVE  WaitersAreSent'
<1> USE DEF Typed, TypeOK, TransportTypeOK
<1> SUFFICES ASSUME NEW d \in Conn, stage'[d] = "subscribing"
             PROVE  Sent(wire'[userOf'[d]], d)
  BY DEF WaitersAreSent
<1>1. /\ stage' = [stage EXCEPT ![c] = IF FirstSubscriber(u) THEN "subscribing" ELSE "returning"]
      /\ userOf' = [userOf EXCEPT ![c] = u]
      /\ wire' = IF FirstSubscriber(u)
                 THEN [wire EXCEPT ![u] = Append(@, SubscribeBy(c))] ELSE wire
  BY DEF AcceptUpgrade, SetStage, Subscribe
<1>2. SubscribeBy(c) \in Command
  BY DEF SubscribeBy, Command
<1>3. CASE d = c
  <2>1. userOf'[d] = u /\ wire'[u] = Append(wire[u], SubscribeBy(c))
    BY <1>1, <1>3
  <2>2. Sent(Append(wire[u], SubscribeBy(c)), c)
    BY <1>2, SentAppend
  <2> QED
    BY <1>3, <2>1, <2>2
<1>4. CASE d # c
  <2>1. stage[d] = "subscribing" /\ userOf'[d] = userOf[d]
    BY <1>1, <1>4
  <2>2. userOf[d] \in User /\ Sent(wire[userOf[d]], d)
    BY <2>1 DEF WaitersAreSent, OwnerKnown
  <2>3. Sent(Append(wire[userOf[d]], SubscribeBy(c)), d)
    BY <1>2, <2>2, SentAppend
  <2> QED
    BY <1>1, <2>1, <2>2, <2>3
<1> QED
  BY <1>3, <1>4

LEMMA NextWaiters ==
  ASSUME Typed, WaitersAreSent, [Next]_vars
  PROVE  WaitersAreSent'
<1> USE DEF SetStage
<1>1. ASSUME NEW c \in Conn, ConnStep(c) PROVE WaitersAreSent'
  <2>1. ASSUME NEW u \in User, AcceptUpgrade(c, u) PROVE WaitersAreSent'
    BY <2>1, AcceptWaits
  <2>2. CASE \/ UpgradeRequest(c) \/ RejectUpgrade(c) \/ Register(c) \/ RegisterFailed(c)
             \/ SocketClosedEarly(c) \/ TerminateDead(c) \/ PeerClosing(c)
             \/ \E u \in User : RejectOverCap(c, u) \/ AbortHandshake(c, u)
    <3>1. /\ userOf' = userOf /\ wire' = wire
          /\ \/ stage' = stage
             \/ \E s \in {"resolving", "rejected", "live", "done"} :
                  stage' = [stage EXCEPT ![c] = s]
      BY <2>2 DEF UpgradeRequest, RejectUpgrade, Register, RegisterFailed,
         SocketClosedEarly, TerminateDead, PeerClosing, RejectOverCap,
         AbortHandshake, transportVars
    <3>2. \A d \in Conn : stage'[d] = "subscribing" => stage[d] = "subscribing"
      BY <3>1 DEF Typed, TypeOK
    <3> QED
      BY <3>1, <3>2, WaitersKept
  <2>3. CASE SubscribeAnswered(c) \/ SubscribeRejected(c)
    <3>1. PICK s \in {"returning", "failing"} : stage' = [stage EXCEPT ![c] = s]
      BY <2>3 DEF SubscribeAnswered, SubscribeRejected
    <3>2. /\ userOf' = userOf /\ wire[userOf[c]] # <<>> /\ AnswerHead(userOf[c])
          /\ Head(wire[userOf[c]]) = SubscribeBy(c)
          /\ stage[c] = "subscribing"
      BY <2>3 DEF SubscribeAnswered, SubscribeRejected, RawSubscribed, RawSubscribeRejected
    <3>3. \A d \in Conn : stage'[d] = "subscribing" => stage[d] = "subscribing" /\ d # c
      BY <3>1 DEF Typed, TypeOK
    <3>4. userOf[c] \in User
      BY <3>2 DEF Typed, OwnerKnown
    <3>5. \A d \in Conn : stage'[d] = "subscribing" => Head(wire[userOf[c]]) # SubscribeBy(d)
      BY <3>2, <3>3, SubscribeByInjective
    <3> QED
      BY <3>2, <3>3, <3>4, <3>5, WaitersKept
  <2>4. CASE RegisterTooLate(c) \/ SocketClosedLive(c)
    <3>1. /\ userOf' = userOf /\ stage' = [stage EXCEPT ![c] = "done"]
          /\ Unsubscribe(userOf[c]) /\ stage[c] \in {"returning", "live"}
      BY <2>4 DEF RegisterTooLate, SocketClosedLive
    <3>2. \A d \in Conn : stage'[d] = "subscribing" => stage[d] = "subscribing"
      BY <3>1 DEF Typed, TypeOK
    <3>3. userOf[c] \in User
      BY <3>1 DEF Typed, OwnerKnown
    <3>4. \/ wire' = wire
          \/ \E u \in User : wire' = [wire EXCEPT ![u] = Append(@, UnsubscribeCmd)]
      BY <3>1, <3>3 DEF Unsubscribe
    <3> QED
      BY <3>1, <3>2, <3>4, WaitersKept
  <2> QED
    BY <1>1, <2>1, <2>2, <2>3, <2>4 DEF ConnStep
<1>2. ASSUME NEW u \in User, UserStep(u) PROVE WaitersAreSent'
  <2>1. stage' = stage /\ userOf' = userOf
    BY <1>2 DEF UserStep, UnsubscribeAnswered, UnsubscribeRejected, Disconnect, serverVars
  <2>2. CASE UnsubscribeAnswered(u) \/ UnsubscribeRejected(u)
    <3>1. wire[u] # <<>> /\ AnswerHead(u) /\ Head(wire[u]) = UnsubscribeCmd
      BY <2>2 DEF UnsubscribeAnswered, UnsubscribeRejected, RawUnsubscribed,
         RawUnsubscribeRejected
    <3> QED
      BY <2>1, <3>1, SubscribeNotUnsubscribe, WaitersKept
  <2>3. CASE Disconnect(u)
    BY <2>1, <2>3, WaitersKept DEF Disconnect, transportVars
  <2> QED
    BY <1>2, <2>2, <2>3 DEF UserStep
<1>3. CASE CloseGracefully \/ CloseAtOnce \/ WssClosed \/ UNCHANGED vars
  BY <1>3, WaitersKept DEF CloseGracefully, CloseAtOnce, WssClosed,
     CloseTransport, transportVars, vars
<1>4. CASE TransportClosed
  <2>1. \A d \in Conn : stage'[d] # "subscribing"
    BY <1>4 DEF TransportClosed
  <2> QED
    BY <2>1 DEF WaitersAreSent
<1> QED
  BY <1>1, <1>2, <1>3, <1>4 DEF Next, CloseStep

LEMMA NextLive ==
  ASSUME Typed, LiveHasSocket, [Next]_vars
  PROVE  LiveHasSocket'
<1> USE DEF Typed, TypeOK, LiveHasSocket, SetStage
<1>1. ASSUME UNCHANGED stage, NEW S, CloseSockets(S) PROVE LiveHasSocket'
  BY <1>1 DEF CloseSockets, Closing
<1>2. ASSUME NEW c \in Conn, ConnStep(c) PROVE LiveHasSocket'
  <2>1. CASE TerminateDead(c) \/ PeerClosing(c)
    BY <1>1, <2>1 DEF TerminateDead, PeerClosing
  <2>2. CASE Register(c)
    BY <2>2 DEF Register
  <2>3. CASE SocketClosedLive(c) \/ SocketClosedEarly(c)
    BY <2>3 DEF SocketClosedLive, SocketClosedEarly
  <2>4. CASE RegisterFailed(c)
    BY <2>4 DEF RegisterFailed, Closing
  <2>5. ASSUME NEW u \in User, AcceptUpgrade(c, u) PROVE LiveHasSocket'
    BY <2>5 DEF AcceptUpgrade
  <2>6. CASE \/ UpgradeRequest(c) \/ RejectUpgrade(c) \/ SubscribeAnswered(c)
             \/ SubscribeRejected(c) \/ RegisterTooLate(c)
             \/ \E u \in User : RejectOverCap(c, u) \/ AbortHandshake(c, u)
    <3>1. PICK s \in {"resolving", "rejected", "returning", "failing", "done"} :
            stage' = [stage EXCEPT ![c] = s] /\ ready' = ready
      BY <2>6 DEF UpgradeRequest, RejectUpgrade, SubscribeAnswered,
         SubscribeRejected, RegisterTooLate, RejectOverCap, AbortHandshake
    <3> QED
      BY <3>1
  <2> QED
    BY <1>2, <2>1, <2>2, <2>3, <2>4, <2>5, <2>6 DEF ConnStep
<1>3. ASSUME NEW u \in User, UserStep(u) PROVE LiveHasSocket'
  BY <1>1, <1>3 DEF UserStep, UnsubscribeAnswered, UnsubscribeRejected,
     Disconnect, serverVars
<1>4. CASE CloseGracefully \/ CloseAtOnce
  BY <1>1, <1>4 DEF CloseGracefully, CloseAtOnce
<1>5. CASE WssClosed \/ TransportClosed \/ UNCHANGED vars
  BY <1>5 DEF WssClosed, TransportClosed, vars
<1> QED
  BY <1>2, <1>3, <1>4, <1>5 DEF Next, CloseStep

LEMMA RestInvariant == Spec => [](Typed /\ RestInv)
<1> DEFINE I == Typed /\ RestInv
<1>1. Init => I
  <2> SUFFICES ASSUME Init PROVE RestInv
    BY InitTyped
  <2> QED
    BY DEF Init, RestInv, WaitersAreSent, LiveHasSocket
<1>2. I /\ [Next]_vars => I'
  BY NextTyped, NextWaiters, NextLive DEF RestInv
<1> QED
  BY <1>1, <1>2, PTL DEF Spec

\* isOnline() and isConnectedHere() agree about every user of whom nothing is
\* in flight (netiflyServer.ts:575-591), if Redis rejects nothing while the
\* transport is open: what was subscribed early or unsubscribed late has been
\* made good.
THEOREM PresenceSettles ==
  ASSUME SubscribeMayFail = FALSE, UnsubscribeMayFail = FALSE
  PROVE  Spec => []PresenceAtRest
<1>1. ReliableInv /\ RestInv /\ RegistryIsLive => PresenceAtRest
  <2> SUFFICES ASSUME ReliableInv, RestInv, RegistryIsLive, TransportOpen,
                      NEW u \in User, ~Unsettled(u)
               PROVE  u \in channel <=> registry[u] # {}
    BY DEF PresenceAtRest
  <2>1. wire[u] = <<>> /\ \A c \in Conn : userOf[c] = u => stage[c] # "returning"
    BY DEF Unsettled
  <2>2. \A c \in Conn : userOf[c] = u => stage[c] # "subscribing"
    <3>1. ~ \E i \in 1..Len(wire[u]) : TRUE
      BY <2>1
    <3> QED
      BY <3>1 DEF RestInv, WaitersAreSent, Sent
  <2>3. Holders(u) = registry[u]
    BY <2>1, <2>2 DEF Holders, RestInv, LiveHasSocket, RegistryIsLive
  <2>4. u \in channel <=> Holders(u) # {}
    BY <2>1, OpenAreHeld DEF OpenChannels, HoldersOf, WillBeSubscribed
  <2> QED
    BY <2>3, <2>4
<1>2. Spec => []ReliableInv
  BY CountDecides
<1>3. Typed /\ RestInv => RestInv
  OBVIOUS
<1> QED
  BY <1>1, <1>2, <1>3, RestInvariant, RegistryCorrect, PTL
=============================================================================
