----------------------- MODULE NotificationStoreProofs -----------------------
(***************************************************************************)
(* Theorems about NotificationStore, for any notifications, actions and    *)
(* expiries and any number of calls, connections and ticks.                *)
(***************************************************************************)
EXTENDS NotificationStore, TLAPS

\* A call of respond() that was made.
Asked == [id : Id, action : Action, conn : 1..MaxConns]

\* A client that is not closed has made a connection.
ConnKnown == state # "closed" => conn >= 1

\* Calls are numbered in the order they are made.
CallsInOrder ==
  \A k \in Call :
    /\ promise[k] = "none" => call[k] = NothingAsked /\ frame[k] = "none"
    /\ promise[k] # "none" =>
         call[k] \in Asked /\ \A j \in Call : j < k => promise[j] # "none"

\* What an ack of this notification and action will resolve is a promise that
\* waits for just that.
PendingWaits ==
  \A i \in Id, a \in Action :
    LET k == pendingResponses[<<i, a>>] IN
    k # NoCall => promise[k] = "waiting" /\ call[k].id = i /\ call[k].action = a

-----------------------------------------------------------------------------
\* Type correctness, in two parts

Status == Open \cup Closed

StoreTyped ==
  /\ disposed \in BOOLEAN
  /\ items \in [Id -> Seq(Status)]
  /\ timers \in [Id -> Seq(Nat)]
  /\ expiryTimers \in [Id -> Nat]
  /\ \A i \in Id : expiryTimers[i] \in {NoEntry} \cup DOMAIN timers[i]
  /\ pendingResponses \in [Id \X Action -> Call \cup {NoCall}]
  /\ promise \in [Call -> {"none", "waiting"} \cup Result]
  /\ acked \subseteq Id /\ shown \subseteq Id

WorldTyped ==
  /\ now \in Nat
  /\ mounted \in BOOLEAN
  /\ state \in {"closed", "connecting", "open"}
  /\ conn \in 0..MaxConns
  /\ down \in Seq(Message)
  /\ call \in [Call -> Asked \cup {NothingAsked}]
  /\ frame \in [Call -> {"none", "sent", "claiming", "done", "lost"}]
  /\ published \subseteq Id /\ resolving \subseteq Id
  /\ resends \in 0..MaxResends /\ resent \subseteq Id
  /\ answered \subseteq Id /\ orphaned \subseteq Id
  /\ accepted \subseteq Id \X Action

LEMMA TypeParts == TypeOK <=> StoreTyped /\ WorldTyped
BY DEF TypeOK, StoreTyped, WorldTyped, Asked, Status

LEMMA TypePartsNext == TypeOK' <=> StoreTyped' /\ WorldTyped'
BY TypeParts, PTL

Typed == StoreTyped /\ WorldTyped /\ ConnKnown /\ CallsInOrder /\ PendingWaits

\* What no message, timer or call of the application does.
OutsideStep == UNCHANGED <<storeVars, call, acked>>

LEMMA NothingAskedElse == NothingAsked \notin Asked
BY DEF NothingAsked, Asked

LEMMA BoundsAreNat ==
  /\ MaxCalls \in Nat /\ MaxConns \in Nat /\ MaxTime \in Nat /\ MaxResends \in Nat
  /\ TimeoutMax \in Nat /\ TimeoutMax >= 1
  /\ Expiry \in [Id -> Nat]
BY StoreAssumption

\* A call whose frame is on its way was made.
LEMMA FrameAsked ==
  ASSUME Typed, NEW k \in Call, frame[k] # "none"
  PROVE  /\ call[k] \in Asked /\ promise[k] # "none"
         /\ call[k].id \in Id /\ call[k].action \in Action
BY DEF Typed, CallsInOrder, Asked

\* The message at the head of the connection is one of three.
LEMMA Handled ==
  ASSUME Typed, HandleMessage
  PROVE  LET m == Head(down) IN
         /\ down # <<>> /\ down' = Tail(down) /\ m \in Message /\ state = "open"
         /\ \/ m.type = "notification" /\ m.id \in Id /\ OnNotification(m.id)
            \/ m.type = "resolved" /\ m.id \in Id /\ OnResolved(m.id)
            \/ /\ m.type = "actionAck" /\ m.id \in Id /\ m.action \in Action
               /\ m.status \in Result /\ OnActionAck(m)
         /\ UNCHANGED <<now, disposed, mounted, state, conn, serverVars, call>>
<1> DEFINE m == Head(down)
<1>1. m \in Message
  BY DEF HandleMessage, Typed, WorldTyped
<1>2. \/ m.type \in {"notification", "resolved"} /\ m.id \in Id
      \/ m.type = "actionAck" /\ m.id \in Id /\ m.action \in Action /\ m.status \in Result
  BY <1>1 DEF Message
<1> QED
  BY <1>1, <1>2 DEF HandleMessage

LEMMA TailTyped ==
  ASSUME down \in Seq(Message), down # <<>>
  PROVE  Tail(down) \in Seq(Message)
OBVIOUS

LEMMA InitTyped == Init => Typed
<1> SUFFICES ASSUME Init PROVE Typed
  OBVIOUS
<1> USE BoundsAreNat DEF Init, NoTimer, NoEntry, NoCall
<1>1. StoreTyped
  <2>1. <<>> \in Seq(Status) /\ <<>> \in Seq(Nat)
    OBVIOUS
  <2> QED
    BY <2>1 DEF StoreTyped
<1>2. WorldTyped
  <2>1. <<>> \in Seq(Message)
    OBVIOUS
  <2>2. 0 \in 0..MaxConns /\ 0 \in 0..MaxResends
    BY BoundsAreNat
  <2> QED
    BY <2>1, <2>2 DEF WorldTyped
<1> QED
  BY <1>1, <1>2 DEF Typed, ConnKnown, CallsInOrder, PendingWaits

-----------------------------------------------------------------------------
\* The copies of a notification and their timers, as sequences

LEMMA FunctionIsSeq ==
  ASSUME NEW S, NEW m \in Nat, NEW f \in [1..m -> S]
  PROVE  f \in Seq(S) /\ Len(f) = m
OBVIOUS

LEMMA AllAsIs ==
  ASSUME NEW c \in Seq(Status), NEW s \in Status
  PROVE  /\ AllAs(c, s) \in Seq(Status)
         /\ Len(AllAs(c, s)) = Len(c)
         /\ \A n \in 1..Len(c) : AllAs(c, s)[n] = s
<1>1. AllAs(c, s) \in [1..Len(c) -> Status] /\ Len(c) \in Nat
  BY DEF AllAs
<1> QED
  BY <1>1, FunctionIsSeq DEF AllAs

LEMMA ReadOfIs ==
  ASSUME items \in [Id -> Seq(Status)], NEW S \in SUBSET Id, NEW i \in Id
  PROVE  /\ ReadOf(S)[i] \in Seq(Status)
         /\ Len(ReadOf(S)[i]) = Len(items[i])
         /\ \A n \in 1..Len(items[i]) :
              ReadOf(S)[i][n] = IF i \in S /\ items[i][n] = "unread" THEN "read" ELSE items[i][n]
<1>1. Len(items[i]) \in Nat /\ \A n \in 1..Len(items[i]) : items[i][n] \in Status
  OBVIOUS
<1>2. ReadOf(S)[i] \in [1..Len(items[i]) -> Status]
  BY <1>1 DEF ReadOf, Status, Open
<1> QED
  BY <1>1, <1>2, FunctionIsSeq DEF ReadOf

LEMMA ClearedIs ==
  ASSUME timers \in [Id -> Seq(Nat)], NEW S \in SUBSET Id, NEW i \in Id
  PROVE  /\ Cleared(S)[i] \in Seq(Nat)
         /\ Len(Cleared(S)[i]) = Len(timers[i])
         /\ \A n \in 1..Len(timers[i]) : Cleared(S)[i][n] \in {timers[i][n], NoTimer}
<1>1. Len(timers[i]) \in Nat /\ \A n \in 1..Len(timers[i]) : timers[i][n] \in Nat
  OBVIOUS
<1>2. Cleared(S)[i] \in [1..Len(timers[i]) -> Nat]
  BY <1>1 DEF Cleared, NoTimer
<1> QED
  BY <1>1, <1>2, FunctionIsSeq DEF Cleared

LEMMA AppendIs ==
  ASSUME NEW S, NEW c \in Seq(S), NEW s \in S
  PROVE  /\ Append(c, s) \in Seq(S) /\ Len(c) \in Nat
         /\ Len(Append(c, s)) = Len(c) + 1
         /\ Append(c, s)[Len(c) + 1] = s
         /\ \A n \in 1..Len(c) : Append(c, s)[n] = c[n]
OBVIOUS

-----------------------------------------------------------------------------
\* The store's steps keep its types

LEMMA DueTyped ==
  ASSUME now \in Nat, NEW i \in Id
  PROVE  Due(i) \in Nat
BY BoundsAreNat DEF Due

LEMMA MarkTyped ==
  ASSUME items \in [Id -> Seq(Status)], NEW i \in Id, NEW s \in Status, MarkStatus(i, s)
  PROVE  items' \in [Id -> Seq(Status)]
<1>1. AllAs(items[i], s) \in Seq(Status)
  BY AllAsIs
<1> QED
  BY <1>1 DEF MarkStatus

LEMMA StatusNames == {"unread", "read", "answered", "expired"} = Status
BY DEF Status, Open, Closed

LEMMA NewItemTyped ==
  ASSUME Typed, NEW i \in Id, NewItem(i), UNCHANGED <<disposed, pendingResponses, promise>>,
         acked' \subseteq Id
  PROVE  StoreTyped'
<1> USE DEF Typed, StoreTyped
<1> DEFINE due == IF Expiry[i] = NoExpiry \/ Overdue(i) THEN NoTimer ELSE Due(i)
<1>1. due \in Nat
  BY DueTyped DEF WorldTyped, NoTimer
<1>2. items' \in [Id -> Seq(Status)]
  <2>1. Append(items[i], "unread") \in Seq(Status)
    BY StatusNames, AppendIs
  <2>2. AllAs(Append(items[i], "unread"), "expired") \in Seq(Status)
    BY <2>1, StatusNames, AllAsIs
  <2> QED
    BY <2>1, <2>2 DEF NewItem
<1>3. /\ timers' = [timers EXCEPT ![i] = Append(timers[i], due)]
      /\ Append(timers[i], due) \in Seq(Nat)
      /\ Len(timers[i]) \in Nat /\ Len(Append(timers[i], due)) = Len(timers[i]) + 1
  BY <1>1, AppendIs DEF NewItem
<1>4. DOMAIN Append(timers[i], due) = 1..(Len(timers[i]) + 1)
  BY <1>3
<1>5. expiryTimers'[i] \in {NoEntry, Len(timers[i]) + 1}
  BY DEF NewItem
<1>6. /\ expiryTimers' \in [Id -> Nat]
      /\ \A j \in Id : expiryTimers'[j] \in {NoEntry} \cup DOMAIN timers'[j]
  <2>1. \A j \in Id : j # i => expiryTimers'[j] = expiryTimers[j] /\ timers'[j] = timers[j]
    BY <1>3 DEF NewItem
  <2>2. timers'[i] = Append(timers[i], due)
    BY <1>3
  <2>3. Len(timers[i]) + 1 \in 1..(Len(timers[i]) + 1)
    BY <1>3
  <2>4. expiryTimers'[i] \in {NoEntry} \cup DOMAIN timers'[i]
    BY <1>4, <1>5, <2>2, <2>3
  <2>5. NoEntry \in Nat /\ Len(timers[i]) + 1 \in Nat
    BY <1>3 DEF NoEntry
  <2>6. expiryTimers' \in [Id -> Nat]
    BY <1>5, <2>5 DEF NewItem
  <2> QED
    BY <2>1, <2>4, <2>6
<1>7. shown' \subseteq Id
  BY DEF NewItem
<1>8. timers' \in [Id -> Seq(Nat)]
  BY <1>3
<1> QED
  BY <1>2, <1>6, <1>7, <1>8

LEMMA HandleTyped ==
  ASSUME Typed, HandleMessage
  PROVE  StoreTyped'
<1> DEFINE m == Head(down)
<1>1. UNCHANGED disposed
  BY Handled
<1>2. CASE m.id \in Id /\ OnNotification(m.id)
  <2>1. acked' \subseteq Id
    BY <1>2 DEF OnNotification, Typed, StoreTyped
  <2>2. CASE disposed
    BY <1>1, <1>2, <2>1, <2>2 DEF OnNotification, Typed, StoreTyped
  <2>3. CASE ~disposed
    BY <1>1, <1>2, <2>1, <2>3, NewItemTyped DEF OnNotification
  <2> QED
    BY <2>2, <2>3
<1>3. CASE m.id \in Id /\ OnResolved(m.id)
  <2>1. items' \in [Id -> Seq(Status)]
    BY <1>3, MarkTyped, StatusNames DEF OnResolved, Typed, StoreTyped
  <2> QED
    BY <1>1, <1>3, <2>1 DEF OnResolved, Typed, StoreTyped
<1>4. CASE m.id \in Id /\ m.action \in Action /\ m.status \in Result /\ OnActionAck(m)
  <2>1. items' \in [Id -> Seq(Status)]
    BY <1>4, MarkTyped, StatusNames DEF OnActionAck, Acked, Typed, StoreTyped
  <2>2. promise' \in [Call -> {"none", "waiting"} \cup Result]
    BY <1>4 DEF OnActionAck, Resolved, Typed, StoreTyped
  <2>3. pendingResponses' \in [Id \X Action -> Call \cup {NoCall}]
    BY <1>4 DEF OnActionAck, PendingKey, Typed, StoreTyped
  <2> QED
    BY <1>1, <1>4, <2>1, <2>2, <2>3 DEF OnActionAck, Typed, StoreTyped
<1> QED
  BY <1>2, <1>3, <1>4, Handled

LEMMA TimerTyped ==
  ASSUME Typed, NEW i \in Id, NEW n \in DOMAIN timers[i], TimerFires(i, n)
  PROVE  StoreTyped'
<1> USE DEF Typed, StoreTyped
<1>1. items' \in [Id -> Seq(Status)]
  BY MarkTyped, StatusNames DEF TimerFires
<1>2. /\ timers' = [timers EXCEPT ![i][n] = NoTimer]
      /\ [timers[i] EXCEPT ![n] = NoTimer] \in Seq(Nat)
      /\ DOMAIN [timers[i] EXCEPT ![n] = NoTimer] = DOMAIN timers[i]
  BY DEF TimerFires, NoTimer
<1>3. timers' \in [Id -> Seq(Nat)] /\ \A j \in Id : DOMAIN timers'[j] = DOMAIN timers[j]
  BY <1>2
<1>4. /\ expiryTimers' \in [Id -> Nat]
      /\ \A j \in Id : expiryTimers'[j] \in {expiryTimers[j], NoEntry}
  BY DEF TimerFires, NoEntry
<1> QED
  BY <1>1, <1>3, <1>4 DEF TimerFires

\* What dismissing an item and disposing of the store do to the timers.
LEMMA ClearedTyped ==
  ASSUME Typed, NEW S \in SUBSET Id, timers' = Cleared(S),
         expiryTimers' = [i \in Id |-> IF i \in S THEN NoEntry ELSE expiryTimers[i]]
  PROVE  /\ timers' \in [Id -> Seq(Nat)] /\ expiryTimers' \in [Id -> Nat]
         /\ \A i \in Id : expiryTimers'[i] \in {NoEntry} \cup DOMAIN timers'[i]
<1> USE DEF Typed, StoreTyped
<1>1. \A i \in Id : Cleared(S)[i] \in Seq(Nat) /\ DOMAIN Cleared(S)[i] = DOMAIN timers[i]
  BY ClearedIs DEF Cleared
<1>2. Cleared(S) \in [Id -> Seq(Nat)]
  BY <1>1 DEF Cleared
<1>3. expiryTimers' \in [Id -> Nat] /\ \A i \in Id : expiryTimers'[i] \in {expiryTimers[i], NoEntry}
  BY DEF NoEntry
<1> QED
  BY <1>1, <1>2, <1>3

LEMMA ReadTyped ==
  ASSUME Typed, NEW S \in SUBSET Id, items' = ReadOf(S),
         UNCHANGED <<disposed, timers, expiryTimers, pendingResponses, promise, shown, acked>>
  PROVE  StoreTyped'
<1>1. \A i \in Id : ReadOf(S)[i] \in Seq(Status)
  BY ReadOfIs DEF Typed, StoreTyped
<1>2. items' \in [Id -> Seq(Status)]
  BY <1>1 DEF ReadOf
<1> QED
  BY <1>2 DEF Typed, StoreTyped

\* What the application and the timers call without waiting for an answer.
MethodStep ==
  \/ \E i \in Id : \/ \E n \in DOMAIN timers[i] : TimerFires(i, n)
                  \/ MarkRead(i) \/ Dismiss(i)
  \/ MarkAllRead

LEMMA MethodLeaves ==
  MethodStep => UNCHANGED <<now, disposed, pendingResponses, promise, shown, clientVars,
                            serverVars, call, acked>>
BY DEF MethodStep, TimerFires, MarkRead, MarkAllRead, Dismiss

LEMMA MethodTyped ==
  ASSUME Typed, MethodStep
  PROVE  StoreTyped'
<1>1. ASSUME NEW i \in Id, MarkRead(i) PROVE StoreTyped'
  BY <1>1, ReadTyped DEF MarkRead
<1>2. ASSUME MarkAllRead PROVE StoreTyped'
  BY <1>2, ReadTyped DEF MarkAllRead
<1>3. ASSUME NEW i \in Id, Dismiss(i) PROVE StoreTyped'
  <2>1. items' \in [Id -> Seq(Status)]
    <3>1. <<>> \in Seq(Status)
      OBVIOUS
    <3> QED
      BY <1>3, <3>1 DEF Dismiss, Typed, StoreTyped
  <2>2. /\ timers' = Cleared({i})
        /\ expiryTimers' = [j \in Id |-> IF j \in {i} THEN NoEntry ELSE expiryTimers[j]]
    BY <1>3 DEF Dismiss, Typed, StoreTyped
  <2>3. /\ timers' \in [Id -> Seq(Nat)] /\ expiryTimers' \in [Id -> Nat]
        /\ \A j \in Id : expiryTimers'[j] \in {NoEntry} \cup DOMAIN timers'[j]
    BY <2>2, ClearedTyped
  <2> QED
    BY <1>3, <2>1, <2>3 DEF Dismiss, Typed, StoreTyped
<1> QED
  BY <1>1, <1>2, <1>3, TimerTyped DEF MethodStep

LEMMA RespondTyped ==
  ASSUME Typed, NEW k \in Call, NEW i \in Id, NEW a \in Action, Respond(k, i, a)
  PROVE  StoreTyped'
BY DEF Respond, PendingKey, Typed, StoreTyped

LEMMA UnmountTyped ==
  ASSUME Typed, Unmount
  PROVE  StoreTyped'
<1>1. CASE disposed
  BY <1>1 DEF Unmount, Dispose, storeVars, Typed, StoreTyped
<1>2. CASE ~disposed
  <2>1. promise' \in [Call -> {"none", "waiting"} \cup Result]
    BY <1>2 DEF Unmount, Dispose, DisposedPromises, Result, Typed, StoreTyped
  <2>2. expiryTimers' = [i \in Id |-> IF i \in Id THEN NoEntry ELSE expiryTimers[i]]
    BY <1>2 DEF Unmount, Dispose
  <2>3. /\ timers' \in [Id -> Seq(Nat)] /\ expiryTimers' \in [Id -> Nat]
        /\ \A j \in Id : expiryTimers'[j] \in {NoEntry} \cup DOMAIN timers'[j]
    BY <1>2, <2>2, ClearedTyped DEF Unmount, Dispose
  <2> QED
    BY <1>2, <2>1, <2>3 DEF Unmount, Dispose, NoCall, Typed, StoreTyped
<1> QED
  BY <1>1, <1>2

LEMMA OutsideTyped == Typed /\ OutsideStep => StoreTyped'
BY DEF OutsideStep, storeVars, Typed, StoreTyped

-----------------------------------------------------------------------------
\* The other steps keep the world's

\* The steps that are not the store's.
OutsideNext ==
  \/ \E k \in Call : LoseFrame(k) \/ AnswerStep(k)
  \/ Mount \/ SocketOpens \/ SocketLost
  \/ \E i \in Id : Notify(i) \/ Resend(i) \/ AnsweredElsewhere(i) \/ RelayResolved(i)
  \/ Tick
  \/ UNCHANGED vars

StoreNext ==
  \/ HandleMessage
  \/ MethodStep
  \/ \E k \in Call : \E i \in Id, a \in Action : Respond(k, i, a)
  \/ Unmount

LEMMA NextParts == [Next]_vars <=> StoreNext \/ OutsideNext
BY DEF Next, StoreNext, OutsideNext, MethodStep

LEMMA OutsideIsOutside == OutsideNext => OutsideStep
BY DEF OutsideNext, OutsideStep, LoseFrame, AnswerStep, AckExpired, AskClaim,
   Accept, AlreadyAnswered, ClaimUnheard, ClaimError, Mount, SocketOpens, SocketLost, Notify,
   Resend, AnsweredElsewhere, RelayResolved, Tick, vars

LEMMA PushTyped ==
  ASSUME down \in Seq(Message), NEW m \in Message, Push(m)
  PROVE  down' \in Seq(Message)
<1>1. Append(down, m) \in Seq(Message)
  OBVIOUS
<1> QED
  BY <1>1 DEF Push

LEMMA AckTyped ==
  ASSUME Typed, NEW k \in Call, frame[k] # "none", NEW r \in Result, Ack(k, r)
  PROVE  /\ down' \in Seq(Message)
         /\ frame' \in [Call -> {"none", "sent", "claiming", "done", "lost"}]
         /\ \A j \in Call : frame'[j] = "none" => frame[j] = "none"
         /\ \A j \in Call : frame[j] = "none" => frame'[j] = "none"
<1> DEFINE m == [type |-> "actionAck", id |-> call[k].id, action |-> call[k].action, status |-> r]
<1>1. m \in Message
  BY FrameAsked DEF Message
<1>2. Append(down, m) \in Seq(Message)
  BY <1>1 DEF Typed, WorldTyped
<1> QED
  BY <1>2 DEF Ack, Typed, WorldTyped

\* What the steps of the server, its lock and the clock leave true.
WorldKept == WorldTyped' /\ ConnKnown' /\ CallsInOrder' /\ PendingWaits'

\* Steps that touch neither calls nor frames' existence.
LEMMA CallsKept ==
  ASSUME CallsInOrder, PendingWaits, UNCHANGED <<promise, call, pendingResponses>>,
         \A j \in Call : frame[j] = "none" => frame'[j] = "none"
  PROVE  CallsInOrder' /\ PendingWaits'
BY DEF CallsInOrder, PendingWaits

LEMMA AnswerStepKept ==
  ASSUME Typed, NEW k \in Call, LoseFrame(k) \/ AnswerStep(k)
  PROVE  WorldKept
<1> USE DEF Typed
<1>1. UNCHANGED <<promise, call, pendingResponses, now, mounted, state, conn, published,
                  resends, resent>>
  BY DEF LoseFrame, AnswerStep, AckExpired, AskClaim, Accept, AlreadyAnswered,
     ClaimUnheard, ClaimError, clientVars, storeVars, relayVars
<1>2. frame[k] # "none"
  BY DEF LoseFrame, AnswerStep, AckExpired, AskClaim, Accept, AlreadyAnswered, ClaimUnheard,
     ClaimError
<1>3. call[k].id \in Id /\ call[k].action \in Action
  BY <1>2, FrameAsked
<1>4. ConnKnown'
  BY <1>1 DEF ConnKnown
<1>5. ASSUME down' \in Seq(Message),
             frame' \in [Call -> {"none", "sent", "claiming", "done", "lost"}],
             \A j \in Call : frame[j] = "none" => frame'[j] = "none",
             answered' \subseteq Id, orphaned' \subseteq Id, resolving' \subseteq Id,
             accepted' \subseteq Id \X Action
      PROVE  WorldKept
  <2>1. WorldTyped'
    BY <1>1, <1>5 DEF WorldTyped
  <2> QED
    BY <1>1, <1>4, <1>5, <2>1, CallsKept DEF WorldKept
<1>6. CASE LoseFrame(k) \/ AskClaim(k) \/ ClaimUnheard(k)
  <2>1. /\ frame' \in [Call -> {"none", "sent", "claiming", "done", "lost"}]
        /\ \A j \in Call : frame[j] = "none" => frame'[j] = "none"
    BY <1>6 DEF LoseFrame, AskClaim, ClaimUnheard, WorldTyped
  <2>2. UNCHANGED <<down, answered, resolving, accepted>> /\ orphaned' \subseteq Id
    BY <1>3, <1>6 DEF LoseFrame, AskClaim, ClaimUnheard, Orphan, clientVars, lockVars, relayVars,
       WorldTyped
  <2> QED
    BY <1>5, <2>1, <2>2 DEF WorldTyped
<1>7. CASE AckExpired(k) \/ Accept(k) \/ AlreadyAnswered(k) \/ ClaimError(k)
  <2>1. PICK r \in Result : Ack(k, r)
    BY <1>7 DEF AckExpired, Accept, AlreadyAnswered, ClaimError, Result
  <2>2. /\ answered' \subseteq Id /\ orphaned' \subseteq Id /\ resolving' \subseteq Id
        /\ accepted' \subseteq Id \X Action
    BY <1>3, <1>7 DEF AckExpired, Accept, AlreadyAnswered, ClaimError, Orphan, lockVars, relayVars,
       WorldTyped
  <2> QED
    BY <1>2, <1>5, <2>1, <2>2, AckTyped
<1> QED
  BY <1>6, <1>7 DEF AnswerStep

LEMMA OutsideKept ==
  ASSUME Typed, OutsideNext
  PROVE  WorldKept
<1> USE DEF Typed
<1>1. UNCHANGED <<promise, call, pendingResponses>>
  BY OutsideIsOutside DEF OutsideStep, storeVars
<1>2. ASSUME UNCHANGED <<now, mounted, state, conn, frame, accepted>>,
             down' \in Seq(Message),
             published' \subseteq Id, resolving' \subseteq Id, resends' \in 0..MaxResends,
             resent' \subseteq Id, answered' \subseteq Id, orphaned' \subseteq Id
      PROVE  WorldKept
  BY <1>1, <1>2, CallsKept DEF WorldKept, WorldTyped, ConnKnown
<1>3. ASSUME NEW i \in Id, Notify(i) \/ Resend(i) \/ RelayResolved(i) PROVE WorldKept
  <2>1. PICK m \in Message : Push(m)
    BY <1>3 DEF Notify, Resend, RelayResolved, Notification, Message
  <2>2. down' \in Seq(Message)
    BY <2>1, PushTyped DEF WorldTyped
  <2>3. UNCHANGED <<now, mounted, state, conn, frame, accepted>>
    BY <1>3 DEF Notify, Resend, RelayResolved, lockVars
  <2>4. resends' \in 0..MaxResends
    BY <1>3, BoundsAreNat DEF Notify, Resend, RelayResolved, WorldTyped
  <2> QED
    BY <1>2, <1>3, <2>2, <2>3, <2>4 DEF Notify, Resend, RelayResolved, lockVars, WorldTyped
<1>4. ASSUME NEW i \in Id, AnsweredElsewhere(i) PROVE WorldKept
  BY <1>2, <1>4 DEF AnsweredElsewhere, clientVars, WorldTyped
<1>5. ASSUME Mount \/ SocketOpens \/ SocketLost PROVE WorldKept
  <2>1. UNCHANGED <<now, serverVars>> /\ mounted' \in BOOLEAN
    BY <1>5 DEF Mount, SocketOpens, SocketLost, WorldTyped
  <2>2. /\ state' \in {"closed", "connecting", "open"}
        /\ conn' \in 0..MaxConns
        /\ state' # "closed" => conn' >= 1
    BY <1>5, BoundsAreNat DEF Mount, SocketOpens, SocketLost, WorldTyped, ConnKnown
  <2>3. down' \in Seq(Message)
    <3>1. down' \in {<<>>, down}
      BY <1>5 DEF Mount, SocketOpens, SocketLost
    <3>2. <<>> \in Seq(Message)
      OBVIOUS
    <3> QED
      BY <3>1, <3>2 DEF WorldTyped
  <2>4. WorldTyped'
    BY <1>1, <2>1, <2>2, <2>3 DEF WorldTyped, serverVars, lockVars, relayVars
  <2> QED
    BY <1>1, <2>1, <2>2, <2>4, CallsKept DEF WorldKept, ConnKnown, serverVars
<1>6. ASSUME Tick PROVE WorldKept
  <2>1. now' \in Nat /\ UNCHANGED <<clientVars, serverVars>>
    BY <1>6 DEF Tick, WorldTyped
  <2> QED
    BY <1>1, <2>1, CallsKept DEF WorldKept, WorldTyped, ConnKnown, clientVars, serverVars,
       lockVars, relayVars
<1>7. ASSUME UNCHANGED vars PROVE WorldKept
  BY <1>2, <1>7 DEF vars, clientVars, serverVars, lockVars, relayVars, WorldTyped
<1> QED
  BY <1>3, <1>4, <1>5, <1>6, <1>7, AnswerStepKept DEF OutsideNext

LEMMA HandleKept ==
  ASSUME Typed, HandleMessage
  PROVE  WorldKept
<1> USE DEF Typed
<1> DEFINE m == Head(down)
<1>1. down' \in Seq(Message)
  BY Handled, TailTyped DEF WorldTyped
<1>2. UNCHANGED <<now, mounted, state, conn, serverVars, call>>
  BY Handled
<1>3. WorldTyped' /\ ConnKnown'
  BY <1>1, <1>2 DEF WorldTyped, ConnKnown, serverVars, lockVars, relayVars
<1>4. CASE UNCHANGED <<promise, pendingResponses>>
  BY <1>2, <1>3, <1>4, CallsKept DEF WorldKept, serverVars
<1>5. CASE /\ m.id \in Id /\ m.action \in Action /\ m.status \in Result
           /\ promise' = Resolved(m)
           /\ pendingResponses' =
                [pendingResponses EXCEPT ![PendingKey(m.id, m.action)] = NoCall]
  <2> DEFINE key == <<m.id, m.action>>
             k == pendingResponses[key]
  <2>1. /\ key \in Id \X Action /\ k \in Call \cup {NoCall}
        /\ k # NoCall => promise[k] = "waiting" /\ call[k].id = m.id /\ call[k].action = m.action
    BY <1>5 DEF StoreTyped, PendingWaits
  <2>2. /\ promise' = [j \in Call |-> IF j = k THEN m.status ELSE promise[j]]
        /\ pendingResponses' = [pendingResponses EXCEPT ![key] = NoCall]
    BY <1>5 DEF Resolved, PendingKey
  <2>3. \A j \in Call : promise'[j] = "none" <=> promise[j] = "none"
    <3>1. NoCall \notin Call
      BY BoundsAreNat DEF Call, NoCall
    <3>2. m.status # "none"
      BY <1>5 DEF Result
    <3> QED
      BY <2>1, <2>2, <3>1, <3>2
  <2>4. CallsInOrder'
    BY <1>2, <2>3 DEF CallsInOrder, serverVars
  <2>5. PendingWaits'
    <3> SUFFICES ASSUME NEW i \in Id, NEW a \in Action, pendingResponses'[<<i, a>>] # NoCall
                 PROVE  LET l == pendingResponses'[<<i, a>>] IN
                        promise'[l] = "waiting" /\ call[l].id = i /\ call[l].action = a
      BY <1>2 DEF PendingWaits
    <3> DEFINE l == pendingResponses[<<i, a>>]
    <3>1. <<i, a>> # key /\ pendingResponses'[<<i, a>>] = l /\ l \in Call
      BY <2>1, <2>2 DEF StoreTyped
    <3>2. promise[l] = "waiting" /\ call[l].id = i /\ call[l].action = a
      BY <3>1 DEF PendingWaits
    <3>3. l # k
      BY <2>1, <3>1, <3>2
    <3> QED
      BY <2>2, <3>1, <3>2, <3>3
  <2> QED
    BY <1>3, <2>4, <2>5 DEF WorldKept
<1> QED
  BY <1>4, <1>5, Handled DEF OnNotification, OnResolved, OnActionAck

LEMMA RespondKept ==
  ASSUME Typed, NEW k \in Call, NEW i \in Id, NEW a \in Action, Respond(k, i, a)
  PROVE  WorldKept
<1> USE DEF Typed
<1>1. /\ promise[k] = "none" /\ \A j \in Call : j < k => promise[j] # "none"
      /\ call' = [call EXCEPT ![k] = [id |-> i, action |-> a, conn |-> conn]]
      /\ pendingResponses' = [pendingResponses EXCEPT ![<<i, a>>] = k]
      /\ promise' = [promise EXCEPT ![k] = "waiting"]
      /\ frame' = [frame EXCEPT ![k] = "sent"]
      /\ UNCHANGED <<now, clientVars, lockVars, relayVars>>
  BY DEF Respond, PendingKey
<1>2. [id |-> i, action |-> a, conn |-> conn] \in Asked
  <2>1. conn \in 1..MaxConns
    BY BoundsAreNat DEF Respond, WorldTyped, ConnKnown
  <2> QED
    BY <2>1 DEF Asked
<1>3. WorldTyped' /\ ConnKnown'
  BY <1>1, <1>2 DEF WorldTyped, ConnKnown, clientVars, lockVars, relayVars
<1>4. CallsInOrder'
  <2> SUFFICES ASSUME NEW j \in Call
               PROVE  /\ promise'[j] = "none" => call'[j] = NothingAsked /\ frame'[j] = "none"
                      /\ promise'[j] # "none" =>
                           /\ call'[j] \in Asked
                           /\ \A l \in Call : l < j => promise'[l] # "none"
    BY DEF CallsInOrder
  <2>1. \A l \in Call : promise'[l] = IF l = k THEN "waiting" ELSE promise[l]
    BY <1>1 DEF StoreTyped
  <2>2. CASE j = k
    BY <1>1, <1>2, <2>1, <2>2 DEF WorldTyped
  <2>3. CASE j # k
    BY <1>1, <2>1, <2>3 DEF WorldTyped, CallsInOrder
  <2> QED
    BY <2>2, <2>3
<1>5. PendingWaits'
  <2> SUFFICES ASSUME NEW h \in Id, NEW b \in Action, pendingResponses'[<<h, b>>] # NoCall
               PROVE  LET l == pendingResponses'[<<h, b>>] IN
                      promise'[l] = "waiting" /\ call'[l].id = h /\ call'[l].action = b
    BY DEF PendingWaits
  <2>1. CASE <<h, b>> = <<i, a>>
    <3>1. pendingResponses'[<<h, b>>] = k
      BY <1>1, <2>1 DEF StoreTyped
    <3>2. promise'[k] = "waiting" /\ call'[k] = [id |-> i, action |-> a, conn |-> conn]
      BY <1>1 DEF StoreTyped, WorldTyped
    <3> QED
      BY <2>1, <3>1, <3>2
  <2>2. CASE <<h, b>> # <<i, a>>
    <3> DEFINE l == pendingResponses[<<h, b>>]
    <3>1. pendingResponses'[<<h, b>>] = l /\ l \in Call
      BY <1>1, <2>2 DEF StoreTyped
    <3>2. promise[l] = "waiting" /\ call[l].id = h /\ call[l].action = b
      BY <3>1 DEF PendingWaits
    <3>3. l # k
      BY <1>1, <3>2
    <3> QED
      BY <1>1, <3>1, <3>2, <3>3 DEF StoreTyped, WorldTyped
  <2> QED
    BY <2>1, <2>2
<1> QED
  BY <1>3, <1>4, <1>5 DEF WorldKept

LEMMA UnmountKept ==
  ASSUME Typed, Unmount
  PROVE  WorldKept
<1> USE DEF Typed
<1>1. UNCHANGED <<now, serverVars, call, conn>> /\ mounted' = FALSE /\ state' = "closed" /\ down' = <<>>
  BY DEF Unmount, CloseClient
<1>2. down' \in Seq(Message)
  BY <1>1
<1>3. WorldTyped' /\ ConnKnown'
  BY <1>1, <1>2 DEF WorldTyped, ConnKnown, serverVars, lockVars, relayVars
<1>4. CASE disposed
  BY <1>1, <1>3, <1>4, CallsKept DEF Unmount, Dispose, storeVars, WorldKept, serverVars
<1>5. CASE ~disposed
  <2>1. /\ promise' = DisposedPromises
        /\ pendingResponses' = [key \in Id \X Action |-> NoCall]
    BY <1>5 DEF Unmount, Dispose
  <2>2. \A k \in Call : promise'[k] = "none" <=> promise[k] = "none"
    <3> SUFFICES ASSUME NEW k \in Call,
                        NEW i \in Id, NEW a \in Action, pendingResponses[<<i, a>>] = k
                 PROVE  promise[k] # "none"
      BY <2>1 DEF DisposedPromises
    <3>1. k # NoCall
      BY BoundsAreNat DEF Call, NoCall
    <3> QED
      BY <3>1 DEF PendingWaits
  <2>3. CallsInOrder'
    BY <1>1, <2>2 DEF CallsInOrder, serverVars
  <2>4. PendingWaits'
    BY <2>1 DEF PendingWaits
  <2> QED
    BY <1>3, <2>3, <2>4 DEF WorldKept
<1> QED
  BY <1>4, <1>5

LEMMA StoreKept ==
  ASSUME Typed, StoreNext
  PROVE  WorldKept
<1>1. CASE MethodStep
  <2>1. UNCHANGED <<now, clientVars, serverVars, call, promise, pendingResponses>>
    BY <1>1, MethodLeaves
  <2> QED
    BY <2>1, CallsKept DEF WorldKept, Typed, WorldTyped, ConnKnown, clientVars, serverVars,
       lockVars, relayVars
<1> QED
  BY <1>1, HandleKept, RespondKept, UnmountKept DEF StoreNext

LEMMA NextTyped == Typed /\ [Next]_vars => Typed'
<1> SUFFICES ASSUME Typed, StoreNext \/ OutsideNext PROVE Typed'
  BY NextParts
<1>1. StoreTyped'
  BY HandleTyped, MethodTyped, RespondTyped, UnmountTyped, OutsideTyped,
     OutsideIsOutside DEF StoreNext
<1>2. WorldKept
  BY StoreKept, OutsideKept
<1> QED
  BY <1>1, <1>2 DEF Typed, WorldKept

LEMMA TypedInvariant == Spec => []Typed
BY InitTyped, NextTyped, PTL DEF Spec

\* Every reachable state is well typed: in particular every call of respond()
\* that waits has asked a question over a connection that was made.
THEOREM StoreTypeCorrect == Spec => []TypeOK
<1>1. Typed => TypeOK
  BY TypeParts DEF Typed
<1> QED
  BY <1>1, TypedInvariant, PTL

-----------------------------------------------------------------------------
\* The messages on their way

Carried(q) == {q[j] : j \in 1..Len(q)}

LEMMA CarriedTail ==
  ASSUME NEW q \in Seq(Message), q # <<>>
  PROVE  Carried(Tail(q)) \subseteq Carried(q) /\ Head(q) \in Carried(q)
<1>1. /\ Len(q) \in Nat /\ Len(q) >= 1 /\ Len(Tail(q)) = Len(q) - 1
      /\ Head(q) = q[1]
      /\ \A j \in 1..Len(Tail(q)) : Tail(q)[j] = q[j + 1]
  OBVIOUS
<1>2. \A j \in 1..Len(Tail(q)) : j + 1 \in 1..Len(q)
  BY <1>1
<1> QED
  BY <1>1, <1>2 DEF Carried

LEMMA CarriedAppend ==
  ASSUME NEW q \in Seq(Message), NEW m
  PROVE  Carried(Append(q, m)) = Carried(q) \cup {m}
<1>1. /\ Len(q) \in Nat /\ Len(Append(q, m)) = Len(q) + 1
      /\ Append(q, m)[Len(q) + 1] = m
      /\ \A j \in 1..Len(q) : Append(q, m)[j] = q[j]
  OBVIOUS
<1>2. 1..(Len(q) + 1) = 1..Len(q) \cup {Len(q) + 1}
  BY <1>1
<1> QED
  BY <1>1, <1>2 DEF Carried

LEMMA CarriedNothing == Carried(<<>>) = {}
BY DEF Carried

\* An ack says what the server has done.
AckTrue(m) ==
  m.type = "actionAck" =>
    /\ m.status = "accepted" => <<m.id, m.action>> \in accepted
    /\ m.status = "already_answered" => m.id \in Locked
    /\ m.status = "expired" => now > Expiry[m.id]

AcksTrue == \A m \in Carried(down) : AckTrue(m)

\* Of the notifications in q, those that are not in R are in q only once.
NotifiedOnce(q, R) ==
  \A j, l \in 1..Len(q) :
    j < l /\ q[j].type = "notification" /\ q[l].type = "notification" /\ q[j].id = q[l].id
      => q[j].id \in R

\* A notification whose PUBLISH was not sent again is on its way at most once,
\* only before it is shown, and there is one copy of it.
NotificationsFresh ==
  /\ shown \subseteq published
  /\ \A i \in Id : Shown(i) => i \in shown
  /\ \A i \in Id : Len(items[i]) > 1 => i \in resent
  /\ \A m \in Carried(down) :
       m.type = "notification" => m.id \in published /\ (m.id \in shown => m.id \in resent)
  /\ NotifiedOnce(down, resent)

\* What the server, the clock and the inbox have recorded stays recorded.
LEMMA HistoryGrows ==
  ASSUME Typed, [Next]_vars
  PROVE  /\ now <= now'
         /\ published \subseteq published' /\ resent \subseteq resent'
         /\ answered \subseteq answered' /\ orphaned \subseteq orphaned'
         /\ accepted \subseteq accepted' /\ shown \subseteq shown'
<1>0. now \in Nat
  BY DEF Typed, WorldTyped
<1> USE DEF lockVars, relayVars
<1>1. CASE HandleMessage
  <2>1. UNCHANGED <<now, published, resent, answered, orphaned, accepted>>
    BY <1>1, Handled DEF serverVars
  <2>2. shown \subseteq shown'
    BY <1>1, Handled DEF OnNotification, NewItem, OnResolved, OnActionAck
  <2> QED
    BY <1>0, <2>1, <2>2
<1>2. CASE StoreNext /\ ~HandleMessage
  <2>1. CASE Unmount
    BY <1>0, <2>1 DEF Unmount, Dispose, storeVars, serverVars
  <2>2. CASE ~Unmount
    <3>1. UNCHANGED <<now, published, resent, answered, orphaned, accepted, shown>>
      BY <1>2, <2>2, MethodLeaves DEF StoreNext, Respond, serverVars
    <3> QED
      BY <1>0, <3>1
  <2> QED
    BY <2>1, <2>2
<1>3. CASE OutsideNext
  <2>1. UNCHANGED shown
    BY <1>3, OutsideIsOutside DEF OutsideStep, storeVars
  <2>2. CASE Tick
    BY <1>0, <2>1, <2>2 DEF Tick, serverVars
  <2>3. ASSUME NEW k \in Call, LoseFrame(k) \/ AnswerStep(k)
        PROVE  /\ UNCHANGED <<now, published, resent>>
               /\ answered \subseteq answered' /\ orphaned \subseteq orphaned'
               /\ accepted \subseteq accepted'
    BY <2>3 DEF LoseFrame, AnswerStep, AckExpired, AskClaim, Accept,
       AlreadyAnswered, ClaimUnheard, ClaimError, Orphan
  <2>4. ASSUME NEW i \in Id, Notify(i) \/ Resend(i) \/ AnsweredElsewhere(i) \/ RelayResolved(i)
        PROVE  /\ UNCHANGED <<now, accepted, orphaned>>
               /\ published \subseteq published' /\ resent \subseteq resent'
               /\ answered \subseteq answered'
    BY <2>4 DEF Notify, Resend, AnsweredElsewhere, RelayResolved
  <2>5. CASE Mount \/ SocketOpens \/ SocketLost \/ UNCHANGED vars
    BY <1>0, <2>1, <2>5 DEF Mount, SocketOpens, SocketLost, vars, serverVars
  <2> QED
    BY <1>0, <1>3, <2>1, <2>2, <2>3, <2>4, <2>5 DEF OutsideNext
<1> QED
  BY <1>1, <1>2, <1>3, NextParts

\* What a step may put on the connection.
NewMessage(m) ==
  /\ m \in Message
  /\ AckTrue(m)'
  /\ m.type = "notification" =>
       /\ m.id \in published' /\ UNCHANGED shown
       /\ m.id \notin published \/ m.id \in resent'

LEMMA AckIsNew ==
  ASSUME Typed, NEW k \in Call,
         AckExpired(k) \/ Accept(k) \/ AlreadyAnswered(k) \/ ClaimError(k)
  PROVE  down' = down \/ \E m : NewMessage(m) /\ down' = Append(down, m)
<1>1. PICK r \in Result :
        /\ Ack(k, r) /\ frame[k] # "none"
        /\ r = "accepted" => <<call[k].id, call[k].action>> \in accepted'
        /\ r = "already_answered" => call[k].id \in Locked'
        /\ r = "expired" => now' > Expiry[call[k].id]
  BY DEF AckExpired, Accept, AlreadyAnswered, ClaimError, Result, Locked, lockVars
<1> DEFINE m == [type |-> "actionAck", id |-> call[k].id, action |-> call[k].action, status |-> r]
<1>2. m \in Message
  BY <1>1, FrameAsked DEF Message
<1>3. AckTrue(m)'
  <2>1. UNCHANGED call
    BY DEF AckExpired, Accept, AlreadyAnswered, ClaimError
  <2> QED
    BY <1>1, <2>1 DEF AckTrue
<1>4. NewMessage(m)
  BY <1>2, <1>3 DEF NewMessage
<1> QED
  BY <1>1, <1>4 DEF Ack

LEMMA DownStep ==
  ASSUME Typed, [Next]_vars
  PROVE  \/ down' = down
         \/ down' = <<>>
         \/ HandleMessage /\ down # <<>> /\ down' = Tail(down)
         \/ \E m : NewMessage(m) /\ down' = Append(down, m)
<1>1. CASE StoreNext
  <2>1. CASE HandleMessage
    BY <2>1, Handled
  <2>2. CASE Unmount
    BY <2>2 DEF Unmount, CloseClient
  <2>3. CASE StoreNext /\ ~HandleMessage /\ ~Unmount
    BY <2>3, MethodLeaves DEF StoreNext, Respond, clientVars
  <2> QED
    BY <1>1, <2>1, <2>2, <2>3
<1>2. ASSUME NEW k \in Call, LoseFrame(k) \/ AnswerStep(k)
      PROVE  down' = down \/ \E m : NewMessage(m) /\ down' = Append(down, m)
  <2>1. CASE LoseFrame(k) \/ AskClaim(k) \/ ClaimUnheard(k)
    BY <2>1 DEF LoseFrame, AskClaim, ClaimUnheard, clientVars
  <2> QED
    BY <1>2, <2>1, AckIsNew DEF AnswerStep
<1>3. ASSUME NEW i \in Id, Notify(i) \/ Resend(i)
      PROVE  down' = down \/ \E m : NewMessage(m) /\ down' = Append(down, m)
  <2> DEFINE m == [type |-> "notification", id |-> i]
  <2>1. /\ i \in published' /\ UNCHANGED shown
        /\ i \notin published \/ i \in resent'
        /\ Push(m)
    BY <1>3 DEF Notify, Resend, Notification, storeVars
  <2>2. NewMessage(m)
    BY <2>1 DEF NewMessage, Message, AckTrue
  <2> QED
    BY <2>1, <2>2 DEF Push
<1>4. ASSUME NEW i \in Id, RelayResolved(i)
      PROVE  down' = down \/ \E m : NewMessage(m) /\ down' = Append(down, m)
  <2> DEFINE m == [type |-> "resolved", id |-> i]
  <2>1. Push(m)
    BY <1>4 DEF RelayResolved
  <2>2. NewMessage(m)
    BY DEF NewMessage, Message, AckTrue
  <2> QED
    BY <2>1, <2>2 DEF Push
<1>5. ASSUME NEW i \in Id, AnsweredElsewhere(i) PROVE down' = down
  BY <1>5 DEF AnsweredElsewhere, clientVars
<1>6. CASE Mount \/ SocketOpens \/ SocketLost \/ Tick \/ UNCHANGED vars
  BY <1>6 DEF Mount, SocketOpens, SocketLost, Tick, vars, clientVars
<1> QED
  BY <1>1, <1>2, <1>3, <1>4, <1>5, <1>6, NextParts DEF OutsideNext

LEMMA NextAcks ==
  ASSUME Typed, AcksTrue, [Next]_vars
  PROVE  AcksTrue'
<1>0. down \in Seq(Message)
  BY DEF Typed, WorldTyped
<1>1. \A m \in Carried(down) : m \in Message
  BY <1>0 DEF Carried
<1>2. \A m \in Carried(down) : AckTrue(m)'
  <2> SUFFICES ASSUME NEW m \in Carried(down), m.type = "actionAck" PROVE AckTrue(m)'
    BY DEF AckTrue
  <2>1. AckTrue(m) /\ m.id \in Id
    BY <1>1 DEF AcksTrue, Message
  <2>2. now \in Nat /\ now' \in Nat /\ Expiry[m.id] \in Nat
    BY <2>1, BoundsAreNat, NextTyped DEF Typed, WorldTyped
  <2>3. now <= now' /\ Locked \subseteq Locked' /\ accepted \subseteq accepted'
    BY HistoryGrows DEF Locked
  <2> QED
    BY <2>1, <2>2, <2>3 DEF AckTrue
<1>3. ASSUME NEW m \in Carried(down') PROVE m \in Carried(down) \/ AckTrue(m)'
  <2>1. CASE down' = <<>>
    BY <1>3, <2>1, CarriedNothing
  <2>2. CASE down # <<>> /\ down' = Tail(down)
    BY <1>0, <1>3, <2>2, CarriedTail
  <2>3. ASSUME NEW n, NewMessage(n), down' = Append(down, n)
        PROVE  m \in Carried(down) \/ AckTrue(m)'
    <3>1. m \in Carried(down) \/ m = n
      BY <1>0, <1>3, <2>3, CarriedAppend
    <3> QED
      BY <2>3, <3>1 DEF NewMessage
  <2> QED
    BY <1>3, <2>1, <2>2, <2>3, DownStep
<1> QED
  BY <1>2, <1>3 DEF AcksTrue

-----------------------------------------------------------------------------
\* What respond() resolves to

LEMMA NextPromises ==
  ASSUME Typed, AcksTrue, PromiseTellsTruth, [Next]_vars
  PROVE  PromiseTellsTruth'
<1> DEFINE True(k) == /\ promise[k] = "accepted" => <<call[k].id, call[k].action>> \in accepted
                      /\ promise[k] = "already_answered" => call[k].id \in Locked
                      /\ promise[k] = "expired" => now > Expiry[call[k].id]
<1>a. PromiseTellsTruth <=> \A k \in Call : True(k)
  BY DEF PromiseTellsTruth, Locked
<1>b. PromiseTellsTruth' <=> \A k \in Call : True(k)'
  BY DEF PromiseTellsTruth, Locked
<1> HIDE DEF True
<1>0. /\ now \in Nat /\ now' \in Nat /\ now <= now'
      /\ Locked \subseteq Locked' /\ accepted \subseteq accepted'
  BY HistoryGrows, NextTyped DEF Typed, WorldTyped, Locked
<1>1. ASSUME NEW k \in Call, promise'[k] = promise[k], call'[k] = call[k]
      PROVE  True(k)'
  <2>1. promise[k] = "expired" => Expiry[call[k].id] \in Nat
    BY BoundsAreNat DEF Typed, CallsInOrder, Asked
  <2> QED
    BY <1>0, <1>1, <1>a, <2>1 DEF True
<1>2. CASE HandleMessage
  <2> DEFINE m == Head(down)
  <2>1. CASE promise' = promise
    BY <1>1, <1>2, <1>b, <2>1, Handled
  <2>2. CASE /\ m.type = "actionAck" /\ m.id \in Id /\ m.action \in Action
             /\ m.status \in Result /\ promise' = Resolved(m)
    <3>1. AckTrue(m)
      BY <1>2, Handled, CarriedTail DEF AcksTrue, Typed, WorldTyped
    <3> SUFFICES ASSUME NEW k \in Call, k = pendingResponses[<<m.id, m.action>>]
                 PROVE  True(k)'
      BY <1>1, <1>2, <1>b, <2>2, Handled DEF Resolved, PendingKey
    <3>2. k # NoCall
      BY BoundsAreNat DEF Call, NoCall
    <3>3. call'[k].id = m.id /\ call'[k].action = m.action /\ promise'[k] = m.status
      BY <1>2, <2>2, <3>2, Handled DEF Resolved, PendingKey, Typed, PendingWaits
    <3>4. Expiry[m.id] \in Nat
      BY <2>2, BoundsAreNat
    <3> QED
      BY <1>0, <2>2, <3>1, <3>3, <3>4 DEF AckTrue, True
  <2> QED
    BY <1>2, <2>1, <2>2, Handled DEF OnNotification, OnResolved, OnActionAck
<1>3. ASSUME NEW k \in Call, NEW i \in Id, NEW a \in Action, Respond(k, i, a)
      PROVE  PromiseTellsTruth'
  <2>1. /\ promise' = [promise EXCEPT ![k] = "waiting"]
        /\ \A j \in Call : j # k => call'[j] = call[j]
    BY <1>3 DEF Respond, Typed, WorldTyped
  <2>2. promise'[k] = "waiting"
    BY <2>1 DEF Typed, StoreTyped
  <2>3. True(k)'
    BY <2>2 DEF True
  <2> QED
    BY <1>1, <1>b, <2>1, <2>3 DEF Typed, StoreTyped
<1>4. CASE Unmount
  <2>1. call' = call /\ \A k \in Call : promise'[k] \in {promise[k], "invalid"}
    BY <1>4 DEF Unmount, Dispose, DisposedPromises, storeVars, Typed, StoreTyped
  <2>2. \A k \in Call : promise'[k] = "invalid" => True(k)'
    BY DEF True
  <2> QED
    BY <1>1, <1>b, <2>1, <2>2
<1>5. CASE MethodStep
  BY <1>1, <1>5, <1>b, MethodLeaves
<1>6. CASE OutsideNext
  BY <1>1, <1>6, <1>b, OutsideIsOutside DEF OutsideStep, storeVars
<1> QED
  BY <1>2, <1>3, <1>4, <1>5, <1>6, NextParts DEF StoreNext

\* What a promise of respond() resolves to is what happened, for whatever
\* order answers, other devices, expiry, lost connections and claims sent
\* again come in: 'already_answered' leaves open only whether the claim whose
\* key was found had been heard.
THEOREM PromisesAreTrue == Spec => []PromiseTellsTruth
<1> DEFINE I == Typed /\ AcksTrue /\ PromiseTellsTruth
<1>1. Init => I
  <2> SUFFICES ASSUME Init PROVE AcksTrue /\ PromiseTellsTruth
    BY InitTyped
  <2> QED
    BY CarriedNothing DEF Init, AcksTrue, PromiseTellsTruth
<1>2. I /\ [Next]_vars => I'
  BY NextTyped, NextAcks, NextPromises
<1>3. I => PromiseTellsTruth
  OBVIOUS
<1> QED
  BY <1>1, <1>2, <1>3, PTL DEF Spec

-----------------------------------------------------------------------------
\* The life of the copies of an item

Copies(i) == 1..Len(items[i])

SameCopies(i) ==
  /\ Len(items'[i]) = Len(items[i])
  /\ \A n \in Copies(i) : items'[i][n] = items[i][n]

AllBecome(i, s) ==
  /\ Len(items'[i]) = Len(items[i])
  /\ \A n \in Copies(i) : items'[i][n] = s

\* The timers of i are as they were, but that some may be cleared.
TimersCleared(i) ==
  /\ Len(timers'[i]) = Len(timers[i])
  /\ \A n \in 1..Len(timers[i]) : timers'[i][n] \in {timers[i][n], NoTimer}

Kept(i) == SameCopies(i) /\ timers'[i] = timers[i]

Disposes(i) == disposed' = TRUE /\ SameCopies(i) /\ TimersCleared(i)

Arrives(i) ==
  /\ HandleMessage /\ down # <<>>
  /\ Head(down).type = "notification" /\ Head(down).id = i /\ i \in shown'
  /\ Len(items'[i]) = Len(items[i]) + 1
  /\ IF Overdue(i)
       THEN \A n \in 1..(Len(items[i]) + 1) : items'[i][n] = "expired"
       ELSE /\ items'[i][Len(items[i]) + 1] = "unread"
            /\ \A n \in Copies(i) : items'[i][n] = items[i][n]
  /\ Len(timers'[i]) = Len(timers[i]) + 1
  /\ timers'[i][Len(timers[i]) + 1] =
       IF Expiry[i] = NoExpiry \/ Overdue(i) THEN NoTimer ELSE Due(i)
  /\ \A n \in 1..Len(timers[i]) : timers'[i][n] = timers[i][n]

GetsAnswered(i) == AllBecome(i, "answered") /\ timers'[i] = timers[i]

AckedExpired(i) ==
  /\ HandleMessage /\ down # <<>>
  /\ Head(down).type = "actionAck" /\ Head(down).status = "expired" /\ Head(down).id = i
  /\ AllBecome(i, "expired") /\ timers'[i] = timers[i]

RunsOut(i) ==
  \E t \in 1..Len(timers[i]) :
    /\ timers[i][t] # NoTimer /\ now >= timers[i][t] /\ now' = now
    /\ TimersCleared(i)
    /\ IF Shown(i) /\ Newest(i) \in Open THEN AllBecome(i, "expired") ELSE SameCopies(i)

GetsRead(i) ==
  /\ Len(items'[i]) = Len(items[i])
  /\ \A n \in Copies(i) :
       \/ items'[i][n] = items[i][n]
       \/ items[i][n] = "unread" /\ items'[i][n] = "read"
  /\ timers'[i] = timers[i]

GetsDismissed(i) == Len(items'[i]) = 0 /\ TimersCleared(i)

ItemStep(i) ==
  \/ Kept(i) \/ Arrives(i) \/ GetsAnswered(i) \/ AckedExpired(i)
  \/ RunsOut(i) \/ GetsRead(i) \/ GetsDismissed(i)

LEMMA MarkAll ==
  ASSUME Typed, NEW j \in Id, NEW s \in Status, MarkStatus(j, s), NEW i \in Id
  PROVE  IF i = j THEN AllBecome(i, s) ELSE SameCopies(i)
<1>1. items \in [Id -> Seq(Status)]
  BY DEF Typed, StoreTyped
<1>2. CASE i = j
  <2>1. items'[i] = AllAs(items[i], s)
    BY <1>1, <1>2 DEF MarkStatus
  <2>2. items[i] \in Seq(Status)
    BY <1>1
  <2>3. /\ Len(AllAs(items[i], s)) = Len(items[i])
        /\ \A n \in 1..Len(items[i]) : AllAs(items[i], s)[n] = s
    BY <2>2, AllAsIs
  <2> QED
    BY <1>2, <2>1, <2>3 DEF AllBecome, Copies
<1>3. CASE i # j
  BY <1>1, <1>3 DEF MarkStatus, SameCopies
<1> QED
  BY <1>2, <1>3

LEMMA NewItemArrives ==
  ASSUME Typed, NEW i \in Id, NewItem(i), HandleMessage, down # <<>>,
         Head(down).type = "notification", Head(down).id = i
  PROVE  Arrives(i)
<1> DEFINE c == items[i]
           due == IF Expiry[i] = NoExpiry \/ Overdue(i) THEN NoTimer ELSE Due(i)
<1>1. c \in Seq(Status) /\ timers[i] \in Seq(Nat) /\ due \in Nat
  BY DueTyped DEF Typed, StoreTyped, WorldTyped, NoTimer
<1>2. /\ Append(c, "unread") \in Seq(Status) /\ Len(c) \in Nat
      /\ Len(Append(c, "unread")) = Len(c) + 1
      /\ Append(c, "unread")[Len(c) + 1] = "unread"
      /\ \A n \in 1..Len(c) : Append(c, "unread")[n] = c[n]
  BY <1>1, StatusNames, AppendIs
<1>3. /\ Len(Append(timers[i], due)) = Len(timers[i]) + 1
      /\ Append(timers[i], due)[Len(timers[i]) + 1] = due
      /\ \A n \in 1..Len(timers[i]) : Append(timers[i], due)[n] = timers[i][n]
  BY <1>1, AppendIs
<1>4. timers'[i] = Append(timers[i], due) /\ i \in shown'
  BY DEF NewItem, Typed, StoreTyped
<1>5. CASE Overdue(i)
  <2>1. items'[i] = AllAs(Append(c, "unread"), "expired")
    BY <1>5 DEF NewItem, Typed, StoreTyped
  <2>2. /\ Len(items'[i]) = Len(c) + 1
        /\ \A n \in 1..(Len(c) + 1) : items'[i][n] = "expired"
    <3> DEFINE d == Append(c, "unread")
    <3>1. d \in Seq(Status) /\ "expired" \in Status /\ Len(d) = Len(c) + 1
      BY <1>2, StatusNames
    <3> HIDE DEF d
    <3>2. Len(AllAs(d, "expired")) = Len(d) /\ \A n \in 1..Len(d) : AllAs(d, "expired")[n] = "expired"
      BY <3>1, AllAsIs
    <3> QED
      BY <2>1, <3>1, <3>2 DEF d
  <2> QED
    BY <1>3, <1>4, <1>5, <2>2 DEF Arrives
<1>6. CASE ~Overdue(i)
  <2>1. items'[i] = Append(c, "unread")
    BY <1>6 DEF NewItem, Typed, StoreTyped
  <2> QED
    BY <1>2, <1>3, <1>4, <1>6, <2>1 DEF Arrives, Copies
<1> QED
  BY <1>5, <1>6

LEMMA MessageItems ==
  ASSUME Typed, HandleMessage, NEW i \in Id
  PROVE  ItemStep(i)
<1> USE DEF ItemStep
<1> DEFINE m == Head(down)
<1>0. SameCopies(i) \/ items' # items
  BY DEF SameCopies
<1>1. CASE m.type = "notification" /\ m.id \in Id /\ OnNotification(m.id)
  <2>1. CASE disposed
    BY <1>0, <1>1, <2>1 DEF OnNotification, Kept
  <2>2. CASE ~disposed /\ m.id # i
    <3>1. items'[i] = items[i] /\ timers'[i] = timers[i]
      BY <1>1, <2>2 DEF OnNotification, NewItem, Typed, StoreTyped
    <3> QED
      BY <3>1 DEF Kept, SameCopies
  <2>3. CASE ~disposed /\ m.id = i
    BY <1>1, <2>3, Handled, NewItemArrives DEF OnNotification
  <2> QED
    BY <2>1, <2>2, <2>3
<1>2. CASE m.type = "resolved" /\ m.id \in Id /\ OnResolved(m.id)
  <2>1. CASE disposed
    BY <1>0, <1>2, <2>1 DEF OnResolved, Kept
  <2>2. CASE ~disposed
    BY <1>2, <2>2, MarkAll, StatusNames DEF OnResolved, Kept, GetsAnswered
  <2> QED
    BY <2>1, <2>2
<1>3. CASE /\ m.type = "actionAck" /\ m.id \in Id /\ m.status \in Result
           /\ OnActionAck(m)
  <2>1. UNCHANGED timers
    BY <1>3 DEF OnActionAck
  <2>2. CASE items' = items
    BY <1>0, <2>1, <2>2 DEF Kept
  <2>3. CASE m.status \in {"accepted", "already_answered"} /\ MarkStatus(m.id, "answered")
    BY <1>3, <2>1, <2>3, MarkAll, StatusNames DEF Kept, GetsAnswered
  <2>4. CASE m.status = "expired" /\ MarkStatus(m.id, "expired")
    BY <1>3, <2>1, <2>4, Handled, MarkAll, StatusNames DEF Kept, AckedExpired
  <2> QED
    BY <1>3, <2>2, <2>3, <2>4 DEF OnActionAck, Acked
<1> QED
  BY <1>1, <1>2, <1>3, Handled

LEMMA TimerItems ==
  ASSUME Typed, NEW j \in Id, NEW t \in DOMAIN timers[j], TimerFires(j, t), NEW i \in Id
  PROVE  ItemStep(i)
<1>1. timers \in [Id -> Seq(Nat)]
  BY DEF Typed, StoreTyped
<1>2. CASE j # i
  <2>1. timers'[i] = timers[i]
    BY <1>1, <1>2 DEF TimerFires
  <2>2. SameCopies(i)
    BY <1>2, MarkAll, StatusNames DEF TimerFires, SameCopies
  <2> QED
    BY <2>1, <2>2 DEF ItemStep, Kept
<1>3. CASE j = i
  <2>1. timers[i] \in Seq(Nat) /\ t \in 1..Len(timers[i])
    BY <1>1, <1>3
  <2>2. timers'[i] = [timers[i] EXCEPT ![t] = NoTimer]
    BY <1>1, <1>3 DEF TimerFires
  <2>3. TimersCleared(i)
    BY <2>1, <2>2 DEF TimersCleared
  <2>4. IF Shown(i) /\ Newest(i) \in Open THEN AllBecome(i, "expired") ELSE SameCopies(i)
    BY <1>3, MarkAll, StatusNames DEF TimerFires, SameCopies
  <2>5. timers[i][t] # NoTimer /\ now >= timers[i][t] /\ now' = now
    BY <1>3 DEF TimerFires
  <2> QED
    BY <2>1, <2>3, <2>4, <2>5 DEF ItemStep, RunsOut
<1> QED
  BY <1>2, <1>3

LEMMA ReadItems ==
  ASSUME Typed, NEW S \in SUBSET Id, items' = ReadOf(S), timers' = timers, NEW i \in Id
  PROVE  ItemStep(i)
BY ReadOfIs DEF ItemStep, GetsRead, Copies, Typed, StoreTyped

LEMMA ClearedItems ==
  ASSUME Typed, NEW S \in SUBSET Id, timers' = Cleared(S), NEW i \in Id
  PROVE  TimersCleared(i)
BY ClearedIs DEF TimersCleared, Typed, StoreTyped

LEMMA NextItem ==
  ASSUME Typed, [Next]_vars, NEW i \in Id
  PROVE  \/ disposed' = disposed /\ ItemStep(i)
         \/ Disposes(i)
<1>0. items' = items => SameCopies(i)
  BY DEF SameCopies
<1>1. CASE HandleMessage
  BY <1>1, MessageItems, Handled
<1>2. CASE MethodStep
  <2>1. disposed' = disposed
    BY <1>2, MethodLeaves
  <2>2. ASSUME NEW j \in Id, NEW t \in DOMAIN timers[j], TimerFires(j, t) PROVE ItemStep(i)
    BY <2>2, TimerItems
  <2>3. ASSUME NEW j \in Id, MarkRead(j) PROVE ItemStep(i)
    BY <2>3, ReadItems DEF MarkRead
  <2>4. CASE MarkAllRead
    BY <2>4, ReadItems DEF MarkAllRead
  <2>5. ASSUME NEW j \in Id, Dismiss(j) PROVE ItemStep(i)
    <3>1. TimersCleared(i)
      BY <2>5, ClearedItems DEF Dismiss
    <3>2. CASE j = i
      <4>1. items'[i] = <<>>
        BY <2>5, <3>2 DEF Dismiss, Typed, StoreTyped
      <4> QED
        BY <3>1, <4>1 DEF ItemStep, GetsDismissed
    <3>3. CASE j # i
      <4>1. items'[i] = items[i]
        BY <2>5, <3>3 DEF Dismiss, Typed, StoreTyped
      <4>2. timers'[i] = timers[i]
        <5>1. timers[i] \in Seq(Nat)
          BY DEF Typed, StoreTyped
        <5>2. timers'[i] = [n \in 1..Len(timers[i]) |-> timers[i][n]]
          BY <2>5, <3>3 DEF Dismiss, Cleared
        <5> QED
          BY <5>1, <5>2
      <4> QED
        BY <4>1, <4>2 DEF ItemStep, Kept, SameCopies
    <3> QED
      BY <3>2, <3>3
  <2> QED
    BY <1>2, <2>1, <2>2, <2>3, <2>4, <2>5 DEF MethodStep
<1>3. CASE Unmount
  <2>1. CASE disposed
    BY <1>0, <1>3, <2>1 DEF Unmount, Dispose, storeVars, ItemStep, Kept
  <2>2. CASE ~disposed
    BY <1>0, <1>3, <2>2, ClearedItems DEF Unmount, Dispose, Disposes
  <2> QED
    BY <2>1, <2>2
<1>4. ASSUME NEW k \in Call, NEW j \in Id, NEW a \in Action, Respond(k, j, a)
      PROVE  disposed' = disposed /\ ItemStep(i)
  BY <1>0, <1>4 DEF Respond, ItemStep, Kept
<1>5. CASE OutsideNext
  BY <1>0, <1>5, OutsideIsOutside DEF OutsideStep, storeVars, ItemStep, Kept
<1> QED
  BY <1>1, <1>2, <1>3, <1>4, <1>5, NextParts DEF StoreNext

\* A timer runs out when the item expires, or before if it had to be cut short.
TimersRight ==
  \A i \in Id : \A n \in 1..Len(timers[i]) :
    timers[i][n] # NoTimer => timers[i][n] = Expiry[i] \/ Expiry[i] > TimeoutMax

LEMMA DueRight ==
  ASSUME Typed, NEW i \in Id, ~Overdue(i), Expiry[i] # NoExpiry
  PROVE  /\ Due(i) = Expiry[i] \/ Expiry[i] > TimeoutMax
         /\ Due(i) \in 1..Expiry[i]
<1>1. now \in Nat /\ Expiry[i] \in Nat /\ TimeoutMax \in Nat /\ TimeoutMax >= 1
  BY BoundsAreNat DEF Typed, WorldTyped
<1>2. Expiry[i] - now > 0 /\ Expiry[i] > 0
  BY <1>1 DEF Overdue, NoExpiry
<1> QED
  BY <1>1, <1>2 DEF Due

\* The numbers of an item's copies and timers.
LEMMA Numbers ==
  ASSUME Typed, NEW i \in Id
  PROVE  /\ Len(items[i]) \in Nat /\ DOMAIN items[i] = Copies(i)
         /\ Len(timers[i]) \in Nat /\ DOMAIN timers[i] = 1..Len(timers[i])
         /\ Shown(i) <=> Len(items[i]) > 0
<1>1. items[i] \in Seq(Status) /\ timers[i] \in Seq(Nat)
  BY DEF Typed, StoreTyped
<1> QED
  BY <1>1 DEF Shown, Copies

\* A number up to one more than another is that one or up to the other.
LEMMA UpToOneMore ==
  ASSUME NEW n \in Nat
  PROVE  1..(n + 1) = 1..n \cup {n + 1}
OBVIOUS

LEMMA NextTimers ==
  ASSUME Typed, TimersRight, [Next]_vars
  PROVE  TimersRight'
<1> SUFFICES ASSUME NEW i \in Id, NEW n \in 1..Len(timers'[i]), timers'[i][n] # NoTimer
             PROVE  timers'[i][n] = Expiry[i] \/ Expiry[i] > TimeoutMax
  BY DEF TimersRight
<1>1. CASE TimersCleared(i) \/ timers'[i] = timers[i]
  BY <1>1 DEF TimersCleared, TimersRight
<1>2. CASE Arrives(i)
  <2>1. n \in 1..Len(timers[i]) \/ n = Len(timers[i]) + 1
    BY <1>2, Numbers, UpToOneMore DEF Arrives
  <2>2. CASE n \in 1..Len(timers[i])
    BY <1>2, <2>2 DEF Arrives, TimersRight
  <2>3. CASE n = Len(timers[i]) + 1
    BY <1>2, <2>3, DueRight DEF Arrives
  <2> QED
    BY <2>1, <2>2, <2>3
<1> QED
  BY <1>1, <1>2, NextItem DEF ItemStep, Kept, Disposes, GetsAnswered, AckedExpired, RunsOut,
     GetsRead, GetsDismissed

LEMMA NextExpired ==
  ASSUME Typed, AcksTrue, TimersRight, ExpiredIsPast, [Next]_vars
  PROVE  ExpiredIsPast'
<1>0. ExpiredIsPast' <=>
        \A i \in Id : \A n \in 1..Len(items'[i]) :
          items'[i][n] = "expired" => now' >= Expiry[i] \/ Expiry[i] > TimeoutMax
  <2>1. \A i \in Id : DOMAIN items'[i] = 1..Len(items'[i])
    BY NextTyped DEF Typed, StoreTyped
  <2> QED
    BY <2>1 DEF ExpiredIsPast
<1> SUFFICES ASSUME NEW i \in Id, NEW n \in 1..Len(items'[i]), items'[i][n] = "expired"
             PROVE  now' >= Expiry[i] \/ Expiry[i] > TimeoutMax
  BY <1>0
<1>1. /\ now \in Nat /\ now' \in Nat /\ now <= now' /\ Expiry[i] \in Nat
      /\ n \in Copies(i) /\ items[i][n] = "expired" => now >= Expiry[i] \/ Expiry[i] > TimeoutMax
  BY HistoryGrows, NextTyped, BoundsAreNat, Numbers DEF Typed, WorldTyped, ExpiredIsPast
<1>2. CASE Kept(i) \/ Disposes(i) \/ GetsAnswered(i) \/ GetsRead(i) \/ GetsDismissed(i)
  BY <1>1, <1>2, Numbers DEF Kept, Disposes, GetsAnswered, GetsRead, GetsDismissed, SameCopies,
     AllBecome, Copies
<1>3. CASE Arrives(i)
  <2>1. CASE Overdue(i)
    BY <1>1, <1>3, <2>1 DEF Overdue
  <2>2. CASE ~Overdue(i)
    <3>1. Len(items[i]) \in Nat /\ Len(items'[i]) = Len(items[i]) + 1
      BY <1>3, Numbers DEF Arrives
    <3>2. n # Len(items[i]) + 1
      BY <1>3, <2>2 DEF Arrives
    <3>3. n \in Copies(i)
      BY <3>1, <3>2 DEF Copies
    <3> QED
      BY <1>1, <1>3, <2>2, <3>3 DEF Arrives
  <2> QED
    BY <2>1, <2>2
<1>4. CASE AckedExpired(i)
  <2>1. AckTrue(Head(down))
    BY <1>4, CarriedTail DEF AckedExpired, AcksTrue, Typed, WorldTyped
  <2>2. now > Expiry[i]
    BY <1>4, <2>1 DEF AckedExpired, AckTrue
  <2> QED
    BY <1>1, <2>2
<1>5. CASE RunsOut(i)
  <2>1. PICK t \in 1..Len(timers[i]) : timers[i][t] # NoTimer /\ now >= timers[i][t]
    BY <1>5 DEF RunsOut
  <2>2. timers[i][t] = Expiry[i] \/ Expiry[i] > TimeoutMax
    BY <2>1 DEF TimersRight
  <2> QED
    BY <1>1, <2>1, <2>2
<1> QED
  BY <1>2, <1>3, <1>4, <1>5, NextItem DEF ItemStep

\* An item is shown as expired only after its expiresAt, by a timer, by a late
\* copy or by the server's word, unless setTimeout() could not count that far.
THEOREM ExpiredTellsTruth == Spec => []ExpiredIsPast
<1> DEFINE I == Typed /\ AcksTrue /\ TimersRight /\ ExpiredIsPast
<1>1. Init => I
  <2> SUFFICES ASSUME Init PROVE AcksTrue /\ TimersRight /\ ExpiredIsPast
    BY InitTyped
  <2> QED
    BY CarriedNothing DEF Init, AcksTrue, TimersRight, ExpiredIsPast
<1>2. I /\ [Next]_vars => I'
  BY NextTyped, NextAcks, NextTimers, NextExpired
<1>3. I => ExpiredIsPast
  OBVIOUS
<1> QED
  BY <1>1, <1>2, <1>3, PTL DEF Spec

\* If any copy is open, then so is the one that came last.
NewestIsOpen ==
  \A i \in Id : \A n \in Copies(i) : items[i][n] \in Open => Newest(i) \in Open

OpenNotClosed == Open \cap Closed = {}

LEMMA StatusesApart == OpenNotClosed /\ "answered" \notin Open /\ "expired" \notin Open
BY DEF OpenNotClosed, Open, Closed

\* A step that leaves some copy of i open found it open, or it has just come.
LEMMA StillOpen ==
  ASSUME Typed, NewestIsOpen, [Next]_vars, NEW i \in Id,
         NEW n \in 1..Len(items'[i]), items'[i][n] \in Open
  PROVE  \/ /\ Arrives(i) /\ ~Overdue(i)
         \/ /\ Len(items'[i]) = Len(items[i]) /\ n \in Copies(i) /\ items[i][n] \in Open
            /\ Newest(i) \in Open /\ items'[i][Len(items'[i])] \in Open
            /\ timers'[i] = timers[i] \/ Disposes(i)
<1>0. /\ Len(items[i]) \in Nat
      /\ \A s : AllBecome(i, s) => s \in Open
      /\ \A j \in Copies(i) : items[i][j] \in Open => Newest(i) \in Open
  BY Numbers DEF AllBecome, Copies, NewestIsOpen
<1>1. CASE Arrives(i)
  BY <1>1, StatusesApart DEF Arrives
<1>2. CASE SameCopies(i) \/ GetsRead(i)
  <2>1. /\ Len(items'[i]) = Len(items[i])
        /\ \A j \in Copies(i) : items'[i][j] \in Open <=> items[i][j] \in Open
    BY <1>2 DEF SameCopies, GetsRead, Open
  <2>2. n \in Copies(i) /\ Len(items[i]) \in Copies(i)
    BY <1>0, <2>1 DEF Copies
  <2>3. /\ items[i][n] \in Open /\ Newest(i) \in Open
        /\ items'[i][Len(items'[i])] \in Open
    BY <1>0, <2>1, <2>2 DEF Newest
  <2>4. ~RunsOut(i)
    <3> SUFFICES ASSUME RunsOut(i) PROVE FALSE
      OBVIOUS
    <3>1. AllBecome(i, "expired")
      BY <1>0, <2>2, <2>3, Numbers DEF RunsOut, Copies
    <3> QED
      BY <1>0, <3>1, StatusesApart
  <2>5. ~GetsDismissed(i) /\ ~GetsAnswered(i) /\ ~AckedExpired(i)
    BY <1>0, <2>1, <2>2, StatusesApart DEF GetsDismissed, GetsAnswered, AckedExpired, Copies
  <2>6. timers'[i] = timers[i] \/ Disposes(i) \/ Arrives(i)
    BY <2>4, <2>5, NextItem DEF ItemStep, Kept, GetsRead
  <2> QED
    BY <1>1, <2>1, <2>2, <2>3, <2>6
<1>3. CASE GetsAnswered(i) \/ AckedExpired(i) \/ GetsDismissed(i)
  BY <1>0, <1>3, StatusesApart DEF GetsAnswered, AckedExpired, GetsDismissed
<1>4. CASE RunsOut(i)
  BY <1>0, <1>2, <1>4, StatusesApart DEF RunsOut
<1> QED
  BY <1>1, <1>2, <1>3, <1>4, NextItem DEF ItemStep, Kept, Disposes

LEMMA NextNewest ==
  ASSUME Typed, NewestIsOpen, [Next]_vars
  PROVE  NewestIsOpen'
<1> SUFFICES ASSUME NEW i \in Id, NEW n \in 1..Len(items'[i]), items'[i][n] \in Open
             PROVE  items'[i][Len(items'[i])] \in Open
  BY DEF NewestIsOpen, Newest, Copies
<1>1. CASE Arrives(i) /\ ~Overdue(i)
  BY <1>1 DEF Arrives, Open
<1> QED
  BY <1>1, StillOpen

\* react.md:89: an item that is still open to an answer has a timer set for
\* its expiresAt at the latest, as long as its store lives, even if the Map
\* has lost sight of that timer to another copy's.
THEOREM OpenItemsExpire == Spec => []ExpiryArmed
<1> DEFINE I == Typed /\ NewestIsOpen /\ ExpiryArmed
<1>1. Init => I
  BY InitTyped DEF Init, ExpiryArmed, NewestIsOpen, Copies
<1>2. I /\ [Next]_vars => ExpiryArmed'
  <2> SUFFICES ASSUME I, [Next]_vars, NEW i \in Id, Expiry[i] # NoExpiry, ~disposed',
                      NEW n \in 1..Len(items'[i]), items'[i][n] \in Open
               PROVE  \E t \in DOMAIN timers'[i] : timers'[i][t] \in 1..Expiry[i]
    <3>1. \A i \in Id : DOMAIN items'[i] = 1..Len(items'[i])
      BY NextTyped DEF Typed, StoreTyped
    <3> QED
      BY <3>1 DEF ExpiryArmed
  <2>1. CASE Arrives(i) /\ ~Overdue(i)
    <3>1. timers'[i] \in Seq(Nat) /\ Len(timers'[i]) = Len(timers[i]) + 1 /\ Len(timers[i]) \in Nat
      BY <2>1, NextTyped, Numbers DEF Arrives, Typed, StoreTyped
    <3>2. Len(timers[i]) + 1 \in DOMAIN timers'[i]
      BY <3>1
    <3>3. timers'[i][Len(timers[i]) + 1] \in 1..Expiry[i]
      BY <2>1, DueRight DEF Arrives
    <3> QED
      BY <3>2, <3>3
  <2>2. CASE n \in Copies(i) /\ items[i][n] \in Open /\ timers'[i] = timers[i]
    <3>1. disposed' = disposed
      BY NextItem DEF Disposes
    <3> QED
      BY <2>2, <3>1, Numbers DEF ExpiryArmed
  <2> QED
    BY <2>1, <2>2, StillOpen DEF Disposes
<1>3. I /\ [Next]_vars => I'
  BY <1>2, NextTyped, NextNewest
<1>4. I => ExpiryArmed
  OBVIOUS
<1> QED
  BY <1>1, <1>3, <1>4, PTL DEF Spec

-----------------------------------------------------------------------------
\* A notification is shown once, unless its PUBLISH was sent again

LEMMA ShownStep ==
  ASSUME Typed, [Next]_vars
  PROVE  \/ shown' = shown
         \/ /\ HandleMessage /\ down # <<>> /\ down' = Tail(down)
            /\ Head(down).type = "notification" /\ shown' = shown \cup {Head(down).id}
<1>1. CASE HandleMessage
  BY <1>1, Handled DEF OnNotification, NewItem, OnResolved, OnActionAck
<1>2. CASE Unmount
  BY <1>2 DEF Unmount, Dispose, storeVars
<1>3. CASE StoreNext /\ ~HandleMessage /\ ~Unmount
  BY <1>3, MethodLeaves DEF StoreNext, Respond
<1>4. CASE OutsideNext
  BY <1>4, OutsideIsOutside DEF OutsideStep, storeVars
<1> QED
  BY <1>1, <1>2, <1>3, <1>4, NextParts

LEMMA OnceTail ==
  ASSUME NEW q \in Seq(Message), q # <<>>, NEW R, NotifiedOnce(q, R)
  PROVE  /\ NotifiedOnce(Tail(q), R)
         /\ \A m \in Carried(Tail(q)) :
              m.type = "notification" /\ Head(q).type = "notification" /\ m.id = Head(q).id
                => m.id \in R
<1>1. /\ Len(q) \in Nat /\ Len(q) >= 1 /\ Len(Tail(q)) = Len(q) - 1
      /\ Head(q) = q[1]
      /\ \A j \in 1..Len(Tail(q)) : Tail(q)[j] = q[j + 1]
  OBVIOUS
<1>2. \A j \in 1..Len(Tail(q)) : j + 1 \in 1..Len(q) /\ 1 < j + 1
  BY <1>1
<1>3. 1 \in 1..Len(q)
  BY <1>1
<1>4. NotifiedOnce(Tail(q), R)
  <2> SUFFICES ASSUME NEW j \in 1..Len(Tail(q)), NEW l \in 1..Len(Tail(q)), j < l,
                      q[j + 1].type = "notification", q[l + 1].type = "notification",
                      q[j + 1].id = q[l + 1].id
               PROVE  q[j + 1].id \in R
    BY <1>1 DEF NotifiedOnce
  <2>1. j + 1 < l + 1
    BY <1>1
  <2> QED
    BY <1>2, <2>1 DEF NotifiedOnce
<1>5. ASSUME NEW m \in Carried(Tail(q)), m.type = "notification",
             Head(q).type = "notification", m.id = Head(q).id
      PROVE  m.id \in R
  <2>1. PICK j \in 1..Len(Tail(q)) : m = q[j + 1]
    BY <1>1, <1>5 DEF Carried
  <2> QED
    BY <1>1, <1>2, <1>3, <1>5, <2>1 DEF NotifiedOnce
<1> QED
  BY <1>4, <1>5

LEMMA OnceAppend ==
  ASSUME NEW q \in Seq(Message), NEW m, NEW R, NotifiedOnce(q, R),
         m.type = "notification" =>
           \A n \in Carried(q) : n.type = "notification" /\ n.id = m.id => m.id \in R
  PROVE  NotifiedOnce(Append(q, m), R)
<1>1. /\ Len(q) \in Nat /\ Len(Append(q, m)) = Len(q) + 1
      /\ Append(q, m)[Len(q) + 1] = m
      /\ \A j \in 1..Len(q) : Append(q, m)[j] = q[j] /\ q[j] \in Carried(q)
  BY DEF Carried
<1> SUFFICES ASSUME NEW j \in 1..(Len(q) + 1), NEW l \in 1..(Len(q) + 1), j < l,
                    Append(q, m)[j].type = "notification",
                    Append(q, m)[l].type = "notification",
                    Append(q, m)[j].id = Append(q, m)[l].id
             PROVE  Append(q, m)[j].id \in R
  BY <1>1 DEF NotifiedOnce
<1>2. j \in 1..Len(q)
  BY <1>1
<1>3. CASE l \in 1..Len(q)
  BY <1>1, <1>2, <1>3 DEF NotifiedOnce
<1>4. CASE l = Len(q) + 1
  BY <1>1, <1>2, <1>4
<1> QED
  BY <1>1, <1>3, <1>4

LEMMA OnceMore ==
  ASSUME NEW q, NEW R, NEW S, R \subseteq S, NotifiedOnce(q, R)
  PROVE  NotifiedOnce(q, S)
BY DEF NotifiedOnce

\* What NotificationsFresh says of a message on its way.
FreshMessage(m) ==
  m.type = "notification" => m.id \in published /\ (m.id \in shown => m.id \in resent)

LEMMA NextDown ==
  ASSUME Typed, NotificationsFresh, [Next]_vars
  PROVE  (\A m \in Carried(down') : FreshMessage(m)') /\ NotifiedOnce(down', resent')
<1>0. /\ down \in Seq(Message)
      /\ shown \subseteq published /\ published \subseteq published' /\ resent \subseteq resent'
      /\ NotifiedOnce(down, resent')
      /\ \A m \in Carried(down) : FreshMessage(m)
  BY HistoryGrows, OnceMore DEF Typed, WorldTyped, NotificationsFresh, FreshMessage
<1>1. CASE down' = <<>>
  BY <1>1, CarriedNothing DEF NotifiedOnce
<1>2. CASE down' = down /\ shown' = shown
  BY <1>0, <1>2 DEF FreshMessage
<1>3. CASE down # <<>> /\ down' = Tail(down)
  <2>1. /\ NotifiedOnce(down', resent') /\ Carried(down') \subseteq Carried(down)
        /\ \A m \in Carried(down') :
             m.type = "notification" /\ Head(down).type = "notification" /\ m.id = Head(down).id
               => m.id \in resent'
    BY <1>0, <1>3, OnceTail, CarriedTail
  <2>2. ASSUME NEW m \in Carried(down'), m.type = "notification" PROVE FreshMessage(m)'
    <3>1. m.id \in published' /\ (m.id \in shown => m.id \in resent')
      BY <1>0, <2>1, <2>2 DEF FreshMessage
    <3>2. shown' = shown \/ (/\ Head(down).type = "notification"
                             /\ shown' = shown \cup {Head(down).id})
      BY ShownStep
    <3> QED
      BY <2>1, <2>2, <3>1, <3>2 DEF FreshMessage
  <2> QED
    BY <2>1, <2>2 DEF FreshMessage
<1>4. ASSUME NEW n, NewMessage(n), down' = Append(down, n), shown' = shown
      PROVE  (\A m \in Carried(down') : FreshMessage(m)') /\ NotifiedOnce(down', resent')
  <2>1. n.type = "notification" =>
          n.id \in published' /\ (n.id \notin published \/ n.id \in resent')
    BY <1>4 DEF NewMessage
  <2>2. Carried(down') = Carried(down) \cup {n}
    BY <1>0, <1>4, CarriedAppend
  <2>3. NotifiedOnce(down', resent')
    BY <1>0, <1>4, <2>1, OnceAppend DEF FreshMessage
  <2>4. ASSUME NEW m \in Carried(down') PROVE FreshMessage(m)'
    BY <1>0, <1>4, <2>1, <2>2 DEF FreshMessage
  <2> QED
    BY <2>3, <2>4
<1> QED
  BY <1>1, <1>2, <1>3, <1>4, DownStep, ShownStep

\* A copy that arrives is the first that is shown, or the PUBLISH was sent again.
LEMMA ArrivesAgain ==
  ASSUME Typed, NotificationsFresh, NEW i \in Id, Arrives(i), i \in shown
  PROVE  i \in resent
<1>1. Head(down) \in Carried(down)
  BY CarriedTail DEF Arrives, Typed, WorldTyped
<1> QED
  BY <1>1 DEF Arrives, NotificationsFresh

\* The number of copies grows only when one arrives.
LEMMA MoreCopies ==
  ASSUME Typed, [Next]_vars, NEW i \in Id, ~Arrives(i)
  PROVE  Len(items'[i]) = Len(items[i]) \/ Len(items'[i]) = 0
BY NextItem DEF ItemStep, Kept, SameCopies, AllBecome, Disposes, GetsAnswered, AckedExpired,
   RunsOut, GetsRead, GetsDismissed

LEMMA NextFresh ==
  ASSUME Typed, NotificationsFresh, [Next]_vars
  PROVE  NotificationsFresh'
<1>0. Typed' /\ shown \subseteq shown' /\ resent \subseteq resent' /\ published \subseteq published'
  BY NextTyped, HistoryGrows
<1>1. shown' \subseteq published'
  <2>1. CASE shown' = shown
    BY <1>0, <2>1 DEF NotificationsFresh
  <2>2. CASE /\ down # <<>> /\ Head(down).type = "notification"
             /\ shown' = shown \cup {Head(down).id}
    BY <1>0, <2>2, CarriedTail DEF NotificationsFresh, Typed, WorldTyped
  <2> QED
    BY <2>1, <2>2, ShownStep
<1>2. ASSUME NEW i \in Id
      PROVE  /\ Len(items'[i]) > 0 => i \in shown'
             /\ Len(items'[i]) > 1 => i \in resent'
  <2>1. /\ Len(items[i]) \in Nat
        /\ Len(items[i]) > 0 => i \in shown
        /\ Len(items[i]) > 1 => i \in resent
    BY Numbers DEF NotificationsFresh
  <2>2. CASE Arrives(i)
    <3>1. Len(items'[i]) = Len(items[i]) + 1 /\ i \in shown'
      BY <2>2 DEF Arrives
    <3>2. Len(items[i]) > 0 => i \in resent
      BY <2>1, <2>2, ArrivesAgain
    <3> QED
      BY <1>0, <2>1, <3>1, <3>2
  <2>3. CASE ~Arrives(i)
    BY <1>0, <2>1, <2>3, MoreCopies
  <2> QED
    BY <2>2, <2>3
<1>3. \A i \in Id : Shown(i)' <=> Len(items'[i]) > 0
  <2>1. \A i \in Id : items'[i] \in Seq(Status)
    BY <1>0 DEF Typed, StoreTyped
  <2> QED
    BY <2>1 DEF Shown
<1> QED
  BY <1>1, <1>2, <1>3, NextDown DEF NotificationsFresh, FreshMessage

FreshInv == Typed /\ NotificationsFresh

LEMMA FreshInvariant == Spec => []FreshInv
<1>1. Init => FreshInv
  <2> SUFFICES ASSUME Init PROVE NotificationsFresh
    BY InitTyped DEF FreshInv
  <2> QED
    BY CarriedNothing DEF Init, NotificationsFresh, NotifiedOnce, Shown
<1>2. FreshInv /\ [Next]_vars => FreshInv'
  BY NextTyped, NextFresh DEF FreshInv
<1> QED
  BY <1>1, <1>2, PTL DEF Spec

\* A copy that is closed stays closed.
LEMMA ClosedStays ==
  ASSUME Typed, [Next]_vars, NEW i \in Id, NEW n \in Copies(i), n \in 1..Len(items'[i]),
         items[i][n] \in Closed
  PROVE  items'[i][n] \in Closed
<1>0. Len(items[i]) \in Nat
  BY Numbers
<1>1. CASE Arrives(i)
  BY <1>0, <1>1 DEF Arrives, Closed, Copies
<1>2. CASE Kept(i) \/ Disposes(i) \/ GetsAnswered(i) \/ AckedExpired(i) \/ RunsOut(i)
  BY <1>2 DEF Kept, Disposes, GetsAnswered, AckedExpired, RunsOut, SameCopies, AllBecome, Closed
<1>3. CASE GetsRead(i) \/ GetsDismissed(i)
  BY <1>3 DEF GetsRead, GetsDismissed, Closed
<1> QED
  BY <1>1, <1>2, <1>3, NextItem DEF ItemStep

\* What was answered and turns into expired was too late, or came twice.
LEMMA AnsweredExpires ==
  ASSUME FreshInv, NewestIsOpen, [Next]_vars, NEW i \in Id, NEW n \in Copies(i),
         n \in 1..Len(items'[i]), items[i][n] = "answered", items'[i][n] = "expired"
  PROVE  LateAnswer(i) \/ i \in resent
<1>0. /\ Typed /\ NotificationsFresh
      /\ Len(items[i]) \in Nat /\ n \in 1..Len(items[i]) /\ Len(items[i]) > 0
      /\ Len(items[i]) > 1 => i \in resent
      /\ i \in shown
  BY Numbers DEF FreshInv, NotificationsFresh, Copies
<1>1. CASE Arrives(i)
  BY <1>0, <1>1, ArrivesAgain
<1>2. CASE AckedExpired(i)
  <2>1. Len(Tail(down)) < Len(down) /\ down' = Tail(down)
    BY <1>0, <1>2, Handled DEF AckedExpired, Typed, WorldTyped
  <2> QED
    BY <1>2, <2>1 DEF AckedExpired, LateAnswer
<1>3. CASE RunsOut(i)
  <2>1. ~SameCopies(i)
    BY DEF SameCopies
  <2>2. Newest(i) \in Open
    BY <1>3, <2>1 DEF RunsOut
  <2>3. n # Len(items[i])
    BY <2>2, StatusesApart DEF Newest
  <2> QED
    BY <1>0, <2>3
<1>4. ~Kept(i) /\ ~Disposes(i) /\ ~GetsAnswered(i) /\ ~GetsRead(i) /\ ~GetsDismissed(i)
  BY DEF Kept, Disposes, GetsAnswered, GetsRead, GetsDismissed, SameCopies, AllBecome
<1> QED
  BY <1>0, <1>1, <1>2, <1>3, <1>4, NextItem DEF ItemStep

\* The status of a copy never goes back, whatever order messages, timers and
\* the application's calls come in and however often ioredis sends a PUBLISH
\* again; only the server's word or a second copy turns an answered copy into
\* an expired one, and there is a second copy only of what was sent again.
THEOREM StatusNeverGoesBack == Spec => StatusOnlyAdvances
<1> DEFINE Advances(i) ==
      /\ \A n \in DOMAIN items[i] \cap DOMAIN items'[i] :
           /\ items[i][n] \in Closed => items'[i][n] \in Closed
           /\ items[i][n] = "answered" /\ items'[i][n] = "expired" =>
                LateAnswer(i) \/ i \in resent
      /\ i \in shown /\ Len(items'[i]) > Len(items[i]) => i \in resent
<1> DEFINE I == FreshInv /\ NewestIsOpen
<1>1. ASSUME I, [Next]_vars, NEW i \in Id PROVE Advances(i)
  <2>0. /\ Typed /\ NotificationsFresh /\ DOMAIN items[i] = Copies(i)
        /\ DOMAIN items'[i] = 1..Len(items'[i]) /\ Len(items[i]) \in Nat
    BY <1>1, Numbers, NextTyped DEF FreshInv, Typed, StoreTyped
  <2>1. \A n \in DOMAIN items[i] \cap DOMAIN items'[i] :
          items[i][n] \in Closed => items'[i][n] \in Closed
    BY <1>1, <2>0, ClosedStays
  <2>2. \A n \in DOMAIN items[i] \cap DOMAIN items'[i] :
          items[i][n] = "answered" /\ items'[i][n] = "expired" => LateAnswer(i) \/ i \in resent
    BY <1>1, <2>0, AnsweredExpires
  <2>3. i \in shown /\ Len(items'[i]) > Len(items[i]) => i \in resent
    BY <1>1, <2>0, MoreCopies, ArrivesAgain
  <2> QED
    BY <2>1, <2>2, <2>3
<1>2. I /\ [Next]_vars => \A i \in Id : Advances(i)
  BY <1>1
<1>3. Init => NewestIsOpen
  BY DEF Init, NewestIsOpen, Copies
<1>4. FreshInv /\ NewestIsOpen /\ [Next]_vars => NewestIsOpen'
  BY NextNewest DEF FreshInv
<1> QED
  BY <1>2, <1>3, <1>4, FreshInvariant, PTL DEF Spec, StatusOnlyAdvances

-----------------------------------------------------------------------------
\* A provider that is mounted once

\* Without a second mount nobody opens a connection for a disposed store.
DisposedIsClosed == disposed => state = "closed"

LEMMA NextDisposed ==
  ASSUME Remounts = FALSE, Typed, DisposedIsClosed, [Next]_vars
  PROVE  DisposedIsClosed'
<1>1. CASE Unmount
  BY <1>1 DEF Unmount, CloseClient, DisposedIsClosed
<1>2. CASE HandleMessage
  BY <1>2, Handled DEF DisposedIsClosed
<1>3. CASE StoreNext /\ ~HandleMessage /\ ~Unmount
  BY <1>3, MethodLeaves DEF StoreNext, Respond, clientVars, DisposedIsClosed
<1>4. CASE OutsideNext
  <2>1. disposed' = disposed
    BY <1>4, OutsideIsOutside DEF OutsideStep, storeVars
  <2>2. CASE Mount \/ SocketOpens \/ SocketLost
    BY <2>1, <2>2 DEF Mount, SocketOpens, SocketLost, DisposedIsClosed
  <2>3. ASSUME NEW k \in Call, LoseFrame(k) \/ AnswerStep(k) PROVE state' = state
    BY <2>3 DEF LoseFrame, AnswerStep, AckExpired, AskClaim, Accept,
       AlreadyAnswered, ClaimUnheard, ClaimError, clientVars
  <2>4. ASSUME NEW i \in Id, Notify(i) \/ Resend(i) \/ AnsweredElsewhere(i) \/ RelayResolved(i)
        PROVE  state' = state
    BY <2>4 DEF Notify, Resend, AnsweredElsewhere, RelayResolved, clientVars
  <2>5. CASE Tick \/ UNCHANGED vars
    BY <2>1, <2>5 DEF Tick, vars, clientVars, DisposedIsClosed
  <2> QED
    BY <1>4, <2>1, <2>2, <2>3, <2>4, <2>5 DEF OutsideNext, DisposedIsClosed
<1> QED
  BY <1>1, <1>2, <1>3, <1>4, NextParts

LEMMA NextAcked ==
  ASSUME Typed, DisposedIsClosed, ShownIfDelivered, [Next]_vars
  PROVE  ShownIfDelivered'
<1>1. acked' = acked \/ \E i : acked' = acked \cup {i} /\ i \in shown'
  <2>1. CASE HandleMessage
    <3>1. state = "open" /\ ~disposed
      BY <2>1, Handled DEF DisposedIsClosed
    <3> QED
      BY <2>1, <3>1, Handled DEF OnNotification, NewItem, OnResolved, OnActionAck
  <2>2. CASE StoreNext /\ ~HandleMessage
    BY <2>2, MethodLeaves DEF StoreNext, Respond, Unmount
  <2>3. CASE OutsideNext
    BY <2>3, OutsideIsOutside DEF OutsideStep
  <2> QED
    BY <2>1, <2>2, <2>3, NextParts
<1> QED
  BY <1>1, HistoryGrows DEF ShownIfDelivered

LEMMA DisposedInvariant ==
  ASSUME Remounts = FALSE
  PROVE  Spec => []DisposedIsClosed
<1> DEFINE I == Typed /\ DisposedIsClosed
<1>1. Init => I
  BY InitTyped DEF Init, DisposedIsClosed
<1>2. I /\ [Next]_vars => I'
  BY NextTyped, NextDisposed
<1>3. I => DisposedIsClosed
  OBVIOUS
<1> QED
  BY <1>1, <1>2, <1>3, PTL DEF Spec

\* The server is told 'ack' only of notifications that the inbox showed, if
\* the provider's effect runs once: MCStoreRemount shows that a second run
\* breaks it.
THEOREM DeliveredWasShown ==
  ASSUME Remounts = FALSE
  PROVE  Spec => []ShownIfDelivered
<1> DEFINE I == Typed /\ DisposedIsClosed /\ ShownIfDelivered
<1>1. Init => ShownIfDelivered
  BY DEF Init, ShownIfDelivered
<1>2. Typed /\ DisposedIsClosed /\ ShownIfDelivered /\ [Next]_vars => ShownIfDelivered'
  BY NextAcked
<1> QED
  BY <1>1, <1>2, TypedInvariant, DisposedInvariant, PTL DEF Spec

-----------------------------------------------------------------------------
\* No promise is forgotten

\* A promise that waits is in the Map, or a later call took its place there.
WaitersKnown ==
  \A k \in Call : promise[k] = "waiting" =>
                    Superseded(k) \/ pendingResponses[KeyOf(k)] = k

\* A superseded call stays superseded while calls are only added.
LEMMA SupersededStays ==
  ASSUME NEW k \in Call, Superseded(k), call'[k] = call[k],
         \A j \in Call : call[j] # NothingAsked => call'[j] = call[j]
  PROVE  Superseded(k)'
BY DEF Superseded, KeyOf

LEMMA RespondWaiters ==
  ASSUME Typed, WaitersKnown,
         NEW n \in Call, NEW i \in Id, NEW a \in Action, Respond(n, i, a)
  PROVE  WaitersKnown'
<1>1. /\ promise[n] = "none" /\ \A j \in Call : j < n => promise[j] # "none"
      /\ call' = [call EXCEPT ![n] = [id |-> i, action |-> a, conn |-> conn]]
      /\ pendingResponses' = [pendingResponses EXCEPT ![<<i, a>>] = n]
      /\ promise' = [promise EXCEPT ![n] = "waiting"]
  BY DEF Respond, PendingKey
<1>2. call'[n].id = i /\ call'[n].action = a /\ call'[n] # NothingAsked
  <2>1. conn # 0
    BY DEF Respond, Typed, WorldTyped, ConnKnown
  <2>2. call'[n] = [id |-> i, action |-> a, conn |-> conn]
    BY <1>1 DEF Typed, WorldTyped
  <2> QED
    BY <2>1, <2>2 DEF NothingAsked
<1>3. KeyOf(n)' = <<i, a>>
  BY <1>2 DEF KeyOf, PendingKey
<1> SUFFICES ASSUME NEW k \in Call, promise'[k] = "waiting"
             PROVE  Superseded(k)' \/ pendingResponses'[KeyOf(k)'] = k
  BY DEF WaitersKnown
<1>4. CASE k = n
  BY <1>1, <1>3, <1>4 DEF Typed, StoreTyped
<1>5. CASE k # n
  <2>1. promise[k] = "waiting" /\ call'[k] = call[k] /\ KeyOf(k)' = KeyOf(k)
    BY <1>1, <1>5 DEF Typed, StoreTyped, WorldTyped, KeyOf, PendingKey
  <2>2. \A j \in Call : call[j] # NothingAsked => call'[j] = call[j]
    BY <1>1 DEF Typed, CallsInOrder, WorldTyped
  <2>3. k < n
    <3>1. k \in Nat /\ n \in Nat
      BY BoundsAreNat DEF Call
    <3>2. ~(n < k)
      BY <1>1, <2>1 DEF Typed, CallsInOrder
    <3> QED
      BY <1>5, <3>1, <3>2
  <2>4. KeyOf(k) \in Id \X Action
    BY <2>1 DEF Typed, CallsInOrder, Asked, KeyOf, PendingKey
  <2>5. CASE KeyOf(k) = <<i, a>>
    BY <1>2, <1>3, <2>1, <2>3, <2>5 DEF Superseded
  <2>6. CASE KeyOf(k) # <<i, a>>
    <3>1. pendingResponses'[KeyOf(k)'] = pendingResponses[KeyOf(k)]
      BY <1>1, <2>1, <2>4, <2>6 DEF Typed, StoreTyped
    <3> QED
      BY <2>1, <2>2, <3>1, SupersededStays DEF WaitersKnown
  <2> QED
    BY <2>5, <2>6
<1> QED
  BY <1>4, <1>5

LEMMA NextWaiters ==
  ASSUME Typed, WaitersKnown, [Next]_vars
  PROVE  WaitersKnown'
<1>1. ASSUME call' = call,
             \A k \in Call : promise'[k] = "waiting" =>
               /\ promise[k] = "waiting"
               /\ pendingResponses[KeyOf(k)] = k => pendingResponses'[KeyOf(k)] = k
      PROVE  WaitersKnown'
  BY <1>1 DEF WaitersKnown, Superseded, KeyOf
<1>2. CASE HandleMessage
  <2> DEFINE m == Head(down)
  <2>1. call' = call
    BY <1>2, Handled
  <2>2. CASE UNCHANGED <<promise, pendingResponses>>
    BY <1>1, <2>1, <2>2
  <2>3. CASE /\ m.id \in Id /\ m.action \in Action /\ m.status \in Result
             /\ promise' = Resolved(m)
             /\ pendingResponses' =
                  [pendingResponses EXCEPT ![PendingKey(m.id, m.action)] = NoCall]
    <3> SUFFICES ASSUME NEW k \in Call, promise'[k] = "waiting"
                 PROVE  /\ promise[k] = "waiting"
                        /\ pendingResponses[KeyOf(k)] = k => pendingResponses'[KeyOf(k)] = k
      BY <1>1, <2>1
    <3>1. k # pendingResponses[PendingKey(m.id, m.action)] /\ promise[k] = "waiting"
      BY <2>3 DEF Resolved, Result
    <3>2. KeyOf(k) \in Id \X Action
      BY <3>1 DEF Typed, CallsInOrder, Asked, KeyOf, PendingKey
    <3> QED
      BY <2>3, <3>1, <3>2 DEF Typed, StoreTyped
  <2> QED
    BY <1>2, <2>2, <2>3, Handled DEF OnNotification, OnResolved, OnActionAck
<1>3. CASE Unmount
  <2>1. CASE disposed
    BY <1>1, <1>3, <2>1 DEF Unmount, Dispose, storeVars
  <2>2. CASE ~disposed
    <3>1. call' = call /\ promise' = DisposedPromises
      BY <1>3, <2>2 DEF Unmount, Dispose
    <3> SUFFICES ASSUME NEW k \in Call, promise'[k] = "waiting"
                 PROVE  promise[k] = "waiting" /\ pendingResponses[KeyOf(k)] # k
      BY <1>1, <3>1
    <3>2. promise[k] = "waiting" /\ ~\E key \in Id \X Action : pendingResponses[key] = k
      BY <3>1 DEF DisposedPromises
    <3>3. KeyOf(k) \in Id \X Action
      BY <3>2 DEF Typed, CallsInOrder, Asked, KeyOf, PendingKey
    <3> QED
      BY <3>2, <3>3
  <2> QED
    BY <2>1, <2>2
<1>4. CASE MethodStep
  BY <1>1, <1>4, MethodLeaves
<1>5. CASE OutsideNext
  BY <1>1, <1>5, OutsideIsOutside DEF OutsideStep, storeVars
<1> QED
  BY <1>2, <1>3, <1>4, <1>5, RespondWaiters, NextParts DEF StoreNext

\* After dispose() the Map is empty and stays so while nobody can call.
DisposedForgets ==
  disposed => \A key \in Id \X Action : pendingResponses[key] = NoCall

LEMMA NextDisposedForgets ==
  ASSUME Typed, DisposedIsClosed, DisposedForgets, [Next]_vars
  PROVE  DisposedForgets'
<1>1. CASE HandleMessage
  BY <1>1, Handled DEF OnNotification, OnResolved, OnActionAck, DisposedForgets
<1>2. CASE Unmount
  BY <1>2 DEF Unmount, Dispose, storeVars, DisposedForgets
<1>3. ASSUME NEW k \in Call, NEW i \in Id, NEW a \in Action, Respond(k, i, a)
      PROVE  DisposedForgets'
  BY <1>3 DEF Respond, DisposedIsClosed, DisposedForgets
<1>4. CASE MethodStep
  BY <1>4, MethodLeaves DEF DisposedForgets
<1>5. CASE OutsideNext
  BY <1>5, OutsideIsOutside DEF OutsideStep, storeVars, DisposedForgets
<1> QED
  BY <1>1, <1>2, <1>3, <1>4, <1>5, NextParts DEF StoreNext

\* notificationStore.test.ts:242, "settles any pending respond() promise instead
\* of leaving it hanging forever": a promise that nothing will resolve any more
\* is one whose action was asked for again, if the provider's effect runs once.
THEOREM PromisesNotForgotten ==
  ASSUME Remounts = FALSE
  PROVE  Spec => []NoneForgotten
<1> DEFINE I == Typed /\ DisposedIsClosed /\ WaitersKnown /\ DisposedForgets
<1>1. Init => I
  BY InitTyped DEF Init, DisposedIsClosed, WaitersKnown, DisposedForgets
<1>2. I /\ [Next]_vars => I'
  BY NextTyped, NextDisposed, NextWaiters, NextDisposedForgets
<1>3. I => NoneForgotten
  <2> SUFFICES ASSUME I, NEW k \in Call, promise[k] = "waiting", ~Superseded(k)
               PROVE  ~disposed /\ pendingResponses[KeyOf(k)] = k
    BY DEF NoneForgotten
  <2>1. pendingResponses[KeyOf(k)] = k
    BY DEF WaitersKnown
  <2>2. KeyOf(k) \in Id \X Action /\ k # NoCall
    BY BoundsAreNat DEF Typed, CallsInOrder, Asked, KeyOf, PendingKey, Call, NoCall
  <2> QED
    BY <2>1, <2>2 DEF DisposedForgets
<1> QED
  BY <1>1, <1>2, <1>3, PTL DEF Spec
=============================================================================
