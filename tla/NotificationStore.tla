------------------------- MODULE NotificationStore -------------------------
(***************************************************************************)
(* The inbox of one browser tab: createNotificationStore()                 *)
(* (notificationStore.ts) on the messages of its client (client.ts,        *)
(* handleMessage()), owned by a NetiflyProvider (NetiflyProvider.tsx), with *)
(* the server's side of the frames it sends.  The connection itself is the *)
(* subject of NetiflyClient, the lock on answers that of ActionAnswer: here *)
(* both are reduced to what the store can see of them.  A PUBLISH that     *)
(* ioredis sends again may reach the tab twice.                            *)
(*                                                                         *)
(* A call is one call of respond() and the promise it returned.  The       *)
(* 'read' frames are left out: nothing the store or the server's core does *)
(* depends on them.                                                        *)
(***************************************************************************)
EXTENDS Integers, Sequences

CONSTANTS Id,          \* notifications, by the id of their envelope
          Actionable,  \* those of kind 'action'
          Action,      \* what they can be answered with
          Expiry,      \* [Id -> Nat], its expiresAt; NoExpiry if it has none
          TimeoutMax,  \* the longest delay setTimeout() can count
          Remounts,    \* may the provider's effect run again after its cleanup?
          MaxCalls, MaxConns, MaxTime, MaxResends   \* bounds

NoExpiry == 0
NoTimer == 0
NoCall == 0
NoEntry == 0
Call == 1..MaxCalls

ASSUME StoreAssumption ==
  /\ Expiry \in [Id -> Nat]
  /\ Actionable \subseteq {i \in Id : Expiry[i] # NoExpiry}
  /\ TimeoutMax \in Nat \ {0}
  /\ Remounts \in BOOLEAN
  /\ {MaxCalls, MaxConns, MaxTime, MaxResends} \subseteq Nat

VARIABLES now,        \* Date.now(), here and on the server
          mounted,    \* the provider's effect has run and its cleanup has not
          disposed,   \* NotificationStore.disposed
          state,      \* client.state, with 'reconnecting' as "connecting"
          conn,       \* the number of the client's current connection
          down,       \* Seq(message), on their way on that connection
          items,      \* [Id -> Seq(status)], an item per copy that came, newest last
          timers,     \* [Id -> Seq(due)], the timer of each copy, NoTimer if not running
          expiryTimers,     \* [Id -> number of the timer the Map holds]
          pendingResponses,
          call,       \* [Call -> what respond() was called with, and when]
          promise,    \* [Call -> what it returned has resolved to]
          frame,      \* [Call -> how far the server is with its frame]
          acked,      \* those an 'ack' frame was sent for; it may be lost
          published,  \* the notifications notify() was called for
          resends,    \* how often ioredis sent a PUBLISH again
          resent,     \* the notifications it did so for: history
          answered,   \* those with an accepted answer, of whichever tab
          orphaned,   \* those whose key was set by a claim whose reply was lost
          accepted,   \* <<id, action>> of this tab that were accepted
          resolving,  \* netifly.notification.resolved being published
          shown       \* every id ever put in items: history

storeVars == <<disposed, items, timers, expiryTimers, pendingResponses, promise, shown>>
clientVars == <<mounted, state, conn, down>>
lockVars == <<answered, orphaned, accepted>>
relayVars == <<published, resends, resent, resolving>>
serverVars == <<frame, lockVars, relayVars>>
vars == <<now, storeVars, clientVars, serverVars, call, acked>>

\* What call[k] is before, or without, a frame.
NothingAsked == [id |-> "none", action |-> "none", conn |-> 0]

Open == {"unread", "read"}
Closed == {"answered", "expired"}
Result == {"accepted", "already_answered", "expired", "invalid"}
Message ==
       [type : {"notification", "resolved"}, id : Id]
  \cup [type : {"actionAck"}, id : Id, action : Action, status : Result]

TypeOK ==
  /\ now \in Nat
  /\ {mounted, disposed} \subseteq BOOLEAN
  /\ state \in {"closed", "connecting", "open"}
  /\ conn \in 0..MaxConns
  /\ down \in Seq(Message)
  /\ items \in [Id -> Seq(Open \cup Closed)]
  /\ timers \in [Id -> Seq(Nat)]
  /\ expiryTimers \in [Id -> Nat]
  /\ \A i \in Id : expiryTimers[i] \in {NoEntry} \cup DOMAIN timers[i]
  /\ pendingResponses \in [Id \X Action -> Call \cup {NoCall}]
  /\ call \in [Call -> [id : Id, action : Action, conn : 1..MaxConns] \cup {NothingAsked}]
  /\ promise \in [Call -> {"none", "waiting"} \cup Result]
  /\ frame \in [Call -> {"none", "sent", "claiming", "done", "lost"}]
  /\ resends \in 0..MaxResends
  /\ {acked, published, resent, answered, orphaned, resolving, shown} \subseteq SUBSET Id
  /\ accepted \subseteq Id \X Action

Init ==
  /\ now = 1
  /\ mounted = FALSE /\ disposed = FALSE
  /\ state = "closed" /\ conn = 0 /\ down = <<>>
  /\ items = [i \in Id |-> <<>>]
  /\ timers = [i \in Id |-> <<>>]
  /\ expiryTimers = [i \in Id |-> NoEntry]
  /\ pendingResponses = [k \in Id \X Action |-> NoCall]
  /\ call = [k \in Call |-> NothingAsked]
  /\ promise = [k \in Call |-> "none"]
  /\ frame = [k \in Call |-> "none"]
  /\ acked = {}
  /\ published = {} /\ resolving = {} /\ resends = 0 /\ resent = {}
  /\ answered = {} /\ orphaned = {} /\ accepted = {}
  /\ shown = {}

-----------------------------------------------------------------------------
\* Helpers of the store

Shown(i) == items[i] # <<>>

\* items.find() finds the copy that came last.
Newest(i) == items[i][Len(items[i])]

\* The timers with the one that the Map holds for an id of S cleared.
Cleared(S) ==
  [i \in Id |-> [n \in 1..Len(timers[i]) |->
                   IF i \in S /\ n = expiryTimers[i] THEN NoTimer ELSE timers[i][n]]]

PendingKeyById(i, a) == <<i, CHOOSE b \in Action : TRUE>>   \* Seeded fault
PendingKey(i, a) == <<i, a>>
KeyOf(k) == PendingKey(call[k].id, call[k].action)

\* markStatus() changes every copy that is there, whatever its status.
AllAs(copies, s) == [n \in 1..Len(copies) |-> s]
MarkStatus(i, s) == items' = [items EXCEPT ![i] = AllAs(@, s)]

\* scheduleExpiry(): delay <= 0, else when the timer is due.  setTimeout()
\* keeps its delay in 32 bits and runs at once what it cannot count.
OverdueSwapped(i) == Expiry[i] # NoExpiry /\ now - Expiry[i] <= 0   \* Seeded fault
Overdue(i) == Expiry[i] # NoExpiry /\ Expiry[i] - now <= 0
Due(i) == IF Expiry[i] - now > TimeoutMax THEN now + 1 ELSE Expiry[i]

-----------------------------------------------------------------------------
\* handleMessage() and the store's handlers

\* setItems([item, ...items]) and scheduleExpiry(): a second copy is an item
\* of its own, and its timer takes the place of the first one's in the Map,
\* which goes on running.  A copy that comes too late has all of them expire.
NewItem(i) ==
  /\ items' = [items EXCEPT ![i] = IF Overdue(i) THEN AllAs(Append(@, "unread"), "expired")
                                                 ELSE Append(@, "unread")]
  /\ timers' = [timers EXCEPT ![i] = Append(@, IF Expiry[i] = NoExpiry \/ Overdue(i)
                                                 THEN NoTimer ELSE Due(i))]
  /\ expiryTimers' =
       [expiryTimers EXCEPT ![i] = IF Expiry[i] = NoExpiry \/ Overdue(i)
                                     THEN NoEntry ELSE Len(timers[i]) + 1]
  /\ shown' = shown \cup {i}

\* The client acks every 'netifly.notification', whoever listens.
OnNotification(i) ==
  /\ acked' = acked \cup {i}
  /\ IF disposed THEN UNCHANGED <<items, timers, expiryTimers, shown>> ELSE NewItem(i)
  /\ UNCHANGED <<pendingResponses, promise>>

\* Seeded fault: nobody is told if the item was dismissed.
ResolvedIfShown(m) ==
  [j \in Call |-> IF Shown(m.id) /\ j = pendingResponses[PendingKey(m.id, m.action)]
                  THEN m.status ELSE promise[j]]

\* The promise that waits for an ack of this notification and action.
Resolved(m) ==
  [j \in Call |-> IF j = pendingResponses[PendingKey(m.id, m.action)]
                  THEN m.status ELSE promise[j]]

AckedAsItCame(m) == MarkStatus(m.id, m.status)                      \* Seeded fault
Acked(m) ==
  CASE m.status \in {"accepted", "already_answered"} -> MarkStatus(m.id, "answered")
    [] m.status = "expired" -> MarkStatus(m.id, "expired")
    [] OTHER -> UNCHANGED items

OnActionAck(m) ==
  /\ IF disposed
       THEN UNCHANGED <<items, pendingResponses, promise>>
       ELSE /\ promise' = Resolved(m)
            /\ pendingResponses' = [pendingResponses EXCEPT ![PendingKey(m.id, m.action)] = NoCall]
            /\ Acked(m)
  /\ UNCHANGED <<timers, expiryTimers, shown, acked>>

OnResolved(i) ==
  /\ IF disposed THEN UNCHANGED items ELSE MarkStatus(i, "answered")
  /\ UNCHANGED <<timers, expiryTimers, pendingResponses, promise, shown, acked>>

HandleMessage ==
  /\ state = "open" /\ down # <<>>
  /\ down' = Tail(down)
  /\ LET m == Head(down)
     IN  CASE m.type = "notification" -> OnNotification(m.id)
           [] m.type = "actionAck" -> OnActionAck(m)
           [] m.type = "resolved" -> OnResolved(m.id)
  /\ UNCHANGED <<now, disposed, mounted, state, conn, serverVars, call>>

-----------------------------------------------------------------------------
\* The store's timers and methods

\* Seeded fault: only an unread notification expires.
TimerFiresUnread(i, n) ==
  /\ timers[i][n] # NoTimer /\ now >= timers[i][n]
  /\ timers' = [timers EXCEPT ![i][n] = NoTimer]
  /\ expiryTimers' = [expiryTimers EXCEPT ![i] = NoEntry]
  /\ IF Shown(i) /\ Newest(i) = "unread" THEN MarkStatus(i, "expired") ELSE UNCHANGED items
  /\ UNCHANGED <<now, disposed, pendingResponses, promise, shown, clientVars,
                 serverVars, call, acked>>

\* expire(), which deletes the Map's entry, whichever timer it holds.
TimerFires(i, n) ==
  /\ timers[i][n] # NoTimer /\ now >= timers[i][n]
  /\ timers' = [timers EXCEPT ![i][n] = NoTimer]
  /\ expiryTimers' = [expiryTimers EXCEPT ![i] = NoEntry]
  /\ IF Shown(i) /\ Newest(i) \in Open THEN MarkStatus(i, "expired") ELSE UNCHANGED items
  /\ UNCHANGED <<now, disposed, pendingResponses, promise, shown, clientVars,
                 serverVars, call, acked>>

ReadWhateverItWas(S) == [i \in Id |-> IF i \in S THEN AllAs(items[i], "read") ELSE items[i]]  \* Seeded fault
ReadOf(S) ==
  [i \in Id |-> [n \in 1..Len(items[i]) |->
                   IF i \in S /\ items[i][n] = "unread" THEN "read" ELSE items[i][n]]]

\* Any id will do: it need not be one that is, or ever was, in the inbox.
MarkRead(i) ==
  /\ state = "open"
  /\ items' = ReadOf({i})
  /\ UNCHANGED <<now, disposed, timers, expiryTimers, pendingResponses, promise, shown,
                 clientVars, serverVars, call, acked>>

MarkAllRead ==
  /\ state = "open"
  /\ \E i \in Id : \E n \in DOMAIN items[i] : items[i][n] = "unread"
  /\ items' = ReadOf(Id)
  /\ UNCHANGED <<now, disposed, timers, expiryTimers, pendingResponses, promise, shown,
                 clientVars, serverVars, call, acked>>

\* Clears the timer that the Map holds; that of an earlier copy goes on.
Dismiss(i) ==
  /\ Shown(i)
  /\ items' = [items EXCEPT ![i] = <<>>]
  /\ timers' = Cleared({i})
  /\ expiryTimers' = [expiryTimers EXCEPT ![i] = NoEntry]
  /\ UNCHANGED <<now, disposed, pendingResponses, promise, shown, clientVars,
                 serverVars, call, acked>>

\* A second call for the same action takes the first one's place in the Map.
\* A call with an unknown id, or without a connection, changes nothing: its
\* promise is resolved to 'invalid' at once.
Respond(k, i, a) ==
  /\ promise[k] = "none" /\ \A j \in Call : j < k => promise[j] # "none"
  /\ Shown(i) /\ i \in Actionable /\ state = "open"
  /\ call' = [call EXCEPT ![k] = [id |-> i, action |-> a, conn |-> conn]]
  /\ pendingResponses' = [pendingResponses EXCEPT ![PendingKey(i, a)] = k]
  /\ promise' = [promise EXCEPT ![k] = "waiting"]
  /\ frame' = [frame EXCEPT ![k] = "sent"]
  /\ UNCHANGED <<now, disposed, items, timers, expiryTimers, shown, clientVars,
                 lockVars, relayVars, acked>>

-----------------------------------------------------------------------------
\* The provider

\* The effect: client.connect().
Mount ==
  /\ ~mounted /\ conn < MaxConns
  /\ Remounts \/ ~disposed
  /\ mounted' = TRUE
  /\ state' = "connecting" /\ conn' = conn + 1 /\ down' = <<>>
  /\ UNCHANGED <<now, storeVars, serverVars, call, acked>>

CloseClientNot == UNCHANGED <<state, conn, down>>      \* Seeded fault
CloseClient == state' = "closed" /\ down' = <<>> /\ UNCHANGED conn

DisposedPromisesKept == promise                        \* Seeded fault
DisposedPromises ==
  [k \in Call |-> IF \E key \in Id \X Action : pendingResponses[key] = k
                  THEN "invalid" ELSE promise[k]]

\* dispose(), which does nothing the second time.
Dispose ==
  IF disposed
  THEN UNCHANGED storeVars
  ELSE /\ disposed' = TRUE
       /\ timers' = Cleared(Id)
       /\ expiryTimers' = [i \in Id |-> NoEntry]
       /\ promise' = DisposedPromises
       /\ pendingResponses' = [key \in Id \X Action |-> NoCall]
       /\ UNCHANGED <<items, shown>>

\* The effect's cleanup: client.close() and store.dispose().
Unmount ==
  /\ mounted
  /\ mounted' = FALSE
  /\ CloseClient
  /\ Dispose
  /\ UNCHANGED <<now, serverVars, call, acked>>

-----------------------------------------------------------------------------
\* The client's connection, as the store sees it

SocketOpens ==
  /\ state = "connecting"
  /\ state' = "open"
  /\ UNCHANGED <<now, storeVars, mounted, conn, down, serverVars, call, acked>>

\* The client reconnects, or, by the close code, does not.
SocketLost ==
  /\ state # "closed"
  /\ \/ state' = "connecting" /\ conn < MaxConns /\ conn' = conn + 1
     \/ state' = "closed" /\ UNCHANGED conn
  /\ down' = <<>>
  /\ UNCHANGED <<now, storeVars, mounted, serverVars, call, acked>>

-----------------------------------------------------------------------------
\* The server

\* A message for the user reaches this tab, or misses it between two connections.
Push(m) ==
  \/ state = "open" /\ down' = Append(down, m)
  \/ UNCHANGED down

Notification(i) == [type |-> "notification", id |-> i]

\* notify() takes an actionable notification only if it has not expired.
Notify(i) ==
  /\ i \notin published
  /\ i \in Actionable => now < Expiry[i]
  /\ published' = published \cup {i}
  /\ Push(Notification(i))
  /\ UNCHANGED <<now, storeVars, mounted, state, conn, frame, lockVars, resends, resent,
                 resolving, call, acked>>

\* The reply to its PUBLISH was lost with Redis's connection: ioredis sends it
\* again, and nothing in the envelope's way asks whether it came before.
Resend(i) ==
  /\ i \in published /\ resends < MaxResends
  /\ resends' = resends + 1
  /\ resent' = resent \cup {i}
  /\ Push(Notification(i))
  /\ UNCHANGED <<now, storeVars, mounted, state, conn, frame, lockVars, published,
                 resolving, call, acked>>

\* A frame is over the rate limit, or its connection broke before it arrived.
LoseFrame(k) ==
  /\ frame[k] = "sent"
  /\ frame' = [frame EXCEPT ![k] = "lost"]
  /\ UNCHANGED <<now, storeVars, clientVars, lockVars, relayVars, call, acked>>

\* sendActionAck(), on the socket the frame came from.
Ack(k, result) ==
  /\ frame' = [frame EXCEPT ![k] = "done"]
  /\ down' = IF state = "open" /\ conn = call[k].conn
               THEN Append(down, [type |-> "actionAck", id |-> call[k].id,
                                  action |-> call[k].action, status |-> result])
               ELSE down

AckExpired(k) ==
  /\ frame[k] = "sent" /\ now > Expiry[call[k].id]
  /\ Ack(k, "expired")
  /\ UNCHANGED <<now, storeVars, mounted, state, conn, lockVars, relayVars, call, acked>>

AskClaim(k) ==
  /\ frame[k] = "sent" /\ now <= Expiry[call[k].id]
  /\ frame' = [frame EXCEPT ![k] = "claiming"]
  /\ UNCHANGED <<now, storeVars, clientVars, lockVars, relayVars, call, acked>>

\* Those with an `answered:' key in the store.
Locked == answered \cup orphaned

\* The lock is free, or has lapsed with the notification.
Claimable(i) == i \notin Locked \/ now >= Expiry[i]

Accept(k) ==
  /\ frame[k] = "claiming" /\ Claimable(call[k].id)
  /\ answered' = answered \cup {call[k].id}
  /\ accepted' = accepted \cup {<<call[k].id, call[k].action>>}
  /\ resolving' = resolving \cup {call[k].id}
  /\ Ack(k, "accepted")
  /\ UNCHANGED <<now, storeVars, mounted, state, conn, orphaned, published, resends,
                 resent, call, acked>>

AlreadyAnswered(k) ==
  /\ frame[k] = "claiming" /\ call[k].id \in Locked
  /\ Ack(k, "already_answered")
  /\ UNCHANGED <<now, storeVars, mounted, state, conn, lockVars, relayVars, call, acked>>

\* The key is set, the reply to the claim is lost.
Orphan(i) == Claimable(i) /\ orphaned' = orphaned \cup {i}

\* ioredis sends the claim again.
ClaimUnheard(k) ==
  /\ frame[k] = "claiming" /\ Orphan(call[k].id)
  /\ UNCHANGED <<now, storeVars, clientVars, frame, answered, accepted, relayVars,
                 call, acked>>

\* claim() rejects; the key may have been set all the same.
ClaimError(k) ==
  /\ frame[k] = "claiming"
  /\ Orphan(call[k].id) \/ UNCHANGED orphaned
  /\ Ack(k, "invalid")
  /\ UNCHANGED <<now, storeVars, mounted, state, conn, answered, accepted, relayVars,
                 call, acked>>

\* Another tab or device of the user answers.
AnsweredElsewhere(i) ==
  /\ i \in published /\ i \in Actionable /\ i \notin Locked /\ now <= Expiry[i]
  /\ answered' = answered \cup {i}
  /\ resolving' = resolving \cup {i}
  /\ UNCHANGED <<now, storeVars, clientVars, frame, orphaned, accepted, published,
                 resends, resent, call, acked>>

\* This PUBLISH too may be sent again.
RelayResolved(i) ==
  /\ i \in resolving
  /\ \/ resolving' = resolving \ {i} /\ UNCHANGED resends
     \/ resends < MaxResends /\ resends' = resends + 1 /\ UNCHANGED resolving
  /\ Push([type |-> "resolved", id |-> i])
  /\ UNCHANGED <<now, storeVars, mounted, state, conn, frame, lockVars, published,
                 resent, call, acked>>

Tick ==
  /\ now < MaxTime
  /\ now' = now + 1
  /\ UNCHANGED <<storeVars, clientVars, serverVars, call, acked>>

-----------------------------------------------------------------------------
AnswerStep(k) ==
  \/ AckExpired(k) \/ AskClaim(k) \/ Accept(k) \/ AlreadyAnswered(k)
  \/ ClaimUnheard(k) \/ ClaimError(k)

Next ==
  \/ HandleMessage
  \/ \E i \in Id : \/ \E n \in DOMAIN timers[i] : TimerFires(i, n)
                   \/ MarkRead(i) \/ Dismiss(i)
  \/ MarkAllRead
  \/ \E k \in Call : \/ \E i \in Id, a \in Action : Respond(k, i, a)
                     \/ LoseFrame(k) \/ AnswerStep(k)
  \/ Mount \/ Unmount \/ SocketOpens \/ SocketLost
  \/ \E i \in Id : Notify(i) \/ Resend(i) \/ AnsweredElsewhere(i) \/ RelayResolved(i)
  \/ Tick

Spec == Init /\ [][Next]_vars

-----------------------------------------------------------------------------
\* Properties

\* An item is shown as expired only after its expiresAt, unless that was too
\* far away for setTimeout().
ExpiredIsPast ==
  \A i \in Id : \A n \in DOMAIN items[i] :
    items[i][n] = "expired" => now >= Expiry[i] \/ Expiry[i] > TimeoutMax

\* What respond() resolves to is true: this tab's answer with this action was
\* accepted; an answer was, here or on another device, or else the claim whose
\* key stands in the way never heard that it was granted (MCAnswerLost); the
\* answer came after the expiry.
PromiseTellsTruth ==
  \A k \in Call :
    /\ promise[k] = "accepted" => <<call[k].id, call[k].action>> \in accepted
    /\ promise[k] = "already_answered" => call[k].id \in answered \/ call[k].id \in orphaned
    /\ promise[k] = "expired" => now > Expiry[call[k].id]

Superseded(k) == \E j \in Call : j > k /\ call[j] # NothingAsked /\ KeyOf(j) = KeyOf(k)

\* A promise of respond() can be forgotten, to hang for ever, only if the
\* same action was asked for again: notificationStore.test.ts:242.
NoneForgotten ==
  \A k \in Call : promise[k] = "waiting" /\ ~Superseded(k) =>
                    ~disposed /\ pendingResponses[KeyOf(k)] = k

\* The server is told that a notification was delivered only if the inbox
\* showed it.
ShownIfDelivered == acked \subseteq shown

\* The 'expired' ack of an answer that came too late is being handled.
LateAnswer(i) ==
  /\ Len(down') < Len(down)
  /\ Head(down).type = "actionAck" /\ Head(down).id = i /\ Head(down).status = "expired"

\* An item that was answered or has expired is never open again, and one that
\* was answered turns into expired only on the server's word, or with a second
\* copy of the notification.  That copy comes only if its PUBLISH was sent again.
StatusOnlyAdvances ==
  [][\A i \in Id :
       /\ \A n \in DOMAIN items[i] \cap DOMAIN items'[i] :
            /\ items[i][n] \in Closed => items'[i][n] \in Closed
            /\ items[i][n] = "answered" /\ items'[i][n] = "expired" =>
                 LateAnswer(i) \/ i \in resent
       /\ i \in shown /\ Len(items'[i]) > Len(items[i]) => i \in resent]_vars

\* react.md:89: an item turns into expired on its own.  As long as a copy is
\* open to an answer and its store lives, a timer is set for its expiresAt at
\* the latest, whichever timers of other copies were cleared or forgotten.
ExpiryArmed ==
  \A i \in Id : Expiry[i] # NoExpiry /\ ~disposed =>
    \A n \in DOMAIN items[i] : items[i][n] \in Open =>
      \E t \in DOMAIN timers[i] : timers[i][t] \in 1..Expiry[i]
=============================================================================
