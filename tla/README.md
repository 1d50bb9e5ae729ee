# A TLA+ model of Netifly

Netifly pushes messages to users over WebSockets. A user may have many
connections, on many server instances; the instances share nothing but a
pub/sub transport (Redis). This directory models the parts of the code in which
order, concurrency or failure decide the outcome, checks them with TLC, and
proves the safety properties that hold, for every value of the constants, with
TLAPS.

    cd tla
    tlc -workers 2 -config MCServerFaulty.cfg MCNetiflyServer.tla
    tlapm NetiflyServerProofs.tla      # and the seven other *Proofs.tla

Paths below are relative to `packages/`; `netiflyServer.ts` and the files without
a directory are under `core/src/`.

## The system

| Part | State | Operations | What makes it correct |
|---|---|---|---|
| `transports/refCountedTransport.ts` | `refCounts`: user -> number of holders | `subscribe`, `unsubscribe`, `close` (all else passes through) | the raw transport is asked on the first-in and last-out transition only; a channel is subscribed while somebody holds it |
| `transports/redisTransport.ts`, `redisDisconnect.ts` | two ioredis connections, each a queue of unanswered commands | `SUBSCRIBE`, `UNSUBSCRIBE`, `PUBLISH`, `NUMSUB`, `SET NX EX`, `close` | commands of one connection are answered in order; `close` does not hang |
| `transports/memoryTransport.ts` | `subscribers`, `claims` | the same, in one process | behaves like the Redis one |
| `connectionRegistry.ts` | user -> set of WebSockets | `add`, `remove`, `clear` | exactly the live connections |
| `netiflyServer.ts`: lifecycle | `wss.clients`, per connection the closure variable `subscribed`, `closed` | `handleUpgrade`, `registerConnection`, the `close` listener, `disconnect`, `close` | every connection unsubscribes once; `close()` ends and leaves nothing |
| `netiflyServer.ts`: delivery | none | `send`, `sendOr`, `notify`, `notifyOr`, `deliverLocally` | a registered connection gets what is published; `delivered` is true of the facts |
| `netiflyServer.ts`: presence | none | `isOnline`, `whoIsOnline`, `isConnectedHere` | agrees with the connections that exist |
| `netiflyServer.ts`: answers, `actionToken.ts`, `actionSecret.ts` | a lock per notification in the store | `handleActionFrame` | one answer per notification, every frame acknowledged |
| `inboundFrame.ts`, `rateLimiter.ts` | a token bucket per connection | `parseInboundFrame`, `tryRemoveToken` | at most the rate per second, in the long run |
| `heartbeat.ts` | `alive`: socket -> boolean | a timer | a dead socket is terminated within two intervals, a live one never |
| `notification.ts`, `notificationSchema.ts` | none | validation | pure |
| `netiflyPublisher.ts` | `closed`, one connection | `send`, `notify`, `isOnline`, `close` | as the server's |
| `client/src/client.ts`, `reconnect.ts` | `state`, `socket`, `timer`, `attempt`, `generation`, `intentional` | `connect`, `close`, reconnection; messages, auto-ack | one socket at most; `close` is for good; no state is left hanging |
| `react/src/notificationStore.ts`, `NetiflyProvider.tsx` | items, pending responses, expiry timers | `respond`, `markRead`, `dismiss`, `dispose` | an item's status never goes back; a promise settles |
| `express/src/index.ts` | none | passes options on | -- |

How they interact: an HTTP upgrade reaches `handleUpgrade`, which awaits the
application's `resolveUserId` and hands the socket to `ws`; `registerConnection`
awaits `RefCountedTransport.subscribe`, and only then adds the socket to the
registry. A message published by anyone goes to Redis, which pushes it to every
subscribed instance; `deliverLocally` writes it to the registered sockets. The
client's `close` policy reads the close codes that the server's `close` (1012),
`deliverLocally` (1013) and `disconnect` (1005) produce.

What is hard: every `await` lets any other event in. A socket may close while
its `SUBSCRIBE` is in flight, a second connection may count on a subscription
that is about to fail, `close()` may be called in the middle of any of it. On
the client, handlers of the application run in the middle of the client's own
functions and may call it back. `PROJECT.json` lists the hazards by line.

## The modules

An action is the code that runs between two awaits or events: Node and browsers
run it without interruption, and any other action may come next.

**RefCountedTransport** -- `refCounts` is the Map (0 for no entry). `wire[u]` is
the queue of unanswered commands about `u` on the subscriber connection and
`channel` the subscriptions Redis has executed. `Subscribe` and `Unsubscribe` are
the code up to the await, `RawSubscribed`, `RawSubscribeRejected`, ... the answers
with the code that follows in this class. The module has no `Next`: NetiflyServer
conjoins its operations with the steps that call them. `memoryTransport` is the
case in which each command is answered in the next step.

**NetiflyServer** -- one instance. `stage[c]` is the place the handlers of
connection `c` have reached (`resolving` is the await of `resolveUserId`,
`subscribing` that of `subscribe`, `returning` and `failing` the time between a
promise's settling and its continuation, `live` means `subscribed` is true);
`ready[c]` is `ws.readyState`, `registry` the ConnectionRegistry, `phase` the place
`close()` has reached. `tally` counts `connect` minus `disconnect` events, as an
application would. The actions are named after what happens; `PROJECT.json` maps
each to its lines. Two of `ws`'s own rules are modelled as external: it answers 503 after
`wss.close()`, and drops a socket from `wss.clients` on its `close` event.

**SharedSubscription** -- the promise of RefCountedTransport in a few lines: a
channel is open exactly while it has holders. `NetiflyServer!Shared` gives the
refinement mapping: the holders are the connections that still owe an
`unsubscribe`, the channel is open when the commands sent so far leave it
subscribed.

**Delivery** -- NetiflyServer with messages: publications with Redis's receiver
count, pushes on their way, what each socket was sent. `stalled` sockets are those over
`maxBufferedBytes`. `audience` in a publication is history for the
properties and decides nothing.

**Cluster** -- several instances and a publisher over one Redis, for one user. Each
caller has a command connection (`status` says how far each `publish()` is; `CommandsBreak`
is a break with what ioredis then does: send again what had no answer, or reject
it), each instance a subscriber connection (`link`, `channel`, `stale`, `push`). Where
NetiflyServer and Delivery go into the steps of one instance, here an instance has
at most one tab of the user, and its arrival is one step. Its departure is not:
`Disconnect` is the socket's `close` event, which calls UNSUBSCRIBE (`leaving`);
Redis executes it some time later (`Unsubscribed`), and counts the instance until
then. `channel` is what ioredis holds and subscribes to again when the link is
reopened; an UNSUBSCRIBE that waits while the link is down may be rejected
(`UnsubscribeRejected`), and the channel stays (`forsaken`). `Send` is what a server does up to the
await, `Answer` what follows, with `offline()`; an `ack` frame of a tab publishes
a relay (`AckFrame`), which is a message like any other. `owed`, `heard`, `resent`,
`forsaken` are history.

**LiveSocket** -- what time does to open sockets. `now` is the monotonic clock of
`setInterval`, `Wall` is `Date.now()`, which may be set back. `alive[c]` is the
heartbeat's WeakMap, `tokens` and `lastRefillAt` the TokenBucket in units of a
token's 1/`Second`. The clock does not move while something is due (`NothingDue`):
a timely event loop, and peers that answer within `MaxRtt`. `recent`, `inStep`,
`endedBy` are history.

**ActionAnswer** -- the answers to one notification by any number of frames on any
number of instances that share the store. Time is explicit: the token's deadline
is in ticks, the lock's life in whole seconds. A claim may be executed late,
rejected, executed and rejected, or executed and sent again; instances crash.

**NetiflyClient** -- a step of the model is a piece of code between two calls of
application handlers. `todo` is what remains of the synchronous piece being run:
when a handler calls `connect()` or `close()`, that call is put in front of the
rest. An attempt creates at most one socket, named by the attempt's generation.
`reentry` is the set of calls the handlers may make in a behaviour, and
`withToken` whether `getToken` was given; neither changes.

**NotificationStore** -- the inbox of one tab, with the frames it exchanges with
the server. A notification may come more than once (`Resend`), and the store makes
an item of every copy: `items[i]` is the sequence of their statuses, the newest last
(the code puts it first, where `items.find()` finds it), `timers[i]` when the timer of each
is due, `expiryTimers[i]` which of these the Map holds: `dismiss()` and `dispose()` can clear
no other. `pendingResponses` is the Map of callbacks
by notification and action, `promise[k]` what the k-th `respond()` came to. `answered` and
`orphaned` are the notifications whose `answered:` key is set, with an accepted answer and by a claim
whose reply was lost. `read` frames are left out: the server relays them
and nothing modelled here depends on them.
`HandleMessage` is the client's `handleMessage()` with the store's handler and the
auto-ack; `Mount` and `Unmount` are the provider's effect and its cleanup. The
client's connection has three states here, an answer on the server three steps:
NetiflyClient and ActionAnswer have the rest. `shown` and `resent` are history.

Operators headed *Seeded fault* are not part of the system: each is a definition
next to it with a plausible bug, and the property named in `PROJECT.json`
(`mutants`) must fail when it is put in that definition's place.

## The runs

| Run | Asks | Bounds | Result |
|---|---|---|---|
| MCServerFaulty | do counts, registry, events and close() stay right if Redis may reject anything? | 2 users, 4 connections, cap 3, symmetric | holds |
| MCServerReliable | if Redis rejects nothing: does a registered connection keep its channel (NOT-5), is presence exact at rest, does it converge, does close() end, is SharedSubscription implemented? | 1 user, 3 connections, with fairness | holds |
| MCSubscribeFails | does a failed subscribe() let the next call retry? | 1 user | **violated**: not if another connection is counted already |
| MCDelivery | does a registered connection get what is published, in order, without gaps, whoever else comes, goes or stalls? | 1 user, 3 connections, 3 messages | holds |
| MCAnswer | is the lock granted once before the expiry, is every frame acknowledged? | 2 frames, 2 instances, 2 ticks to a second, claims up to 3 ticks late | holds |
| MCAnswerLost | does `already_answered` mean that somebody answered? | 2 frames, Redis may lose a reply | **violated**: a repeated SET NX is refused by its own key |
| MCCluster | does a connected tab get everything while its instance's link to Redis holds, does `offline()` run only if nobody gets the message, does every publish() settle, is presence exact again after a break, but for an UNSUBSCRIBE that was rejected in it? | 2 instances, of which one and a publisher publish and may close, 2 messages, 1 break, 1 close() | holds |
| MCLiveSocket | does the heartbeat end silent peers within two intervals and nobody else; does the bucket refuse no peer that keeps to the rate, and bound every burst? | 2 sockets, 1 of which talks; interval 2, round trip 1, second 2, rate 2, clock set back once by 2, 5 units of time | holds |
| MCClient | does anything escape the client, is closed closed, does an attempt end? | 4 attempts and closes, 2 reentrant calls, 2 reconnect attempts | holds |
| MCClientCloseInHandler | is close() for good in any handler? | 1 reentrant call | **violated** in handlers of `reconnecting` and `connecting` |
| MCStore | are statuses and promises true, whatever is lost, late, sent again or answered elsewhere; is no promise forgotten, no item open past its expiry? | 1 notification, 2 symmetric actions, 2 calls, 2 connections, 1 PUBLISH sent again | holds |
| MCStoreRemount | is what the server hears delivered shown, if the effect runs twice (StrictMode)? | 1 call, 2 connections | **violated**: the second mount gets a store that is disposed |

Why the bounds are enough. A channel is shared by connections of one user: three
show the first one in, one in between and the last one out, and the fourth lets
one arrive while another fails and two stay. Two users show that nothing spills
over. Three messages are the least in which one is missing between two. The
lock's rounding depends on the deadline modulo a second, and both parities occur
at two ticks to a second as the clock runs; a lock concerns pairs of frames. The client's state
depends on the current attempt and the one before it, and four generations give
an attempt, a reconnection, a close and a restart. The store's
state is per notification and per action, and no step but `dispose()` and `markAllRead()`, which
treat all alike, touches two notifications; two calls are one that supersedes another, or one
for each action, and one lost connection is enough to lose an ack. One PUBLISH sent
again is a second copy of the notification, before or after the first one was read,
answered, dismissed or expired, or a second `resolved` relay. The clock shows
the times before, at and after the expiry; `TimeoutMax` stands for 2^31 - 1 ms, and
an `expiresAt` beyond it is left to the proofs, which hold for any.
In a cluster two messages are a message and its relay, or two publications by
different callers; one break hits any connection in any state. A dead
peer has two intervals and one unit, hence five units of time; a second socket
shows that the loop goes on after a dead one. Two units to a second and a rate of two leave room for
partial refills.

Deadlock is not checked: an instance that has closed, a notification whose frames
have all been answered and a client that stays closed have nothing left to do.

`OnceBeforeExpiry` allows a second grant from the tick of the expiry on, and TLC
shows that it cannot be strengthened: see `netiflyServer.ts:328` under
"Other divergences".

### Fairness, and what is assumed

* Redis answers each command it was sent, and Node runs the continuation of a
  settled promise: weak fairness of each answer and continuation. Without
  `resolveUserId` ever answering, a connection just stays where it is: no fairness.
* `ws` ends a closing handshake after its own timeout (30 s) if the peer does not:
  weak fairness of the `close` event of a socket that is CLOSING. An open socket
  may stay open for ever.
* `drainMs` elapses; `wss.close()` calls back when no client is left; `disconnectRedis`
  is bounded by its own timer. Nobody is obliged to call `close()`.
* Client: JavaScript finishes what it runs, a handshake ends in `open` or `error`,
  `getToken()` settles, a timer that is armed fires.
* The instances of ActionAnswer and the store read one clock.
* Cluster: Redis answers the commands that reach it, notices a dead connection
  (its TCP keepalive) and can be reached again; a closed caller's connections end. Weak fairness of the
  disjunction is enough, since each happens a bounded number of times. An UNSUBSCRIBE comes
  as often as tabs leave, and each instance's is executed while its link is up: weak
  fairness of `Unsubscribed(i)`. Tabs need not come, go, read or ack.
* LiveSocket has no fairness: its time bounds are invariants, because the clock
  waits for what is due. `Date.now()` may be set back there, not forward: a jump forward
  fills the bucket at once, and lets what it fills pass beyond `BurstBound`.

Redis answers the commands of one connection in order; the model keeps one queue per
user because commands of different users do not affect each other. Listeners of
the server's events do not throw. A CONSTANT says whether Redis may reject a
SUBSCRIBE or an UNSUBSCRIBE; from `transport.close()` on anything may be rejected.

### Other divergences

Seen while modelling, without a run of their own:

* `netiflyServer.ts:196` compares the cap with the registry: upgrades of one user
  that are past the check and still awaiting SUBSCRIBE are not counted, and all of
  them are registered. types.ts:113 calls the option the "Max concurrent WebSocket
  connections for one `userId`, enforced on this instance only".
* `netiflyServer.ts:556`: `instances` is Redis's subscriber count. Between a socket's
  `close` and the UNSUBSCRIBE it is 1 with no socket open (`leaving` in Cluster), and
  `sendOr()` then runs no fallback; after a broken link Redis counts
  one instance twice until it notices (`Count`). types.ts:219 says
  "held a live connection for the user at publish time". `PresenceHeals` bounds the
  error: an instance without a tab is counted only while its UNSUBSCRIBE is under way,
  or after it was rejected.
* recipes/email-when-offline.md:22 says `offline` is called only "when nobody held
  a live connection": it is also called while the subscriber connection of the instance that holds
  the tab is being opened again. `OfflineMeansUnheard` is the part that holds: the
  tab does not get the message too.
* `redisTransport.ts:107`: a PUBLISH that was executed but not answered is sent
  again by ioredis, so tabs may get one message twice; `OfflineMeansUnheard` leaves
  these out. Of a notification, `notificationStore.ts:75` makes a second item
  with the same id, `unread` although the first one may be read, answered, dismissed or
  expired. The second timer takes the first one's place in the Map (line 62), so that
  `dismiss()` and `dispose()` leave the first one running; and when the second item
  expires, `markStatus()` turns an answered first copy into `expired` with it.
  `StatusOnlyAdvances` says that an item comes back, or an answered one expires, in no other way than this
  and the late ack below; `ExpiryArmed` that no open copy is left without a timer.
* `heartbeat.ts:15`: a peer that dies just after its pong is noticed at the second tick from
  then, so that `isOnline()` is true for up to two intervals (`SilentPeersReaped`, which fails
  with a smaller bound). types.ts:344-346 says "up to roughly one heartbeat interval",
  and docs/site/reference/core.md:49 "Accurate only within the heartbeat interval (`30s`)".
* `rateLimiter.ts:18`: a full bucket and its refill let nearly twice
  `maxInboundFramesPerSecond` pass in one second (`BurstBound`), a bound on the rate
  only in the long run.
* `netiflyServer.ts:258`: frames that arrive before SUBSCRIBE is answered find no
  listener and are lost.
* `netiflyServer.ts:328` accepts a token while `Date.now() <= exp`; a lock taken a
  whole number of seconds before lapses at `exp` exactly, and `memoryTransport.ts:53`
  then grants it again. Two answers in that last millisecond both fire `action`.
* `netiflyServer.ts:234`: a rejected UNSUBSCRIBE is reported and never retried:
  `refCountedTransport.ts:37` has deleted the count before. ioredis rejects one that was called in
  an outage of the subscriber connection after `maxRetriesPerRequest` attempts, keeps the channel, and
  subscribes to it again when Redis is back: `isOnline()` is true, and `delivered` too, until the user
  next comes to that instance and goes (types.ts:344 says one heartbeat interval).
  `PresenceHeals` counts these instances as `forsaken`, and says that there are no others.
* `client.ts:129`: `connect()` while the first attempt awaits `getToken()` starts a
  second attempt; the comment on it calls that a no-op. Only the second one gets a
  socket, so the invariants of MCClient hold.
* `client.ts:327`: `connect()` in an `onClose` handler is followed by the
  reconnection that `settle()` schedules: two attempts, one of whose sockets escapes.

* `notificationStore.ts:84`: an 'expired' ack overwrites the status of an item that
  is answered already (answer it here or elsewhere in time, once more too late); the
  timer takes care not to. `StatusOnlyAdvances` allows exactly this.
* `netiflyServer.ts:347`: `already_answered` says that the key is set, and MCAnswerLost
  shows a key that nobody's answer stands behind. `PromiseTellsTruth` says what is left: an
  answer was accepted, or a claim's reply was lost (`orphaned`).
* `notificationStore.ts:131`: a second `respond()` for the same action replaces the
  first one's callback; the first promise never settles, not even by `dispose()`.
  `NoneForgotten` makes an exception of it.
* `notificationStore.ts:64`: `expiresAt` more than 2^31 - 1 ms away makes `setTimeout()`
  fire at once, and the item is shown as expired. `ExpiredIsPast` makes an
  exception of it.

The calls on `client.ts:129` and `client.ts:327` are left out of `reentry` in MCClient, whose sets are: `close()` from the handlers
of `closed`, `open`, `onClose`, `onError`; or both calls from those of `closed` and `open`.

## The proofs

Every invariant and every action property that a passing run checks is a theorem,
for every value of the constants that the module's own assumptions allow. The
bounds that only end TLC's runs (`MaxTime`, `MaxMessages`, `MaxCalls`, ...) are parameters too: the
theorems hold for any value of them.
Where a theorem has a further assumption, it is stated with it below. Each module
first proves its type invariant, and then an inductive invariant one action at a
time.

**NetiflyServerProofs** -- for any finite set of connections, any set of users and any
cap (`ServerAssumption`), with Redis free to reject anything unless said otherwise:

* `TypeCorrect` -- the type invariant. It is inductive only together with
  `OwnerKnown`: a connection past the upgrade has a user, so that the operations
  on `userOf[c]` are well typed.
* `RefCountsCorrect` -- the count of a user is the cardinality of `Holders(u)`, the
  connections that owe an `unsubscribe`. Each step of a connection either keeps
  the holders and the count, or adds one to both (`CountedMore`), or takes one
  from both (`CountedLess`).
* `RegistryCorrect` -- the registry is the set of live connections. It needs
  `SocketKnown` (a connection has a socket from the end of the handshake on) and
  `Drained` (no socket is left when the transport closes, which makes the final
  `registry.clear()` a formality).
* `CountedSubscribed` -- if no SUBSCRIBE is rejected, a positive count means the
  commands sent leave the channel subscribed; answering a command does not change
  what the queue decides (`AnswerKeepsDecision`). MCSubscribeFails shows that the
  assumption cannot be dropped.
* `NeverUnsubscribedFromUnder` -- NOT-5, from the four above: registered, hence a
  holder, hence counted, hence subscribed.
* `CloseLeavesNothing`, `NothingLate` -- what `close()` leaves and what late
  continuations may do, from `Forgotten`: nothing is counted once the transport is
  closing, so that a late `unsubscribe` finds 0 and sends nothing.
* `EventsMatchRegistry` -- `connect` minus `disconnect` is the size of the registry.

**ReliableServerProofs** -- the same server if Redis rejects neither SUBSCRIBE nor
UNSUBSCRIBE before `transport.close()`:

* `SharedSubscriptionImplemented` -- the refinement: `Init` maps to `Shared!Init`,
  and every step to one of `Shared!Next` or a stutter. `UncountedIsUnsubscribed`, the converse of
  `CountedIsSubscribed`, makes the count decide whether the channel is open, and the
  holders decide the count. An UNSUBSCRIBE that is rejected would leave a
  channel open without holders: the abstract specification has no such step.
* `PresenceSettles` -- at rest, Redis counts the instance exactly if the user is
  registered here: with an empty queue what the queue decides is the channel itself, and
  `RestInv` says that nobody waits without a command on the wire.

**DeliveryProofs** -- the server's invariants hold under Delivery, whose steps are those
of the server or leave it alone:

* `GapsNeverSilent` -- whatever Redis rejects: a socket gets its messages in order,
  once, and without a hole. `GapInv` orders the pushes and what was got before them,
  and says that after its first message nothing misses an OPEN connection
  (`NothingMissed`), since `deliverLocally` closes a stalled one before it skips a message.
* `DeliveryFaithful` -- if no SUBSCRIBE is rejected: whoever was in the `audience` of a
  publication gets it, or stops being OPEN first. A registered connection is counted, so
  the channel is subscribed when nothing is on the wire, and Redis counts the instance.

**ActionAnswerProofs** -- for any deadline, any length of a second in ticks, any frames and instances,
claims however late, and whatever fails:

* `ClaimOutlivesToken` -- two grants only if one comes at the expiry or later. A claim on its way
  carries a time to live that reaches the expiry from when it was computed
  (`ClaimsCover`, by the lemmas on rounding up); executed later, it lasts longer still, so
  that a key once set does not lapse before the expiry (`KeyCovers`).
* `ApplicationAnsweredOnce` -- the consequence for the `action` event.

**ClusterProofs** -- for any finite set of instances, of which any may publish:

* `FallbackNeverDuplicates` -- of a call whose PUBLISH was sent once: before Redis executes
  it, and after that if Redis found no receiver, no tab has it and no push carries it
  (`OnceSent`). No receiver counted means that Redis pushes to nobody.
* `HealthyTabServed` -- ioredis holds the channel for every tab, and no UNSUBSCRIBE is
  under way where there is one (`LinkServes`), so that through breaks and resubscriptions Redis pushes to a tab
  whose link is up; a publication stays on the way until it is delivered.

**LiveSocketProofs** -- for any interval longer than the round trip, any rate, any
number of sockets, and a clock that is set back once by any amount:

* `HealthyPeersSpared` -- the ping of the last tick is unanswered only within the round trip after
  it (`PingFresh`), which is over at the next tick.
* `SilentPeersGone` -- the next tick comes within one interval of the peer's silence if its
  flag is still set, within two if it is not (`SilenceCounted`); a tick is never overdue
  (`TickTimely`).
* `BurstsBounded` -- for each frame of the last second: what has passed since it, and what is left,
  was in the bucket then or was earned since (`Spent`). The inequality for the oldest frame is the bound.
* `WithinRateServed` -- the converse: what was earned over the last ticks is still there or was
  spent on frames of those ticks (`Earned`). Over a full second, a refused frame means at least `Rate`
  frames. Nothing is claimed from the moment the clock is set back until a second after the
  next frame: that frame earns nothing, and starts the bucket's clock anew.

**NetiflyClientProofs** -- for any number of attempts, any cap on reconnections, and any
failures:

* `ClientTypeCorrect` -- whatever handlers call. It needs that what remains of the synchronous piece
  (`todo`) is the calls of handlers first, and that the jobs in it name attempts that were made.
* `ClientOwnsAll`, `CloseIsForGood`, `ClientStateTrue` -- for handlers that stand back
  (`HandlersStandBack`): in a behaviour they only call `close()`, from the handlers of
  `closed`, `open`, `onClose` and `onError`, or both calls, from those of `closed` and `open`. These are the
  sets of MCClient, and "Other divergences" says what other handlers do to the client. `ClientInv` has three
  parts: a live socket is `this.socket` and the only timeout that can fire is `this.timer`
  (`Mine`); earlier attempts are over and later ones have not begun (`Past`); and `Control`, which
  says for each `todo` that can remain what the fields are there, as one
  annotates a program between its statements.

**NotificationStoreProofs** -- for any number of notifications, actions and calls, with
frames lost at every disconnection:

* `PromisesAreTrue` -- an ack on its way is true when it is sent and stays true
  (`AcksTrue`), and `pendingResponses` leads from its key to a call for just that action.
* `ExpiredTellsTruth`, `OpenItemsExpire` -- a timer runs for the item's own expiry, or is cut
  short beyond `TimeoutMax` (`TimersRight`). If any copy is open the newest is
  (`NewestIsOpen`), so that a timer that fires finds it and closes all of them, whichever
  copy it was set for; `dismiss()` clears one timer and takes every item.
* `StatusNeverGoesBack` -- the action property, for PUBLISH commands sent any number of times. A
  notification whose PUBLISH was sent once is on its way once, and never after it was
  shown (`NotificationsFresh`): a second item, or an answered copy next to an open one for the
  timer to find, needs one that was sent again.
* `DeliveredWasShown`, `PromisesNotForgotten` -- if the effect runs once (`Remounts = FALSE`): nobody
  opens a connection for a disposed store (`DisposedIsClosed`), and a waiting promise is in the Map
  unless it was superseded (`WaitersKnown`). MCStoreRemount shows the first one violated otherwise.

Only model-checked: liveness, which is out of the prover's reach (`CloseCompletes`,
`PresenceConverges`, `EveryFrameAnswered`, `CallsSettle`, `PresenceHeals`, `ConnectingEnds`,
`ReconnectHappens`). For these the runs' bounds and the fairness above are all there is.

## Not modelled

Signing and validation of notifications and parsing of frames (pure functions,
without state), `validate` hooks and serialization errors (they end a call before
anything is published), the `sent` event, origin matching beyond allowed and
refused, listeners that throw, channel namespaces, the lengths of delays other than the
heartbeat's and the bucket's. `isOnline()` and the hooks of the React package only read.

## Plan

1. Done: RefCountedTransport, SharedSubscription, NetiflyServer, Delivery,
   ActionAnswer, NetiflyClient, NotificationStore, NetiflyServerProofs, Cluster,
   LiveSocket.
2. Done: the proofs of every safety property of the passing runs, listed above.
3. Left: an abstract specification of delivery (what a user's sockets get of what is
   published, without Redis) that Delivery implements, of the lock that ActionAnswer
   implements, and what the first mount of a provider keeps if there is a second.
