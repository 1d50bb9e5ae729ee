------------------------------ MODULE Cluster ------------------------------
(***************************************************************************)
(* One user of a cluster: several server instances and a NetiflyPublisher  *)
(* share a Redis.  An instance holds two connections to it: commands       *)
(* (PUBLISH, PUBSUB NUMSUB) go over the first, the channel's messages come *)
(* over the second, and either may break and be opened again by ioredis.   *)
(*                                                                         *)
(* How one instance registers sockets and counts subscriptions is the      *)
(* subject of NetiflyServer: here the user has one tab per instance, and   *)
(* the tab's arrival and its SUBSCRIBE are one step.  Its departure and    *)
(* what becomes of its UNSUBSCRIBE are not.  A message is the number of its *)
(* publish() call; a relay is the netifly.ack envelope that an instance    *)
(* publishes when a tab's 'ack' frame arrives.                             *)
(***************************************************************************)
EXTENDS Integers, FiniteSets, Sequences

CONSTANTS Instance, Publisher,
          Sender,                  \* the callers that publish, and may close
          MaxMessages, MaxBreaks, MaxCloses   \* bounds

ASSUME ClusterAssumption ==
  /\ IsFiniteSet(Instance)
  /\ Publisher \notin Instance
  /\ Sender \subseteq Instance \cup {Publisher}
  /\ {MaxMessages, MaxBreaks, MaxCloses} \subseteq Nat

VARIABLES msg,       \* Seq([by, of]): the publish() calls; `of' is 0 or the
                     \* message that a relay is about
          status,    \* Seq: how far the PUBLISH of each is; "settled" when
                     \* the promise is resolved or rejected
          reached,   \* those whose answer, yet to be read, counts a receiver
          resent,    \* the calls whose PUBLISH was sent more than once
          offline,   \* those that ran options.offline()
          closed,    \* the callers whose close() was called
          ended,     \* those whose connections to Redis are gone
          tab,       \* [Instance -> does it hold a registered socket?]
          link,      \* [Instance -> its subscriber connection]
          channel,   \* those whose ioredis holds the channel: Redis does too
                     \* while the link is up, and again when it is reopened
          leaving,   \* those whose UNSUBSCRIBE has no answer yet
          forsaken,  \* those whose last UNSUBSCRIBE was rejected: history
          stale,     \* those whose dead connection Redis still counts
          push,      \* [Instance -> Seq], messages on their way to it
          unacked,   \* [Instance -> messages its tab is about to ack]
          heard,     \* the messages that some tab was sent
          owed,      \* [Instance -> messages its tab has yet to be sent]
          breaks     \* connections that broke

callVars == <<msg, status, reached, resent, offline, closed, ended>>
linkVars == <<link, channel, leaving, forsaken, stale>>
tabVars == <<tab, unacked, heard>>
vars == <<callVars, linkVars, tabVars, push, owed, breaks>>

Caller == Instance \cup {Publisher}
IsRelay(m) == msg[m].of # 0

TypeOK ==
  /\ msg \in Seq([by : Caller, of : 0..Len(msg)])
  /\ status \in [DOMAIN msg -> {"queued", "executed", "settled"}]
  /\ reached \cup resent \cup offline \cup heard \subseteq DOMAIN msg
  /\ closed \subseteq Caller /\ ended \subseteq closed
  /\ tab \in [Instance -> BOOLEAN]
  /\ link \in [Instance -> {"up", "down"}]
  /\ channel \cup leaving \cup forsaken \cup stale \subseteq Instance
  /\ push \in [Instance -> Seq(DOMAIN msg)]
  /\ unacked \in [Instance -> SUBSET DOMAIN msg]
  /\ owed \in [Instance -> SUBSET DOMAIN msg]
  /\ breaks \in 0..MaxBreaks

Init ==
  /\ msg = <<>> /\ status = <<>> /\ reached = {}
  /\ resent = {} /\ offline = {}
  /\ closed = {} /\ ended = {}
  /\ tab = [i \in Instance |-> FALSE]
  /\ link = [i \in Instance |-> "up"]
  /\ channel = {} /\ leaving = {} /\ forsaken = {} /\ stale = {}
  /\ push = [i \in Instance |-> <<>>]
  /\ unacked = [i \in Instance |-> {}]
  /\ heard = {}
  /\ owed = [i \in Instance |-> {}]
  /\ breaks = 0

-----------------------------------------------------------------------------
\* Publishing

\* Seeded fault: nobody holds the promise.
PublishForgotten(x, about) ==
  /\ Len(msg) < MaxMessages
  /\ msg' = Append(msg, [by |-> x, of |-> about])
  /\ status' = status

\* A call of the transport's publish() by caller x.
Publish(x, about) ==
  /\ Len(msg) < MaxMessages
  /\ msg' = Append(msg, [by |-> x, of |-> about])
  /\ status' = Append(status, "queued")

\* send(), sendOr(), notify() and notifyOr() of an instance.  After close()
\* each of them throws before it does anything.
Send(i) ==
  /\ i \notin closed
  /\ Publish(i, 0)
  /\ UNCHANGED <<reached, resent, offline, closed, ended, linkVars, tabVars, push, owed, breaks>>

\* send() and notify() of the publisher.
PublisherSends ==
  /\ Publisher \notin closed
  /\ Publish(Publisher, 0)
  /\ UNCHANGED <<reached, resent, offline, closed, ended, linkVars, tabVars, push, owed, breaks>>

Outstanding(x) == {m \in DOMAIN msg : msg[m].by = x /\ status[m] \in {"queued", "executed"}}

\* The instances that Redis pushes the channel's messages to.
Subscribed == {i \in channel : link[i] = "up"}

\* NUMSUB and PUBLISH count connections, not instances.
Count == Cardinality(Subscribed) + Cardinality(stale)

\* Redis executes the commands of one connection in their order.
Execute(m) ==
  /\ status[m] = "queued" /\ msg[m].by \notin ended
  /\ \A k \in Outstanding(msg[m].by) : k < m => status[k] = "executed"
  /\ status' = [status EXCEPT ![m] = "executed"]
  /\ reached' = IF Count > 0 THEN reached \cup {m} ELSE reached
  /\ push' = [i \in Instance |-> IF i \in Subscribed THEN Append(push[i], m) ELSE push[i]]
  /\ owed' = [i \in Instance |-> owed[i] \cup
                (IF tab[i] /\ link[i] = "up" THEN {m} ELSE {})]
  /\ UNCHANGED <<msg, resent, offline, closed, ended, linkVars, tabVars, breaks>>

OfflineUnlessHere(m) == ~tab[msg[m].by]            \* Seeded fault
\* `delivered' of the result: instances > 0.
CallsOffline(m) == m \notin reached

\* The answer: send() resolves, and sendOr() goes on to options.offline().  A
\* publisher has no sendOr(), a relay nobody who waits for it.
Answer(m) ==
  /\ status[m] = "executed" /\ msg[m].by \notin ended
  /\ \A k \in Outstanding(msg[m].by) : m <= k
  /\ status' = [status EXCEPT ![m] = "settled"]
  /\ reached' = reached \ {m}
  /\ offline' = IF msg[m].by \in Instance /\ ~IsRelay(m) /\ CallsOffline(m)
                THEN offline \cup {m} ELSE offline
  /\ UNCHANGED <<msg, resent, closed, ended, linkVars, tabVars, push, owed, breaks>>

\* The command connection of x breaks: what had no answer is sent again, or
\* rejected when Redis stays away for maxRetriesPerRequest attempts.
CommandsBreak(x) ==
  /\ breaks < MaxBreaks /\ x \notin ended /\ Outstanding(x) # {}
  /\ breaks' = breaks + 1
  /\ reached' = reached \ Outstanding(x)
  /\ \/ /\ status' = [m \in DOMAIN msg |-> IF m \in Outstanding(x) THEN "queued" ELSE status[m]]
        /\ resent' = resent \cup {m \in Outstanding(x) : status[m] = "executed"}
     \/ /\ status' = [m \in DOMAIN msg |-> IF m \in Outstanding(x) THEN "settled" ELSE status[m]]
        /\ UNCHANGED resent
  /\ UNCHANGED <<msg, offline, closed, ended, linkVars, tabVars, push, owed>>

-----------------------------------------------------------------------------
\* The user's tabs

\* A tab connects to instance i and is registered when SUBSCRIBE is answered:
\* behind an UNSUBSCRIBE called before it and what Redis pushed before, and not
\* while the link is broken.
Connect(i) ==
  /\ i \notin closed /\ ~tab[i]
  /\ link[i] = "up" /\ i \notin leaving /\ push[i] = <<>>
  /\ tab' = [tab EXCEPT ![i] = TRUE]
  /\ channel' = channel \cup {i}
  /\ forsaken' = forsaken \ {i}
  /\ UNCHANGED <<callVars, link, leaving, stale, push, unacked, heard, owed, breaks>>

\* Its last socket is gone, and the channel's count with it: UNSUBSCRIBE is
\* called.  Messages under way find no connection.
Disconnect(i) ==
  /\ tab[i]
  /\ tab' = [tab EXCEPT ![i] = FALSE]
  /\ leaving' = leaving \cup {i}
  /\ unacked' = [unacked EXCEPT ![i] = {}]
  /\ owed' = [owed EXCEPT ![i] = {}]
  /\ UNCHANGED <<callVars, link, channel, forsaken, stale, push, heard, breaks>>

\* Redis executes the UNSUBSCRIBE.
Unsubscribed(i) ==
  /\ i \in leaving /\ link[i] = "up"
  /\ leaving' = leaving \ {i}
  /\ channel' = channel \ {i}
  /\ UNCHANGED <<callVars, link, forsaken, stale, tabVars, push, owed, breaks>>

\* The link is down for maxRetriesPerRequest attempts: ioredis rejects the
\* UNSUBSCRIBE but does not forget the channel, and nobody calls it again.
UnsubscribeRejected(i) ==
  /\ i \in leaving /\ link[i] = "down" /\ i \notin ended
  /\ leaving' = leaving \ {i}
  /\ forsaken' = forsaken \cup {i}
  /\ UNCHANGED <<callVars, link, channel, stale, tabVars, push, owed, breaks>>

\* The client acks what it receives, unless its type begins with "netifly.".
AutoAck(m) == IF IsRelay(m) THEN {} ELSE {m}

\* deliverLocally()
Deliver(i) ==
  LET m == Head(push[i]) IN
  /\ push[i] # <<>>
  /\ push' = [push EXCEPT ![i] = Tail(@)]
  /\ IF tab[i] THEN /\ heard' = heard \cup {m}
                    /\ unacked' = [unacked EXCEPT ![i] = @ \cup AutoAck(m)]
                    /\ owed' = [owed EXCEPT ![i] = @ \ {m}]
               ELSE UNCHANGED <<heard, unacked, owed>>
  /\ UNCHANGED <<callVars, linkVars, tab, breaks>>

\* handleInboundFrame() of an 'ack': the event here, and the relay to every
\* tab, this one too.  close() does not stop it, a closing socket is served.
AckFrame(i, m) ==
  /\ tab[i] /\ m \in unacked[i]
  /\ unacked' = [unacked EXCEPT ![i] = @ \ {m}]
  /\ Publish(i, m)
  /\ UNCHANGED <<reached, resent, offline, closed, ended, linkVars, tab, heard, push, owed, breaks>>

-----------------------------------------------------------------------------
\* The subscriber connections

\* It breaks: what Redis pushed is lost, and Redis has yet to notice.
LinkBreaks(i) ==
  /\ link[i] = "up" /\ i \notin ended /\ breaks < MaxBreaks
  /\ breaks' = breaks + 1
  /\ link' = [link EXCEPT ![i] = "down"]
  /\ stale' = stale \cup (channel \cap {i})
  /\ push' = [push EXCEPT ![i] = <<>>]
  /\ owed' = [owed EXCEPT ![i] = {}]
  /\ UNCHANGED <<callVars, channel, leaving, forsaken, tabVars>>

RedisNotices(i) ==
  /\ i \in stale
  /\ stale' = stale \ {i}
  /\ UNCHANGED <<callVars, link, channel, leaving, forsaken, tabVars, push, owed, breaks>>

ForgetsChannels(i) == {}                           \* Seeded fault
\* autoResubscribe: the channels that ioredis holds, tab or no tab.  What was
\* called while the link was down, and not rejected, comes after.
Resubscribes(i) == channel \cap {i}

LinkReopens(i) ==
  /\ link[i] = "down" /\ i \notin ended
  /\ link' = [link EXCEPT ![i] = "up"]
  /\ channel' = (channel \ {i}) \cup Resubscribes(i)
  /\ UNCHANGED <<callVars, leaving, forsaken, stale, tabVars, push, owed, breaks>>

-----------------------------------------------------------------------------
\* close()

\* Of a publisher, or of an instance, whose sockets then go one by one.
Close(x) ==
  /\ x \notin closed /\ Cardinality(closed) < MaxCloses
  /\ closed' = closed \cup {x}
  /\ UNCHANGED <<msg, status, reached, resent, offline, ended, linkVars, tabVars, push, owed, breaks>>

LeavesCommandsWaiting(x) == {}                     \* Seeded fault
\* disconnectRedis(): ioredis rejects every command it has no answer to.
Flushed(x) == Outstanding(x)

\* An instance's sockets are gone first, then x's connections to Redis, and
\* with them what Redis holds for x.
Disconnected(x) ==
  /\ x \in closed \ ended /\ (x \in Instance => ~tab[x])
  /\ ended' = ended \cup {x}
  /\ reached' = reached \ Outstanding(x)
  /\ status' = [m \in DOMAIN msg |-> IF m \in Flushed(x) THEN "settled" ELSE status[m]]
  /\ channel' = channel \ {x} /\ leaving' = leaving \ {x} /\ forsaken' = forsaken \ {x}
  /\ push' = [i \in Instance |-> IF i = x THEN <<>> ELSE push[i]]
  /\ UNCHANGED <<msg, resent, offline, closed, link, stale, tabVars, owed, breaks>>

-----------------------------------------------------------------------------
Redis == \E m \in DOMAIN msg : Execute(m) \/ Answer(m)

Repair ==
  \/ \E x \in Caller : Disconnected(x)
  \/ \E i \in Instance : RedisNotices(i) \/ LinkReopens(i)

Next ==
  \/ Redis
  \/ \E i \in Sender \cap Instance : Send(i)
  \/ Publisher \in Sender /\ PublisherSends
  \/ \E x \in Sender : Close(x)
  \/ \E x \in Caller : CommandsBreak(x)
  \/ Repair
  \/ \E i \in Instance :
       \/ Connect(i) \/ Disconnect(i) \/ Unsubscribed(i) \/ UnsubscribeRejected(i)
       \/ Deliver(i) \/ LinkBreaks(i)
       \/ \E m \in DOMAIN msg : AckFrame(i, m)

\* Redis answers, notices a dead connection (its keepalive) and is reachable
\* again some day; the sockets of a closed caller do close.  Each of these
\* happens a bounded number of times, so that fairness of their disjunction
\* is enough; an UNSUBSCRIBE happens as often as the tabs like.
Fairness ==
  /\ WF_vars(Redis \/ Repair)
  /\ \A i \in Instance : WF_vars(Unsubscribed(i))

Spec == Init /\ [][Next]_vars /\ Fairness

-----------------------------------------------------------------------------
\* Properties

\* While its instance's link holds, a connected tab misses nothing that was
\* published after it connected or after the link was opened again.
HealthyTabMissesNothing ==
  \A i \in Instance : \A m \in owed[i] : \E k \in DOMAIN push[i] : push[i][k] = m

\* When sendOr() falls back to offline(), no tab has the message, and none
\* gets it later: the fallback does not duplicate it.  A PUBLISH that ioredis
\* sent again may have reached tabs the first time.
OfflineMeansUnheard ==
  \A m \in offline \ resent :
    /\ m \notin heard
    /\ \A i \in Instance : \A k \in DOMAIN push[i] : push[i][k] # m

\* Every publish() is answered or rejected, close() or not.
CallsSettle == []<>(\A m \in DOMAIN msg : status[m] = "settled")

\* Once connections no longer break, isOnline() counts each instance that holds
\* a tab, once, and no other but those whose UNSUBSCRIBE is still under way,
\* which ends, or was rejected in an outage.  Those are counted until the user's
\* next departure from them: nothing in the code repairs it before.
PresenceHeals ==
  /\ <>[](Count = Cardinality({i \in Instance : tab[i]} \cup leaving \cup forsaken))
  /\ \A i \in Instance : []<>(i \notin leaving)
=============================================================================
