------------------------ MODULE RefCountedTransport ------------------------
(***************************************************************************)
(* Subscriptions of one server instance: RefCountedTransport on top of the *)
(* raw transport (transports/refCountedTransport.ts, redisTransport.ts).   *)
(*                                                                         *)
(* The raw Redis transport sends SUBSCRIBE and UNSUBSCRIBE on one          *)
(* subscriber connection, so the commands of a user are answered in the    *)
(* order they were sent: `wire' is that queue.  The in-memory transport is *)
(* the special case in which every command is answered at once.  The       *)
(* module has no Next of its own: NetiflyServer conjoins these operations  *)
(* with the steps that call them.                                          *)
(***************************************************************************)
EXTENDS Integers, Sequences

CONSTANTS User,      \* user ids, each one a pub/sub channel
          Conn       \* the callers of subscribe(): one per WebSocket

VARIABLES refCounts, \* [User -> Nat], 0 when the Map has no entry
          wire,      \* [User -> Seq(Command)], sent and not yet answered
          channel    \* the users whose channel Redis counts us subscribed to

transportVars == <<refCounts, wire, channel>>

SubscribeBy(c) == [op |-> "SUBSCRIBE", by |-> c]
UnsubscribeCmd == [op |-> "UNSUBSCRIBE"]
Command == [op : {"SUBSCRIBE"}, by : Conn] \cup {UnsubscribeCmd}

TransportTypeOK ==
  /\ refCounts \in [User -> Nat]
  /\ wire \in [User -> Seq(Command)]
  /\ channel \subseteq User

TransportInit ==
  /\ refCounts = [u \in User |-> 0]
  /\ wire = [u \in User |-> <<>>]
  /\ channel = {}

-----------------------------------------------------------------------------
\* Refcounted operations, called by the server

\* Seeded fault: the entry of the last reference is not deleted.
DroppedKeepsLast(n) == IF n <= 1 THEN n ELSE n - 1

\* Seeded fault: the count is decremented without looking.
DroppedBlindly(n) == n - 1

\* One reference less; the last one, or one nobody counted, deletes the entry.
Dropped(n) == IF n <= 1 THEN 0 ELSE n - 1

\* Only the first subscriber waits for Redis: a later one returns at once.
FirstSubscriber(u) == refCounts[u] = 0

Subscribe(u, c) ==
  /\ refCounts' = [refCounts EXCEPT ![u] = @ + 1]
  /\ wire' = IF FirstSubscriber(u)
             THEN [wire EXCEPT ![u] = Append(@, SubscribeBy(c))]
             ELSE wire
  /\ UNCHANGED channel

\* Seeded fault: every unsubscribe() reaches Redis, not only the last one.
UnsubscribeAlways(u) ==
  /\ refCounts' = [refCounts EXCEPT ![u] = Dropped(@)]
  /\ wire' = [wire EXCEPT ![u] = Append(@, UnsubscribeCmd)]
  /\ UNCHANGED channel

\* Seeded fault: the entry is deleted before it is compared with 1.
UnsubscribeNever(u) ==
  /\ refCounts' = [refCounts EXCEPT ![u] = Dropped(@)]
  /\ UNCHANGED <<wire, channel>>

Unsubscribe(u) ==
  /\ refCounts' = [refCounts EXCEPT ![u] = Dropped(@)]
  /\ wire' = IF refCounts[u] = 1
             THEN [wire EXCEPT ![u] = Append(@, UnsubscribeCmd)]
             ELSE wire
  /\ UNCHANGED channel

\* Seeded fault: close() leaves the counts.
CloseTransportKeeps == UNCHANGED transportVars

\* The synchronous part of close(): the counts are forgotten.
CloseTransport ==
  /\ refCounts' = [u \in User |-> 0]
  /\ UNCHANGED <<wire, channel>>

-----------------------------------------------------------------------------
\* Answers of the raw transport

AnswerHead(u) == wire' = [wire EXCEPT ![u] = Tail(@)]

RawSubscribed(u, c) ==
  /\ wire[u] # <<>> /\ Head(wire[u]) = SubscribeBy(c)
  /\ AnswerHead(u)
  /\ channel' = channel \cup {u}
  /\ UNCHANGED refCounts

\* The catch block: the reference taken before the await is given back.
RawSubscribeRejected(u, c) ==
  /\ wire[u] # <<>> /\ Head(wire[u]) = SubscribeBy(c)
  /\ AnswerHead(u)
  /\ refCounts' = [refCounts EXCEPT ![u] = Dropped(@)]
  /\ UNCHANGED channel

RawUnsubscribed(u) ==
  /\ wire[u] # <<>> /\ Head(wire[u]) = UnsubscribeCmd
  /\ AnswerHead(u)
  /\ channel' = channel \ {u}
  /\ UNCHANGED refCounts

\* Nothing takes the reference back: the channel stays subscribed.
RawUnsubscribeRejected(u) ==
  /\ wire[u] # <<>> /\ Head(wire[u]) = UnsubscribeCmd
  /\ AnswerHead(u)
  /\ UNCHANGED <<refCounts, channel>>

\* The raw connection ends: what is still on the wire is rejected with it.
RawClosed ==
  /\ wire' = [u \in User |-> <<>>]
  /\ channel' = {}
  /\ UNCHANGED refCounts

-----------------------------------------------------------------------------
\* Whether u's channel will be subscribed once the commands sent so far have
\* been carried out.
WillBeSubscribed(u) ==
  IF wire[u] = <<>> THEN u \in channel
                    ELSE wire[u][Len(wire[u])] # UnsubscribeCmd
=============================================================================
