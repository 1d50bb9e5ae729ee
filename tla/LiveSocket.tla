----------------------------- MODULE LiveSocket -----------------------------
(***************************************************************************)
(* What the server does with open WebSockets while time passes: the        *)
(* heartbeat of startHeartbeat() over wss.clients, and the token bucket    *)
(* that stands before handleInboundFrame().                                *)
(*                                                                         *)
(* `now' is the monotonic clock that setInterval() counts; Date.now(),     *)
(* which the bucket reads, is now - skew and can be set back.  The event   *)
(* loop is timely: a tick runs when it is due, and a peer that is up       *)
(* answers within MaxRtt.  A silent peer is one whose bytes stopped        *)
(* arriving with no close: it crashed, or its network is gone.             *)
(***************************************************************************)
EXTENDS Integers, FiniteSets, Sequences

CONSTANTS Conn,      \* WebSockets
          Talker,    \* those that send frames: a bound
          Interval,  \* HEARTBEAT_INTERVAL_MS
          MaxRtt,    \* the longest a peer that is up takes to answer
          Rate,      \* maxInboundFramesPerSecond
          Second,    \* 1000 ms
          Setback,   \* by how much Date.now() is set back
          MaxTime    \* bound

ASSUME LiveSocketAssumption ==
  /\ Talker \subseteq Conn
  /\ {Interval, Rate, Second} \subseteq Nat \ {0}
  /\ {MaxRtt, Setback, MaxTime} \subseteq Nat
  /\ MaxRtt < Interval

VARIABLES now, skew,
          nextTick,          \* when the interval is due
          ready,             \* [Conn -> ws.readyState], "NONE" before the upgrade
          alive,             \* [Conn -> the WeakMap's entry], "unset" if it has none
          byeBy,             \* [Conn -> when the peer's close frame is here]
          lostAt,            \* [Conn -> when its peer fell silent]
          heard,             \* registerConnection() has attached 'message'
          tokens,            \* [Conn -> TokenBucket.tokens], in 1/Second
          lastRefillAt,
          refused,           \* [Conn -> was the last frame of this moment refused?]
          endedBy,           \* [Conn -> who ended it]: history
          recent,            \* [Conn -> when the last second's frames passed]: history
          inStep             \* [Conn -> since when skew has not hit it]: history

heartbeatVars == <<nextTick, alive>>
socketVars == <<ready, byeBy, lostAt, heard, endedBy>>
bucketVars == <<tokens, lastRefillAt, refused, recent, inStep>>
vars == <<now, skew, heartbeatVars, socketVars, bucketVars>>

Never == MaxTime + 1
Time == 0..MaxTime
Capacity == Rate * Second
Wall == now - skew

TypeOK ==
  /\ now \in Time /\ skew \in {0, Setback}
  /\ nextTick \in 1..(MaxTime + Interval)
  /\ ready \in [Conn -> {"NONE", "OPEN", "CLOSING", "CLOSED"}]
  /\ alive \in [Conn -> {"unset", "true", "false"}]
  /\ byeBy \in [Conn -> Nat]
  /\ lostAt \in [Conn -> Time \cup {Never}]
  /\ heard \in [Conn -> BOOLEAN]
  /\ tokens \in [Conn -> 0..Capacity]
  /\ lastRefillAt \in [Conn -> (-Setback)..MaxTime]
  /\ refused \in [Conn -> BOOLEAN]
  /\ endedBy \in [Conn -> {"nobody", "peer", "heartbeat"}]
  /\ recent \in [Conn -> Seq(Time)]
  /\ inStep \in [Conn -> Time \cup {Never}]

Init ==
  /\ now = 0 /\ skew = 0
  /\ nextTick = Interval
  /\ ready = [c \in Conn |-> "NONE"]
  /\ alive = [c \in Conn |-> "unset"]
  /\ byeBy = [c \in Conn |-> Never]
  /\ lostAt = [c \in Conn |-> Never]
  /\ heard = [c \in Conn |-> FALSE]
  /\ tokens = [c \in Conn |-> 0] /\ lastRefillAt = [c \in Conn |-> 0]
  /\ refused = [c \in Conn |-> FALSE]
  /\ endedBy = [c \in Conn |-> "nobody"]
  /\ recent = [c \in Conn |-> <<>>]
  /\ inStep = [c \in Conn |-> Never]

Tracked(c) == ready[c] \in {"OPEN", "CLOSING"}    \* in wss.clients
Up(c) == Tracked(c) /\ lostAt[c] = Never

\* The bucket lives in the listener of its socket and goes with it.
ForgetBuckets(gone) ==
  /\ tokens' = [c \in Conn |-> IF c \in gone THEN 0 ELSE tokens[c]]
  /\ lastRefillAt' = [c \in Conn |-> IF c \in gone THEN 0 ELSE lastRefillAt[c]]
  /\ refused' = [c \in Conn |-> refused[c] /\ c \notin gone]
  /\ recent' = [c \in Conn |-> IF c \in gone THEN <<>> ELSE recent[c]]
  /\ inStep' = [c \in Conn |-> IF c \in gone THEN Never ELSE inStep[c]]

-----------------------------------------------------------------------------
\* The heartbeat

\* The entry of a socket's first tick, or of one whose pong is here, is not
\* false: it is pinged.  ping() on a socket that is closing sends nothing.
Pinged == {c \in Conn : Tracked(c) /\ alive[c] # "false"}

\* Seeded fault: a socket the heartbeat has not yet pinged is taken for dead.
UnansweredOrNew == {c \in Conn : Tracked(c) /\ alive[c] # "true"}
\* Seeded fault: the loop over the clients ends at the first dead one.
UnansweredFirst ==
  LET dead == {c \in Conn : Tracked(c) /\ alive[c] = "false"}
  IN  {c \in dead : c = CHOOSE d \in dead : TRUE}
Unanswered == {c \in Conn : Tracked(c) /\ alive[c] = "false"}

Tick ==
  /\ now = nextTick
  /\ nextTick' = now + Interval
  /\ ready' = [c \in Conn |-> IF c \in Unanswered THEN "CLOSED" ELSE ready[c]]
  /\ endedBy' = [c \in Conn |-> IF c \in Unanswered THEN "heartbeat" ELSE endedBy[c]]
  /\ alive' = [c \in Conn |-> IF c \in Pinged THEN "false" ELSE alive[c]]
  /\ ForgetBuckets(Unanswered)
  /\ UNCHANGED <<now, skew, byeBy, lostAt, heard>>

\* A pong, asked for or not.  The once('pong') listener is attached exactly
\* while the entry is false; without it the pong goes unnoticed.
Pong(c) ==
  /\ Up(c)
  /\ alive' = [alive EXCEPT ![c] = IF @ = "false" THEN "true" ELSE @]
  /\ UNCHANGED <<now, skew, nextTick, socketVars, bucketVars>>

-----------------------------------------------------------------------------
\* The socket

\* handleUpgrade() completes the handshake: the socket is in wss.clients from
\* here, while registerConnection() is still waiting for SUBSCRIBE.
Upgrade(c) ==
  /\ ready[c] = "NONE"
  /\ ready' = [ready EXCEPT ![c] = "OPEN"]
  /\ UNCHANGED <<now, skew, heartbeatVars, byeBy, lostAt, heard, endedBy, bucketVars>>

\* SUBSCRIBE is done: the bucket starts full and 'message' gets its listener.
Register(c) ==
  /\ ready[c] = "OPEN" /\ ~heard[c]
  /\ heard' = [heard EXCEPT ![c] = TRUE]
  /\ tokens' = [tokens EXCEPT ![c] = Capacity]
  /\ lastRefillAt' = [lastRefillAt EXCEPT ![c] = Wall]
  /\ inStep' = [inStep EXCEPT ![c] = now]
  /\ UNCHANGED <<now, skew, heartbeatVars, ready, byeBy, lostAt, endedBy, refused, recent>>

\* ws.close(), by disconnect() or by a full outbound buffer.
ServerCloses(c) ==
  /\ ready[c] = "OPEN"
  /\ ready' = [ready EXCEPT ![c] = "CLOSING"]
  /\ byeBy' = [byeBy EXCEPT ![c] = IF Up(c) THEN now + MaxRtt ELSE Never]
  /\ UNCHANGED <<now, skew, heartbeatVars, lostAt, heard, endedBy, bucketVars>>

\* The peer closes, or answers the server's close frame.
PeerCloses(c) ==
  /\ Up(c)
  /\ ready' = [ready EXCEPT ![c] = "CLOSED"]
  /\ endedBy' = [endedBy EXCEPT ![c] = "peer"]
  /\ byeBy' = [byeBy EXCEPT ![c] = Never]
  /\ ForgetBuckets({c})
  /\ UNCHANGED <<now, skew, nextTick, alive, lostAt, heard>>

PeerFallsSilent(c) ==
  /\ Up(c)
  /\ lostAt' = [lostAt EXCEPT ![c] = now]
  /\ byeBy' = [byeBy EXCEPT ![c] = Never]
  /\ UNCHANGED <<now, skew, nextTick, alive, ready, heard, endedBy, bucketVars>>

-----------------------------------------------------------------------------
\* The token bucket

MinOf(a, b) == IF a <= b THEN a ELSE b
MaxOf(a, b) == IF a >= b THEN a ELSE b

RefilledPastCapacity(c) == tokens[c] + MaxOf(0, Wall - lastRefillAt[c]) * Rate \* Seeded fault
Refilled(c) == MinOf(Capacity, tokens[c] + MaxOf(0, Wall - lastRefillAt[c]) * Rate)

\* Seeded fault: the moment of the last refill never moves back.
RefillMarkMonotone(c) == MaxOf(lastRefillAt[c], Wall)
RefillMark(c) == Wall

\* A token is left.
Passes(c) == Refilled(c) >= Second

\* handleInboundFrame() begins with tryRemoveToken(), whatever the frame says:
\* without a token it ends in 'malformedFrame' with reason 'rateLimited'.  A
\* frame that comes before Register finds no listener and leaves no trace.
Frame(c) ==
  /\ c \in Talker /\ Up(c) /\ heard[c]
  /\ tokens' = [tokens EXCEPT ![c] = Refilled(c) - (IF Passes(c) THEN Second ELSE 0)]
  /\ lastRefillAt' = [lastRefillAt EXCEPT ![c] = RefillMark(c)]
  /\ refused' = [refused EXCEPT ![c] = ~Passes(c)]
  /\ recent' = [recent EXCEPT ![c] = IF Passes(c) THEN Append(@, now) ELSE @]
  /\ inStep' = [inStep EXCEPT ![c] = MinOf(@, now)]
  /\ UNCHANGED <<now, skew, heartbeatVars, socketVars>>

-----------------------------------------------------------------------------
\* Time

\* Whatever is due at `now' happens before time passes: the tick, the pong to
\* the last tick's ping, the close frame.
NothingDue ==
  /\ now < nextTick
  /\ \A c \in Conn :
       /\ Up(c) /\ alive[c] = "false" => now < nextTick - Interval + MaxRtt
       /\ now < byeBy[c]

\* Frames pass in order: those that fall out of the second are the first ones.
Stale(c) == {i \in 1..Len(recent[c]) : recent[c][i] <= now + 1 - Second}

Pass ==
  /\ now < MaxTime /\ NothingDue
  /\ now' = now + 1
  /\ refused' = [c \in Conn |-> FALSE]
  /\ recent' = [c \in Conn |->
                  SubSeq(recent[c], Cardinality(Stale(c)) + 1, Len(recent[c]))]
  /\ UNCHANGED <<skew, heartbeatVars, socketVars, tokens, lastRefillAt, inStep>>

\* Date.now() is set back, once.  A socket's bucket is in step with it again from
\* its next frame on.
ClockSetBack ==
  /\ skew = 0
  /\ skew' = Setback
  /\ refused' = [c \in Conn |-> FALSE]
  /\ inStep' = [c \in Conn |-> IF heard[c] THEN Never ELSE inStep[c]]
  /\ UNCHANGED <<now, heartbeatVars, socketVars, tokens, lastRefillAt, recent>>

Next ==
  \/ Tick \/ Pass \/ ClockSetBack
  \/ \E c \in Conn :
       \/ Upgrade(c) \/ Register(c) \/ ServerCloses(c)
       \/ Pong(c) \/ PeerCloses(c) \/ PeerFallsSilent(c)
       \/ Frame(c)

Spec == Init /\ [][Next]_vars

-----------------------------------------------------------------------------
\* Properties

\* The heartbeat ends no socket whose peer answers in time: not one that was
\* opened between two ticks, is still waiting for SUBSCRIBE, sends pongs
\* nobody asked for, or is in the closing handshake.
OnlySilentPeersTerminated ==
  \A c \in Conn : endedBy[c] = "heartbeat" => lostAt[c] # Never

\* A socket whose peer fell silent, in whatever phase, is gone after two
\* intervals, whatever happens to the other sockets (heartbeat.ts:8).
SilentPeersReaped ==
  \A c \in Conn : lostAt[c] # Never /\ Tracked(c) => now <= lostAt[c] + 2 * Interval

\* Whenever the second begins, no more frames pass within it than a full
\* bucket and one second's refill allow, clock set back or not.
BurstBound ==
  \A c \in Conn : Len(recent[c]) * Second <= Capacity + Rate * (Second - 1)

\* A peer that sends at most Rate frames in any second has none refused, from
\* one second after its first frame since the clock was last set back.
WithinRateNeverRefused ==
  \A c \in Conn :
    refused[c] /\ inStep[c] + Second <= now => Len(recent[c]) >= Rate
=============================================================================
