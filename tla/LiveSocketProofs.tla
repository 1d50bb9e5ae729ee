--------------------------- MODULE LiveSocketProofs ---------------------------
(***************************************************************************)
(* Proofs about LiveSocket: the heartbeat and the token bucket, for any    *)
(* set of sockets and any interval, rate, resolution and clock setback.    *)
(***************************************************************************)
EXTENDS LiveSocket, FiniteSetTheorems, SequenceTheorems, TLAPS

USE DEF Time, Never

-----------------------------------------------------------------------------
\* Arithmetic

LEMMA TimesMonotone ==
  ASSUME NEW a \in Int, NEW b \in Int, NEW n \in Nat, a <= b
  PROVE  n * a <= n * b
OBVIOUS

LEMMA OneMore ==
  ASSUME NEW a \in Int, NEW n \in Int
  PROVE  n * (a + 1) = n * a + n
OBVIOUS

LEMMA ConstantsTyped ==
  /\ Rate \in Nat /\ Rate >= 1 /\ Second \in Nat /\ Second >= 1
  /\ Setback \in Nat /\ MaxTime \in Nat
BY LiveSocketAssumption

LEMMA CapacityNat == Capacity \in Nat /\ Capacity >= Second
BY LiveSocketAssumption, TimesMonotone DEF Capacity

\* A bucket holds between nothing and its capacity, however long ago, or in
\* whichever future, the clock says it was filled.
LEMMA RefilledRange ==
  ASSUME TypeOK, NEW c \in Conn
  PROVE  /\ Refilled(c) \in 0..Capacity
         /\ lastRefillAt[c] = Wall => Refilled(c) = tokens[c]
<1> DEFINE elapsed == MaxOf(0, Wall - lastRefillAt[c])
<1>1. elapsed \in Nat /\ (lastRefillAt[c] = Wall => elapsed = 0)
  BY LiveSocketAssumption DEF TypeOK, MaxOf, Wall
<1> HIDE DEF elapsed
<1>2. elapsed * Rate \in Nat /\ (elapsed = 0 => elapsed * Rate = 0)
  BY <1>1, LiveSocketAssumption
<1>3. Refilled(c) = MinOf(Capacity, tokens[c] + elapsed * Rate)
  BY DEF Refilled, elapsed
<1> QED
  BY <1>1, <1>2, <1>3, CapacityNat DEF TypeOK, MinOf

-----------------------------------------------------------------------------
\* Types

SocketsTyped ==
  /\ now \in Time /\ skew \in {0, Setback}
  /\ nextTick \in 1..(MaxTime + Interval)
  /\ ready \in [Conn -> {"NONE", "OPEN", "CLOSING", "CLOSED"}]
  /\ alive \in [Conn -> {"unset", "true", "false"}]
  /\ byeBy \in [Conn -> Nat]
  /\ lostAt \in [Conn -> Time \cup {Never}]
  /\ heard \in [Conn -> BOOLEAN]
  /\ endedBy \in [Conn -> {"nobody", "peer", "heartbeat"}]

BucketsTyped ==
  /\ tokens \in [Conn -> 0..Capacity]
  /\ lastRefillAt \in [Conn -> (-Setback)..MaxTime]
  /\ refused \in [Conn -> BOOLEAN]
  /\ recent \in [Conn -> Seq(Time)]
  /\ inStep \in [Conn -> Time \cup {Never}]

LEMMA TypeParts == TypeOK <=> SocketsTyped /\ BucketsTyped
BY DEF TypeOK, SocketsTyped, BucketsTyped

\* The frames that fell out of the last second are a prefix, at most all.
LEMMA StaleTyped ==
  ASSUME TypeOK, NEW c \in Conn
  PROVE  /\ IsFiniteSet(Stale(c))
         /\ Cardinality(Stale(c)) \in 0..Len(recent[c])
         /\ SubSeq(recent[c], Cardinality(Stale(c)) + 1, Len(recent[c])) \in Seq(Time)
<1>1. recent[c] \in Seq(Time) /\ Len(recent[c]) \in Nat
  BY DEF TypeOK
<1>2. /\ IsFiniteSet(1..Len(recent[c]))
      /\ Cardinality(1..Len(recent[c])) = Len(recent[c])
  <2>1. \A n \in Nat : IsFiniteSet(1..n) /\ Cardinality(1..n) = n
    <3> SUFFICES ASSUME NEW n \in Nat PROVE IsFiniteSet(1..n) /\ Cardinality(1..n) = n
      OBVIOUS
    <3>1. IsFiniteSet(1..n) /\ Cardinality(1..n) = IF 1 > n THEN 0 ELSE n - 1 + 1
      BY FS_Interval
    <3> QED
      BY <3>1
  <2> QED
    BY <1>1, <2>1
<1>3. /\ IsFiniteSet(Stale(c))
      /\ Cardinality(Stale(c)) \in Nat
      /\ Cardinality(Stale(c)) <= Len(recent[c])
  BY <1>2, FS_Subset, FS_CardinalityType DEF Stale
<1>4. ASSUME NEW i \in (Cardinality(Stale(c)) + 1)..Len(recent[c])
      PROVE  recent[c][i] \in Time
  <2>1. i \in 1..Len(recent[c])
    BY <1>1, <1>3
  <2> QED
    BY <1>1, <2>1, ElementOfSeq
<1>5. Cardinality(Stale(c)) + 1 \in Int /\ Len(recent[c]) \in Int
  BY <1>1, <1>3
<1> QED
  BY <1>1, <1>3, <1>4, <1>5, SubSeqProperties

LEMMA ForgetBucketsTyped ==
  ASSUME TypeOK, NEW gone, ForgetBuckets(gone)
  PROVE  BucketsTyped'
<1>1. <<>> \in Seq(Time)
  BY EmptySeq
<1>2. recent' \in [Conn -> Seq(Time)]
  BY <1>1 DEF ForgetBuckets, TypeOK
<1>3. 0 \in 0..Capacity /\ 0 \in (-Setback)..MaxTime
  BY CapacityNat, LiveSocketAssumption
<1>4. tokens' \in [Conn -> 0..Capacity] /\ lastRefillAt' \in [Conn -> (-Setback)..MaxTime]
  BY <1>3 DEF ForgetBuckets, TypeOK
<1>5. refused' \in [Conn -> BOOLEAN] /\ inStep' \in [Conn -> Time \cup {Never}]
  BY DEF ForgetBuckets, TypeOK
<1> QED
  BY <1>2, <1>4, <1>5 DEF BucketsTyped

LEMMA FrameBuckets ==
  ASSUME TypeOK, NEW c \in Conn, Frame(c)
  PROVE  BucketsTyped'
<1>1. Refilled(c) - (IF Passes(c) THEN Second ELSE 0) \in 0..Capacity
  BY RefilledRange, CapacityNat, LiveSocketAssumption DEF Passes
<1>2. tokens' \in [Conn -> 0..Capacity]
  BY <1>1 DEF Frame, TypeOK
<1>3. Append(recent[c], now) \in Seq(Time)
  BY AppendProperties DEF TypeOK
<1>4. recent' \in [Conn -> Seq(Time)]
  BY <1>3 DEF Frame, TypeOK
<1>5. Wall \in (-Setback)..MaxTime
  BY LiveSocketAssumption DEF TypeOK, Wall
<1>6. lastRefillAt' \in [Conn -> (-Setback)..MaxTime]
  BY <1>5 DEF Frame, RefillMark, TypeOK
<1>7. MinOf(inStep[c], now) \in Time \cup {Never}
  BY DEF TypeOK, MinOf
<1>8. inStep' \in [Conn -> Time \cup {Never}]
  BY <1>7 DEF Frame, TypeOK
<1>9. refused' \in [Conn -> BOOLEAN]
  BY DEF Frame, TypeOK, Passes
<1> QED
  BY <1>2, <1>4, <1>6, <1>8, <1>9 DEF BucketsTyped

LEMMA RegisterBuckets ==
  ASSUME TypeOK, NEW c \in Conn, Register(c)
  PROVE  BucketsTyped'
<1>1. Capacity \in 0..Capacity /\ Wall \in (-Setback)..MaxTime
  BY CapacityNat, LiveSocketAssumption DEF TypeOK, Wall
<1> QED
  BY <1>1 DEF Register, BucketsTyped, TypeOK

LEMMA InitTyped == Init => TypeOK
<1> SUFFICES ASSUME Init PROVE SocketsTyped /\ BucketsTyped
  BY TypeParts
<1>1. SocketsTyped
  BY LiveSocketAssumption DEF Init, SocketsTyped
<1>2. <<>> \in Seq(Time)
  BY EmptySeq
<1>3. BucketsTyped
  BY <1>2, CapacityNat, LiveSocketAssumption DEF Init, BucketsTyped
<1> QED
  BY <1>1, <1>3

LEMMA NextTyped == TypeOK /\ [Next]_vars => TypeOK'
<1> SUFFICES ASSUME TypeOK, SocketsTyped, BucketsTyped, [Next]_vars
             PROVE  SocketsTyped' /\ BucketsTyped'
  BY DEF TypeOK, SocketsTyped, BucketsTyped
<1> USE LiveSocketAssumption
<1>1. CASE Tick
  <2>1. SocketsTyped'
    BY <1>1 DEF SocketsTyped, Tick
  <2> QED
    BY <1>1, <2>1, ForgetBucketsTyped DEF Tick
<1>2. CASE Pass
  <2>1. SocketsTyped'
    BY <1>2 DEF SocketsTyped, Pass, heartbeatVars, socketVars
  <2>2. recent' \in [Conn -> Seq(Time)]
    BY <1>2, StaleTyped DEF Pass
  <2> QED
    BY <1>2, <2>1, <2>2 DEF Pass, BucketsTyped
<1>3. CASE ClockSetBack
  <2>1. SocketsTyped'
    BY <1>3 DEF SocketsTyped, ClockSetBack, heartbeatVars, socketVars
  <2> QED
    BY <1>3, <2>1 DEF ClockSetBack, BucketsTyped
<1>4. ASSUME NEW c \in Conn, Upgrade(c) \/ Pong(c) \/ ServerCloses(c) \/ PeerFallsSilent(c)
      PROVE  SocketsTyped' /\ BucketsTyped'
  <2>1. BucketsTyped'
    BY <1>4 DEF BucketsTyped, Upgrade, Pong, ServerCloses, PeerFallsSilent, bucketVars
  <2>2. CASE Upgrade(c)
    BY <2>1, <2>2 DEF SocketsTyped, Upgrade, heartbeatVars
  <2>3. CASE Pong(c)
    BY <2>1, <2>3 DEF SocketsTyped, Pong, socketVars
  <2>4. CASE ServerCloses(c)
    BY <2>1, <2>4 DEF SocketsTyped, ServerCloses, heartbeatVars
  <2>5. CASE PeerFallsSilent(c)
    BY <2>1, <2>5 DEF SocketsTyped, PeerFallsSilent
  <2> QED
    BY <1>4, <2>2, <2>3, <2>4, <2>5
<1>5. ASSUME NEW c \in Conn, Register(c) \/ Frame(c)
      PROVE  SocketsTyped' /\ BucketsTyped'
  <2>1. SocketsTyped'
    BY <1>5 DEF SocketsTyped, Register, Frame, heartbeatVars, socketVars
  <2> QED
    BY <1>5, <2>1, RegisterBuckets, FrameBuckets
<1>6. ASSUME NEW c \in Conn, PeerCloses(c) PROVE SocketsTyped' /\ BucketsTyped'
  <2>1. SocketsTyped'
    BY <1>6 DEF SocketsTyped, PeerCloses
  <2> QED
    BY <1>6, <2>1, ForgetBucketsTyped DEF PeerCloses
<1>7. CASE UNCHANGED vars
  BY <1>7 DEF SocketsTyped, BucketsTyped, vars, heartbeatVars, socketVars, bucketVars
<1> QED
  BY <1>1, <1>2, <1>3, <1>4, <1>5, <1>6, <1>7 DEF Next

\* Every reachable state is well typed: no bucket is overdrawn or overfull,
\* even when Date.now() is set back (rateLimiter.ts:21-30).
THEOREM LiveSocketTypeCorrect == Spec => []TypeOK
BY InitTyped, NextTyped, PTL DEF Spec

-----------------------------------------------------------------------------
\* The heartbeat

\* A tick is never overdue, nor more than an interval away.
TickTimely == now <= nextTick /\ nextTick <= now + Interval

\* A socket gets its entry in the WeakMap only once it is in wss.clients.
UnseenUnset == \A c \in Conn : ready[c] = "NONE" => alive[c] = "unset" /\ lostAt[c] = Never

\* A peer that is up has not answered the last ping only while it still may.
PingFresh ==
  \A c \in Conn : Up(c) /\ alive[c] = "false" => now <= nextTick - Interval + MaxRtt

\* A silent peer's socket is pinged once more at the most, and ended by the
\* tick after that.
SilenceCounted ==
  \A c \in Conn : lostAt[c] # Never /\ Tracked(c) =>
    /\ alive[c] = "false" => nextTick <= lostAt[c] + 2 * Interval
    /\ alive[c] # "false" => nextTick <= lostAt[c] + Interval

LEMMA TimesTyped ==
  ASSUME TypeOK
  PROVE  /\ now \in Nat /\ nextTick \in Nat /\ lostAt \in [Conn -> Nat]
         /\ Interval \in Nat /\ Interval > 0 /\ MaxRtt \in Nat /\ MaxRtt < Interval
         /\ 2 * Interval = Interval + Interval
BY LiveSocketAssumption DEF TypeOK

HeartbeatInv ==
  TickTimely /\ UnseenUnset /\ PingFresh /\ SilenceCounted /\ OnlySilentPeersTerminated

LEMMA TickHeartbeat ==
  ASSUME TypeOK, HeartbeatInv, Tick
  PROVE  HeartbeatInv'
<1> USE LiveSocketAssumption DEF TypeOK, HeartbeatInv, Tracked, Up
<1>1. UNCHANGED <<now, lostAt>> /\ now = nextTick /\ nextTick' = now + Interval
  BY DEF Tick
<1>2. TickTimely'
  BY <1>1 DEF TickTimely
<1>3. UnseenUnset'
  BY DEF Tick, UnseenUnset, Unanswered, Pinged
<1>4. PingFresh'
  BY <1>1 DEF PingFresh
<1>5. ASSUME NEW c \in Conn, lostAt[c] # Never, Tracked(c)'
      PROVE  /\ alive[c] # "false" /\ alive'[c] = "false" /\ Tracked(c)
             /\ nextTick <= lostAt[c] + Interval
  BY <1>5 DEF Tick, Unanswered, Pinged, SilenceCounted
<1>6. SilenceCounted'
  <2> HIDE DEF TypeOK
  <2>1. ASSUME NEW c \in Conn, lostAt[c] # Never, Tracked(c)'
        PROVE  nextTick' <= lostAt[c] + 2 * Interval
    <3>1. nextTick <= lostAt[c] + Interval
      BY <1>5, <2>1, <1>1
    <3> QED
      BY <1>1, <3>1, TimesTyped
  <2> QED
    BY <1>1, <1>5, <2>1 DEF SilenceCounted
<1>7. \A c \in Unanswered : lostAt[c] # Never
  BY <1>1 DEF Unanswered, PingFresh
<1>8. OnlySilentPeersTerminated'
  BY <1>1, <1>7 DEF Tick, OnlySilentPeersTerminated
<1> QED
  BY <1>2, <1>3, <1>4, <1>6, <1>8

LEMMA SocketHeartbeat ==
  ASSUME TypeOK, HeartbeatInv, NEW c \in Conn,
         \/ Upgrade(c) \/ Register(c) \/ ServerCloses(c)
         \/ Pong(c) \/ PeerCloses(c) \/ PeerFallsSilent(c)
         \/ Frame(c)
  PROVE  HeartbeatInv'
<1> USE LiveSocketAssumption
    DEF TypeOK, HeartbeatInv, Tracked, Up, TickTimely, UnseenUnset, PingFresh,
        SilenceCounted, OnlySilentPeersTerminated, heartbeatVars, socketVars, bucketVars
<1>1. CASE Upgrade(c)
  BY <1>1 DEF Upgrade
<1>2. CASE Register(c)
  BY <1>2 DEF Register
<1>3. CASE ServerCloses(c)
  BY <1>3 DEF ServerCloses
<1>4. CASE Pong(c)
  BY <1>4 DEF Pong
<1>5. CASE PeerCloses(c)
  BY <1>5 DEF PeerCloses
<1>6. CASE PeerFallsSilent(c)
  <2>1. UNCHANGED <<now, nextTick, alive, ready, endedBy>>
        /\ lostAt' = [lostAt EXCEPT ![c] = now]
    BY <1>6 DEF PeerFallsSilent
  <2>2. now # Never
    OBVIOUS
  <2>3. nextTick <= now + Interval /\ nextTick <= now + 2 * Interval
    <3> HIDE DEF TypeOK
    <3> QED
      BY TimesTyped
  <2>4. SilenceCounted'
    BY <2>1, <2>2, <2>3
  <2> QED
    BY <1>6, <2>1, <2>2, <2>4 DEF PeerFallsSilent
<1>7. CASE Frame(c)
  BY <1>7 DEF Frame
<1> QED
  BY <1>1, <1>2, <1>3, <1>4, <1>5, <1>6, <1>7

LEMMA NextHeartbeat == TypeOK /\ HeartbeatInv /\ [Next]_vars => HeartbeatInv'
<1> SUFFICES ASSUME TypeOK, HeartbeatInv, [Next]_vars PROVE HeartbeatInv'
  OBVIOUS
<1> USE LiveSocketAssumption
    DEF TypeOK, HeartbeatInv, Tracked, Up, TickTimely, UnseenUnset, PingFresh,
        SilenceCounted, OnlySilentPeersTerminated, heartbeatVars, socketVars, bucketVars
<1>1. CASE Tick
  BY <1>1, TickHeartbeat
<1>2. CASE Pass
  BY <1>2 DEF Pass, NothingDue
<1>3. CASE ClockSetBack
  BY <1>3 DEF ClockSetBack
<1>4. ASSUME NEW c \in Conn,
             \/ Upgrade(c) \/ Register(c) \/ ServerCloses(c)
             \/ Pong(c) \/ PeerCloses(c) \/ PeerFallsSilent(c)
             \/ Frame(c)
      PROVE  HeartbeatInv'
  BY <1>4, SocketHeartbeat
<1>5. CASE UNCHANGED vars
  BY <1>5 DEF vars
<1> QED
  BY <1>1, <1>2, <1>3, <1>4, <1>5 DEF Next

LEMMA InitHeartbeat == Init => HeartbeatInv
BY LiveSocketAssumption DEF Init, HeartbeatInv, TickTimely, UnseenUnset, PingFresh,
   SilenceCounted, OnlySilentPeersTerminated, Up, Tracked

\* The heartbeat never ends a socket whose peer answers its pings in time,
\* wherever between two ticks it was opened, and whatever phase it is in
\* (heartbeat.ts:16-22).
THEOREM HealthyPeersSpared == Spec => []OnlySilentPeersTerminated
<1>1. HeartbeatInv => OnlySilentPeersTerminated
  BY DEF HeartbeatInv
<1> QED
  BY InitTyped, InitHeartbeat, NextTyped, NextHeartbeat, <1>1, PTL DEF Spec

\* No socket outlives its silent peer by more than two intervals
\* (heartbeat.ts:8): not a half-open one, nor one in the closing handshake.
THEOREM SilentPeersGone == Spec => []SilentPeersReaped
<1>1. TypeOK /\ HeartbeatInv => SilentPeersReaped
  BY TimesTyped DEF HeartbeatInv, TickTimely, SilenceCounted, SilentPeersReaped
<1> QED
  BY InitTyped, InitHeartbeat, NextTyped, NextHeartbeat, <1>1, PTL DEF Spec
-----------------------------------------------------------------------------
\* The token bucket

Passed(c) == Len(recent[c])

\* The frames remembered are those of the last second, in order.
Chronicle(c) ==
  /\ \A i, j \in 1..Passed(c) : i <= j => recent[c][i] <= recent[c][j]
  /\ \A i \in 1..Passed(c) : now - Second < recent[c][i] /\ recent[c][i] <= now

\* What has passed since any of them, and what could pass now, had to be there
\* when that one came or be earned since.
Spent(c) ==
  \A i \in 1..Passed(c) :
    Second * (Passed(c) - i + 1) + Refilled(c) <= Capacity + Rate * (now - recent[c][i])

\* What a bucket in step with the clock has earned for w ticks it still has,
\* or it has been spent on the frames that came in these ticks.
Earned(c) ==
  \A k \in 0..Passed(c), w \in 0..Second :
    inStep[c] <= now - w /\ (k >= 1 => recent[c][k] <= now - w) =>
      Rate * w <= Second * (Passed(c) - k) + Refilled(c)

InStep(c) == inStep[c] # Never => inStep[c] <= now /\ lastRefillAt[c] <= Wall

\* Nothing passes before registerConnection() has attached its listener.
NotYetHeard(c) == ~heard[c] => recent[c] = <<>> /\ inStep[c] = Never /\ ~refused[c]

RefusedIsEmpty(c) == refused[c] => Refilled(c) < Second

BucketOK(c) ==
  /\ Chronicle(c) /\ Spent(c) /\ Earned(c)
  /\ InStep(c) /\ NotYetHeard(c) /\ RefusedIsEmpty(c)
BucketInv == \A c \in Conn : BucketOK(c)

\* A bucket of t tokens, e moments after its last refill.
Refill(t, e) == MinOf(Capacity, t + MaxOf(0, e) * Rate)

LEMMA RefillRange ==
  ASSUME NEW t \in 0..Capacity, NEW e \in Int
  PROVE  Refill(t, e) \in 0..Capacity /\ (e = 0 => Refill(t, e) = t)
<1>1. MaxOf(0, e) \in Nat /\ (e = 0 => MaxOf(0, e) = 0)
  BY DEF MaxOf
<1>2. MaxOf(0, e) * Rate \in Nat /\ (MaxOf(0, e) = 0 => MaxOf(0, e) * Rate = 0)
  BY <1>1, LiveSocketAssumption
<1> QED
  BY <1>1, <1>2, CapacityNat DEF Refill, MinOf

\* A tick adds Rate at most, and just that if neither the capacity nor a clock
\* that runs behind the last refill is in the way.
LEMMA RefillLater ==
  ASSUME NEW t \in 0..Capacity, NEW e \in Int
  PROVE  /\ Refill(t, e + 1) <= Refill(t, e) + Rate
         /\ e >= 0 => Refill(t, e + 1) \in {Capacity, Refill(t, e) + Rate}
<1>1. /\ MaxOf(0, e) \in Nat
      /\ MaxOf(0, e + 1) \in {MaxOf(0, e), MaxOf(0, e) + 1}
      /\ e >= 0 => MaxOf(0, e + 1) = MaxOf(0, e) + 1
  BY DEF MaxOf
<1>2. /\ MaxOf(0, e) * Rate \in Nat
      /\ (MaxOf(0, e) + 1) * Rate = MaxOf(0, e) * Rate + Rate
  BY <1>1, LiveSocketAssumption
<1>3. Rate \in Nat
  BY LiveSocketAssumption
<1> QED
  BY <1>1, <1>2, <1>3, CapacityNat DEF Refill, MinOf

LEMMA RefillEarlier ==
  ASSUME NEW t \in 0..Capacity, NEW e \in Int, NEW d \in Nat
  PROVE  Refill(t, e - d) <= Refill(t, e)
<1>1. MaxOf(0, e) \in Nat /\ MaxOf(0, e - d) \in Nat /\ MaxOf(0, e - d) <= MaxOf(0, e)
  BY DEF MaxOf
<1>2. /\ MaxOf(0, e) * Rate \in Nat /\ MaxOf(0, e - d) * Rate \in Nat
      /\ MaxOf(0, e - d) * Rate <= MaxOf(0, e) * Rate
  BY <1>1, LiveSocketAssumption
<1> QED
  BY <1>1, <1>2, CapacityNat DEF Refill, MinOf

LEMMA BucketNumbers ==
  ASSUME TypeOK, NEW c \in Conn
  PROVE  /\ now \in Nat /\ now < Never /\ skew \in Int /\ Wall \in Int
         /\ tokens[c] \in 0..Capacity /\ lastRefillAt[c] \in Int
         /\ recent[c] \in Seq(Time) /\ Passed(c) \in Nat
         /\ \A i \in 1..Passed(c) : recent[c][i] \in Nat
         /\ inStep[c] \in Nat
         /\ Refilled(c) = Refill(tokens[c], Wall - lastRefillAt[c])
         /\ Refilled(c) \in 0..Capacity
<1>1. now \in Nat /\ now < Never /\ skew \in Int /\ Wall \in Int
  BY LiveSocketAssumption DEF TypeOK, Wall
<1>2. tokens[c] \in 0..Capacity /\ lastRefillAt[c] \in Int /\ inStep[c] \in Nat
  BY LiveSocketAssumption DEF TypeOK
<1>3. recent[c] \in Seq(Time) /\ Passed(c) \in Nat
  BY DEF TypeOK, Passed
<1>4. ASSUME NEW i \in 1..Passed(c) PROVE recent[c][i] \in Nat
  <2>1. recent[c][i] \in Time
    BY <1>3, ElementOfSeq DEF Passed
  <2> QED
    BY <2>1, LiveSocketAssumption
<1>5. Refilled(c) = Refill(tokens[c], Wall - lastRefillAt[c])
  BY DEF Refilled, Refill
<1>6. Refilled(c) \in 0..Capacity
  BY <1>1, <1>2, <1>5, RefillRange
<1> QED
  BY <1>1, <1>2, <1>3, <1>4, <1>5, <1>6

LEMMA BucketKept ==
  ASSUME NEW c \in Conn, BucketOK(c), UNCHANGED <<now, skew>>,
         heard'[c] = heard[c], tokens'[c] = tokens[c],
         lastRefillAt'[c] = lastRefillAt[c], refused'[c] = refused[c],
         recent'[c] = recent[c], inStep'[c] = inStep[c]
  PROVE  BucketOK(c)'
<1>1. Wall' = Wall
  BY DEF Wall
<1>2. Refilled(c)' = Refilled(c) /\ Passed(c)' = Passed(c)
  BY <1>1 DEF Refilled, Passed
<1> QED
  BY <1>1, <1>2 DEF BucketOK, Chronicle, Spent, Earned, InStep, NotYetHeard, RefusedIsEmpty

LEMMA BucketForgotten ==
  ASSUME TypeOK, NEW c \in Conn, UNCHANGED now,
         refused'[c] = FALSE, recent'[c] = <<>>, inStep'[c] = Never
  PROVE  BucketOK(c)'
<1>1. Passed(c)' = 0
  BY DEF Passed
<1>2. now' < inStep'[c] /\ now' \in Nat /\ inStep'[c] \in Nat
  BY BucketNumbers, LiveSocketAssumption
<1>3. \A w \in Nat : ~(inStep'[c] <= now' - w)
  BY <1>2
<1>4. 0..Second \subseteq Nat
  OBVIOUS
<1> QED
  BY <1>1, <1>2, <1>3, <1>4
     DEF BucketOK, Chronicle, Spent, Earned, InStep, NotYetHeard, RefusedIsEmpty

\* Setting the clock back takes what it would have refilled, and no socket that
\* has a bucket is in step until its next frame.
LEMMA BucketSetBack ==
  ASSUME TypeOK, NEW c \in Conn, BucketOK(c), ClockSetBack
  PROVE  BucketOK(c)'
<1> DEFINE e == Wall - lastRefillAt[c]
<1>1. /\ UNCHANGED <<now, tokens, lastRefillAt, recent, heard>>
      /\ skew' = skew + Setback
      /\ ~refused'[c]
      /\ inStep'[c] = Never
  BY LiveSocketAssumption
     DEF ClockSetBack, socketVars, TypeOK, BucketOK, NotYetHeard
<1>2. e \in Int /\ Setback \in Nat
  BY BucketNumbers, ConstantsTyped
<1>3. Wall' - lastRefillAt'[c] = e - Setback
  <2>1. /\ now \in Int /\ skew \in Int /\ lastRefillAt[c] \in Int /\ Setback \in Int
    BY BucketNumbers, ConstantsTyped
  <2> QED
    BY <1>1, <2>1 DEF Wall
<1>4. Refilled(c)' = Refill(tokens[c], e - Setback) /\ Refilled(c) = Refill(tokens[c], e)
  BY <1>1, <1>3 DEF Refilled, Refill
<1> HIDE DEF e
<1>5. /\ Refilled(c)' \in Nat /\ Refilled(c) \in Nat /\ Refilled(c)' <= Refilled(c)
  <2>1. tokens[c] \in 0..Capacity /\ e - Setback \in Int
    BY <1>2, BucketNumbers
  <2>2. Refill(tokens[c], e - Setback) \in 0..Capacity
    BY <2>1, RefillRange
  <2>3. Refill(tokens[c], e) \in 0..Capacity
    BY <1>2, <2>1, RefillRange
  <2>4. Refill(tokens[c], e - Setback) <= Refill(tokens[c], e)
    BY <1>2, <2>1, RefillEarlier
  <2> QED
    BY <1>4, <2>2, <2>3, <2>4, CapacityNat
<1>6. Chronicle(c)'
  BY <1>1 DEF BucketOK, Chronicle, Passed
<1>7. Spent(c)'
  <2> SUFFICES ASSUME NEW i \in 1..Passed(c)
               PROVE  Second * (Passed(c) - i + 1) + Refilled(c)'
                        <= Capacity + Rate * (now - recent[c][i])
    BY <1>1 DEF Spent, Passed
  <2>1. Second * (Passed(c) - i + 1) + Refilled(c) <= Capacity + Rate * (now - recent[c][i])
    BY DEF BucketOK, Spent
  <2>2. Passed(c) - i + 1 \in Int /\ now - recent[c][i] \in Int
    BY BucketNumbers
  <2>3. /\ Second * (Passed(c) - i + 1) \in Int
        /\ Capacity + Rate * (now - recent[c][i]) \in Int
    BY <2>2, ConstantsTyped, CapacityNat
  <2> QED
    BY <1>5, <2>1, <2>3
<1>8. \A w \in 0..Second : ~(inStep'[c] <= now' - w)
  BY <1>1, BucketNumbers, ConstantsTyped
<1>9. ~(inStep'[c] <= now')
  BY <1>1, BucketNumbers, ConstantsTyped
<1> QED
  BY <1>1, <1>6, <1>7, <1>8, <1>9
     DEF BucketOK, Earned, InStep, NotYetHeard, RefusedIsEmpty

LEMMA BucketRegister ==
  ASSUME TypeOK, NEW c \in Conn, BucketOK(c), Register(c)
  PROVE  BucketOK(c)'
<1>1. /\ UNCHANGED <<now, skew>> /\ Wall' = Wall
      /\ tokens'[c] = Capacity /\ lastRefillAt'[c] = Wall /\ inStep'[c] = now
      /\ recent'[c] = recent[c] /\ refused'[c] = refused[c] /\ heard'[c]
      /\ recent[c] = <<>> /\ ~refused[c]
  BY DEF Register, Wall, TypeOK, BucketOK, NotYetHeard
<1>2. Passed(c)' = 0
  BY <1>1 DEF Passed
<1>3. Refilled(c)' \in Nat
  <2>1. Wall - Wall = 0
    BY BucketNumbers
  <2>2. Refilled(c)' = Refill(Capacity, 0)
    BY <1>1, <2>1 DEF Refilled, Refill
  <2>3. Capacity \in 0..Capacity
    BY CapacityNat
  <2>4. Refill(Capacity, 0) \in 0..Capacity
    BY <2>3, RefillRange
  <2> QED
    BY <2>2, <2>4, CapacityNat
<1>4. Earned(c)'
  <2> SUFFICES ASSUME NEW w \in 0..Second, now <= now - w
               PROVE  Rate * w <= Second * (0 - 0) + Refilled(c)'
    BY <1>1, <1>2 DEF Earned
  <2>1. w = 0
    BY BucketNumbers
  <2> QED
    BY <1>3, <2>1, LiveSocketAssumption
<1> QED
  BY <1>1, <1>2, <1>4, BucketNumbers
     DEF BucketOK, Chronicle, Spent, InStep, NotYetHeard, RefusedIsEmpty

LEMMA BucketFrame ==
  ASSUME TypeOK, TypeOK', NEW c \in Conn, BucketOK(c), Frame(c)
  PROVE  BucketOK(c)'
<1> DEFINE n == Passed(c)
<1>1. /\ UNCHANGED <<now, skew, heard>> /\ heard[c] /\ Wall' = Wall
      /\ lastRefillAt'[c] = Wall
      /\ tokens'[c] = Refilled(c) - (IF Passes(c) THEN Second ELSE 0)
      /\ refused'[c] = ~Passes(c)
      /\ recent'[c] = IF Passes(c) THEN Append(recent[c], now) ELSE recent[c]
      /\ inStep'[c] = MinOf(inStep[c], now)
  BY DEF Frame, RefillMark, socketVars, TypeOK, Wall
<1>2. Refilled(c)' = tokens'[c]
  <2>1. Wall - Wall = 0
    BY BucketNumbers
  <2>2. Refilled(c)' = Refill(tokens'[c], 0)
    BY <1>1, <2>1 DEF Refilled, Refill
  <2>3. tokens'[c] \in 0..Capacity
    BY DEF TypeOK
  <2> QED
    BY <2>2, <2>3, RefillRange
<1>3. /\ n \in Nat /\ now \in Nat /\ Second \in Nat /\ Rate \in Nat /\ Capacity \in Nat
      /\ Refilled(c) \in Nat /\ Refilled(c) <= Capacity
      /\ inStep[c] \in Nat
      /\ \A i \in 1..n : recent[c][i] \in Nat
  BY BucketNumbers, CapacityNat, LiveSocketAssumption
<1>4. InStep(c)' /\ NotYetHeard(c)'
  <2>1. MinOf(inStep[c], now) <= now
    BY <1>3 DEF MinOf
  <2>2. Wall \in Int
    BY BucketNumbers
  <2>3. InStep(c)'
    BY <1>1, <2>1, <2>2 DEF InStep
  <2>4. NotYetHeard(c)'
    BY <1>1 DEF NotYetHeard
  <2> QED
    BY <2>3, <2>4
<1>5. CASE Passes(c)
  <2>1. /\ Passed(c)' = n + 1
        /\ \A i \in 1..n : recent'[c][i] = recent[c][i]
        /\ recent'[c][n + 1] = now
    BY <1>1, <1>5, AppendProperties, BucketNumbers DEF Passed, TypeOK
  <2>2. Refilled(c)' = Refilled(c) - Second
    BY <1>1, <1>2, <1>5
  <2>3. Chronicle(c)'
    <3>1. /\ \A i, j \in 1..n : i <= j => recent[c][i] <= recent[c][j]
          /\ \A i \in 1..n : now - Second < recent[c][i] /\ recent[c][i] <= now
      BY DEF BucketOK, Chronicle
    <3>2. /\ now' = now /\ Second \in Nat /\ Second >= 1
          /\ \A i \in 1..(n + 1) : i \in 1..n \/ i = n + 1
      BY <1>1, <1>3, ConstantsTyped
    <3> HIDE DEF n
    <3> QED
      BY <1>3, <2>1, <3>1, <3>2 DEF Chronicle
  <2>4. Spent(c)'
    <3> SUFFICES ASSUME NEW i \in 1..Passed(c)'
                 PROVE  Second * (Passed(c)' - i + 1) + Refilled(c)'
                          <= Capacity + Rate * (now' - recent'[c][i])
      BY DEF Spent
    <3>1. CASE i = n + 1
      <4>1. recent'[c][i] = now /\ now' = now
        BY <1>1, <2>1, <3>1
      <4>2. Passed(c)' - i + 1 = 1 /\ now' - recent'[c][i] = 0
        BY <1>3, <2>1, <3>1, <4>1
      <4> QED
        BY <1>3, <2>2, <4>2
    <3>2. CASE i \in 1..n
      <4>1. Second * (n - i + 1) + Refilled(c) <= Capacity + Rate * (now - recent[c][i])
        BY <3>2 DEF BucketOK, Spent
      <4>2. Passed(c)' - i + 1 = (n - i + 1) + 1 /\ n - i + 1 \in Int
        BY <1>3, <2>1
      <4>3. Second * (Passed(c)' - i + 1) = Second * (n - i + 1) + Second
        BY <1>3, <4>2, OneMore
      <4>4. Rate * (now' - recent'[c][i]) = Rate * (now - recent[c][i])
        BY <1>1, <2>1, <3>2
      <4>5. /\ Second * (n - i + 1) \in Int /\ Rate * (now - recent[c][i]) \in Int
        BY <1>3, <3>2
      <4> HIDE DEF n
      <4> QED
        BY <1>3, <2>2, <4>1, <4>3, <4>4, <4>5
    <3> QED
      BY <1>3, <2>1, <3>1, <3>2
  <2>5. Earned(c)'
    <3> SUFFICES ASSUME NEW k \in 0..Passed(c)', NEW w \in 0..Second,
                        inStep'[c] <= now' - w, k >= 1 => recent'[c][k] <= now' - w
                 PROVE  Rate * w <= Second * (Passed(c)' - k) + Refilled(c)'
      BY DEF Earned
    <3>1. CASE w = 0
      <4>1. Second * (Passed(c)' - k) >= 0 /\ Second * (Passed(c)' - k) \in Int
        BY <1>3, <2>1
      <4>2. Refilled(c)' >= 0 /\ Refilled(c)' \in Int
        BY <1>3, <1>5, <2>2 DEF Passes
      <4> QED
        BY <1>3, <3>1, <4>1, <4>2
    <3>2. CASE w >= 1
      <4>1. inStep[c] <= now - w
        BY <1>1, <1>3, <3>2 DEF MinOf
      <4>2. k \in 0..n
        <5> HIDE DEF n
        <5>1. ~(now <= now - w)
          BY <1>3, <3>2
        <5>2. now' = now
          BY <1>1
        <5>3. ASSUME k = n + 1 PROVE FALSE
          <6>1. recent'[c][k] = now
            BY <2>1, <5>3
          <6>2. k >= 1
            BY <1>3, <5>3
          <6> QED
            BY <5>1, <5>2, <6>1, <6>2
        <5> QED
          BY <1>3, <2>1, <5>3
      <4>3. k >= 1 => recent[c][k] <= now - w
        <5> HIDE DEF n
        <5>1. k >= 1 => k \in 1..n
          BY <1>3, <4>2
        <5> QED
          BY <1>1, <1>3, <2>1, <5>1
      <4>4. Rate * w <= Second * (n - k) + Refilled(c)
        BY <4>1, <4>2, <4>3 DEF BucketOK, Earned
      <4>5. Passed(c)' - k = (n - k) + 1 /\ n - k \in Int
        BY <1>3, <2>1
      <4>6. Second * (Passed(c)' - k) = Second * (n - k) + Second
        BY <1>3, <4>5, OneMore
      <4>7. Rate * w \in Int /\ Second * (n - k) \in Int
        BY <1>3, <4>5
      <4> HIDE DEF n
      <4> QED
        BY <1>3, <2>2, <4>4, <4>6, <4>7
    <3> QED
      BY <1>3, <3>1, <3>2
  <2> QED
    BY <1>1, <1>4, <1>5, <2>3, <2>4, <2>5 DEF BucketOK, RefusedIsEmpty
<1>6. CASE ~Passes(c)
  <2>1. Refilled(c)' = Refilled(c) /\ recent'[c] = recent[c] /\ Passed(c)' = n
    BY <1>1, <1>2, <1>3, <1>6 DEF Passed
  <2>2. Refilled(c) < Second
    BY <1>3, <1>6 DEF Passes
  <2>3. Earned(c)'
    <3> SUFFICES ASSUME NEW k \in 0..n, NEW w \in 0..Second,
                        inStep'[c] <= now - w, k >= 1 => recent[c][k] <= now - w
                 PROVE  Rate * w <= Second * (n - k) + Refilled(c)
      BY <1>1, <2>1 DEF Earned
    <3>1. CASE w = 0
      <4>1. Second * (n - k) >= 0
        BY <1>3, TimesMonotone
      <4> QED
        BY <1>3, <3>1, <4>1
    <3>2. CASE w >= 1
      <4>1. inStep[c] <= now - w
        BY <1>1, <1>3, <3>2 DEF MinOf
      <4> QED
        BY <4>1 DEF BucketOK, Earned
    <3> QED
      BY <1>3, <3>1, <3>2
  <2> QED
    BY <1>1, <1>4, <2>1, <2>2, <2>3 DEF BucketOK, Chronicle, Spent, RefusedIsEmpty
<1> QED
  BY <1>5, <1>6

\* When time passes, only the frames that fell out of the second are forgotten.
LEMMA FramesForgotten ==
  ASSUME TypeOK, NEW c \in Conn, Chronicle(c), Pass
  PROVE  \E gone \in 0..Passed(c) :
           /\ Passed(c)' = Passed(c) - gone
           /\ \A i \in 1..(Passed(c) - gone) :
                /\ recent'[c][i] = recent[c][i + gone]
                /\ now + 1 - Second < recent'[c][i]
           /\ gone >= 1 => recent[c][gone] <= now + 1 - Second
<1> DEFINE S == Stale(c)
           n == Passed(c)
           d == Cardinality(S)
<1>1. /\ IsFiniteSet(S) /\ d \in 0..n
      /\ recent[c] \in Seq(Time) /\ n \in Nat
      /\ \A i \in 1..n : recent[c][i] \in Nat
      /\ now + 1 - Second \in Int
  BY StaleTyped, BucketNumbers, ConstantsTyped DEF Passed
<1>2. \A i \in 1..n : i \in S <=> recent[c][i] <= now + 1 - Second
  BY DEF Stale, Passed
<1>3. S \subseteq 1..n
  BY DEF Stale, Passed
<1>4. \A i, j \in 1..n : i <= j /\ j \in S => i \in S
  <2>1. \A i, j \in 1..n : i <= j => recent[c][i] <= recent[c][j]
    BY DEF Chronicle
  <2> HIDE DEF S, n
  <2> QED
    BY <1>1, <1>2, <2>1
<1>5. recent'[c] = SubSeq(recent[c], d + 1, n)
  BY DEF Pass, Passed
<1> HIDE DEF S, n, d
<1>6. \A m \in Nat : IsFiniteSet(1..m) /\ Cardinality(1..m) = m
  <2> SUFFICES ASSUME NEW m \in Nat PROVE IsFiniteSet(1..m) /\ Cardinality(1..m) = m
    OBVIOUS
  <2>1. IsFiniteSet(1..m) /\ Cardinality(1..m) = IF 1 > m THEN 0 ELSE m - 1 + 1
    BY FS_Interval
  <2> QED
    BY <2>1
\* If the d-th frame were not stale, there would be fewer than d stale ones.
<1>7. d >= 1 => d \in S
  <2> SUFFICES ASSUME d >= 1, d \notin S PROVE FALSE
    OBVIOUS
  <2>1. S \subseteq 1..(d - 1)
    BY <1>1, <1>3, <1>4
  <2>2. d <= d - 1
    <3>1. d - 1 \in Nat
      BY <1>1
    <3>2. IsFiniteSet(1..(d - 1)) /\ Cardinality(1..(d - 1)) = d - 1
      BY <1>6, <3>1
    <3> QED
      BY <2>1, <3>2, FS_Subset DEF d
  <2> QED
    BY <1>1, <2>2
\* If the next one were, there would be more.
<1>8. \A i \in (d + 1)..n : i \notin S
  <2> SUFFICES ASSUME NEW i \in (d + 1)..n, i \in S PROVE FALSE
    OBVIOUS
  <2>1. 1..(d + 1) \subseteq S
    BY <1>1, <1>4
  <2>2. Cardinality(1..(d + 1)) <= d
    BY <1>1, <2>1, FS_Subset DEF d
  <2>3. Cardinality(1..(d + 1)) = d + 1
    BY <1>1, <1>6
  <2> QED
    BY <1>1, <2>2, <2>3
<1>9. /\ Len(recent'[c]) = n - d
      /\ \A i \in 1..(n - d) : recent'[c][i] = recent[c][i + d]
  <2>1. d + 1 \in Int /\ n \in Int
    BY <1>1
  <2>2. \A i \in (d + 1)..n : recent[c][i] \in Nat
    BY <1>1
  <2>3. /\ Len(SubSeq(recent[c], d + 1, n)) = IF d + 1 <= n THEN n - (d + 1) + 1 ELSE 0
        /\ \A i \in 1..(n - (d + 1) + 1) :
             SubSeq(recent[c], d + 1, n)[i] = recent[c][d + 1 + i - 1]
    BY <2>1, <2>2, SubSeqProperties
  <2>4. n - (d + 1) + 1 = n - d /\ \A i \in Int : d + 1 + i - 1 = i + d
    BY <1>1
  <2> QED
    BY <1>1, <1>5, <2>3, <2>4
<1>10. ASSUME NEW i \in 1..(n - d)
       PROVE  recent'[c][i] = recent[c][i + d] /\ now + 1 - Second < recent'[c][i]
  <2>1. i + d \in (d + 1)..n /\ i + d \in 1..n
    BY <1>1
  <2>2. ~(recent[c][i + d] <= now + 1 - Second)
    BY <1>2, <1>8, <2>1
  <2> QED
    BY <1>1, <1>9, <2>1, <2>2
<1>11. d >= 1 => recent[c][d] <= now + 1 - Second
  BY <1>1, <1>2, <1>7
<1>12. Passed(c)' = n - d
  BY <1>9 DEF Passed
<1> QED
  BY <1>1, <1>10, <1>11, <1>12 DEF n

LEMMA BucketPass ==
  ASSUME TypeOK, TypeOK', NEW c \in Conn, BucketOK(c), Pass
  PROVE  BucketOK(c)'
<1> DEFINE n == Passed(c)
           e == Wall - lastRefillAt[c]
<1>1. /\ now' = now + 1 /\ ~refused'[c]
      /\ UNCHANGED <<skew, heard, tokens, lastRefillAt, inStep>>
  BY DEF Pass, socketVars
<1>2. /\ n \in Nat /\ now \in Nat /\ now < Never /\ inStep[c] \in Nat
      /\ Second \in Nat /\ Second >= 1 /\ Rate \in Nat /\ Capacity \in Nat
      /\ \A i \in 1..n : recent[c][i] \in Nat
      /\ e \in Int /\ tokens[c] \in 0..Capacity
  BY BucketNumbers, ConstantsTyped, CapacityNat
<1>3. Wall' - lastRefillAt'[c] = e + 1
  <2>1. now \in Int /\ skew \in Int /\ lastRefillAt[c] \in Int
    BY BucketNumbers
  <2> QED
    BY <1>1, <2>1 DEF Wall
<1>4. Refilled(c)' = Refill(tokens[c], e + 1) /\ Refilled(c) = Refill(tokens[c], e)
  BY <1>1, <1>3 DEF Refilled, Refill
<1>5. InStep(c) /\ Earned(c) /\ Spent(c) /\ Chronicle(c) /\ NotYetHeard(c)
  BY DEF BucketOK
<1>6. inStep[c] <= now => e >= 0
  <2>1. Wall \in Int /\ lastRefillAt[c] \in Int
    BY BucketNumbers
  <2> QED
    BY <1>2, <1>5, <2>1 DEF InStep
<1> HIDE DEF e
<1>7. /\ Refilled(c)' \in Nat /\ Refilled(c) \in Nat
      /\ Refilled(c)' <= Refilled(c) + Rate
      /\ inStep[c] <= now => Refilled(c)' \in {Capacity, Refilled(c) + Rate}
  <2>1. e + 1 \in Int
    BY <1>2
  <2>2. Refill(tokens[c], e + 1) \in 0..Capacity /\ Refill(tokens[c], e) \in 0..Capacity
    BY <1>2, <2>1, RefillRange
  <2>3. /\ Refill(tokens[c], e + 1) <= Refill(tokens[c], e) + Rate
        /\ e >= 0 => Refill(tokens[c], e + 1) \in {Capacity, Refill(tokens[c], e) + Rate}
    BY <1>2, RefillLater
  <2> QED
    BY <1>2, <1>4, <1>6, <2>2, <2>3
<1>8. PICK gone \in 0..n :
           /\ Passed(c)' = n - gone
           /\ \A i \in 1..(n - gone) :
                /\ recent'[c][i] = recent[c][i + gone]
                /\ now + 1 - Second < recent'[c][i]
           /\ gone >= 1 => recent[c][gone] <= now + 1 - Second
  BY <1>5, FramesForgotten
<1>9. Chronicle(c)'
  <2>1. /\ \A i, j \in 1..n : i <= j => recent[c][i] <= recent[c][j]
        /\ \A i \in 1..n : recent[c][i] <= now
    BY <1>5 DEF Chronicle
  <2> HIDE DEF n
  <2>2. \A i \in 1..(n - gone) : i + gone \in 1..n
    BY <1>2
  <2>3. ASSUME NEW i \in 1..(n - gone), NEW j \in 1..(n - gone), i <= j
        PROVE  recent'[c][i] <= recent'[c][j]
    <3>1. i + gone \in 1..n /\ j + gone \in 1..n /\ i + gone <= j + gone
      BY <1>2, <2>2, <2>3
    <3> QED
      BY <1>8, <2>1, <3>1
  <2>4. ASSUME NEW i \in 1..(n - gone)
        PROVE  now' - Second < recent'[c][i] /\ recent'[c][i] <= now'
    <3>1. recent'[c][i] <= now /\ recent'[c][i] \in Nat
      BY <1>2, <1>8, <2>1, <2>2
    <3>2. now + 1 - Second < recent'[c][i]
      BY <1>8
    <3> QED
      BY <1>1, <1>2, <3>1, <3>2
  <2> QED
    BY <1>8, <2>3, <2>4 DEF Chronicle
<1>10. Spent(c)'
  <2> SUFFICES ASSUME NEW i \in 1..Passed(c)'
               PROVE  Second * (Passed(c)' - i + 1) + Refilled(c)'
                        <= Capacity + Rate * (now' - recent'[c][i])
    BY DEF Spent
  <2>1. i + gone \in 1..n /\ recent'[c][i] = recent[c][i + gone]
    BY <1>2, <1>8
  <2>2. Second * (n - (i + gone) + 1) + Refilled(c)
          <= Capacity + Rate * (now - recent[c][i + gone])
    BY <1>5, <2>1 DEF Spent
  <2> HIDE DEF n
  <2>3. Passed(c)' - i + 1 = n - (i + gone) + 1
    BY <1>2, <1>8
  <2>4. now' - recent'[c][i] = (now - recent[c][i + gone]) + 1 /\ now - recent[c][i + gone] \in Int
    BY <1>1, <1>2, <2>1
  <2>5. Rate * (now' - recent'[c][i]) = Rate * (now - recent[c][i + gone]) + Rate
    BY <1>2, <2>4, OneMore
  <2>6. /\ Second * (n - (i + gone) + 1) \in Int
        /\ Rate * (now - recent[c][i + gone]) \in Int
    BY <1>2, <2>1, <2>4
  <2> QED
    BY <1>2, <1>7, <2>2, <2>3, <2>5, <2>6
<1>11. Earned(c)'
  <2> SUFFICES ASSUME NEW k \in 0..Passed(c)', NEW w \in 0..Second,
                      inStep'[c] <= now' - w, k >= 1 => recent'[c][k] <= now' - w
               PROVE  Rate * w <= Second * (Passed(c)' - k) + Refilled(c)'
    BY DEF Earned
  <2>1. Second * (Passed(c)' - k) \in Nat
    BY <1>2, <1>8
  <2>2. CASE w = 0
    BY <1>2, <1>7, <2>1, <2>2
  <2>3. CASE w >= 1
    <3>1. w - 1 \in 0..Second /\ k + gone \in 0..n /\ inStep[c] <= now - (w - 1)
      BY <1>1, <1>2, <1>8, <2>3
    <3>2. k + gone >= 1 => recent[c][k + gone] <= now - (w - 1)
      <4> HIDE DEF n
      <4>1. CASE k >= 1
        <5>1. recent'[c][k] <= now' - w /\ recent'[c][k] = recent[c][k + gone]
          BY <1>2, <1>8, <4>1
        <5>2. k + gone \in 1..n
          BY <1>2, <1>8, <4>1
        <5> QED
          BY <1>1, <1>2, <5>1, <5>2
      <4>2. CASE k = 0 /\ gone >= 1
        <5>1. recent[c][gone] <= now + 1 - Second /\ gone \in 1..n /\ k + gone = gone
          BY <1>2, <1>8, <4>2
        <5>2. now + 1 - Second <= now - (w - 1)
          BY <1>2
        <5> QED
          BY <1>2, <5>1, <5>2
      <4> QED
        BY <1>2, <1>8, <4>1, <4>2
    <3>3. Rate * (w - 1) <= Second * (n - (k + gone)) + Refilled(c)
      BY <1>5, <3>1, <3>2 DEF Earned
    <3> HIDE DEF n
    <3>4. n - (k + gone) = Passed(c)' - k
      BY <1>2, <1>8
    <3>5. Rate * w = Rate * (w - 1) + Rate
      <4>1. w - 1 \in Int /\ (w - 1) + 1 = w
        BY <1>2
      <4> QED
        BY <1>2, <4>1, OneMore
    <3>6. Rate * (w - 1) \in Int /\ Rate * w <= Capacity
      BY <1>2, TimesMonotone DEF Capacity
    <3>7. Refilled(c)' \in {Capacity, Refilled(c) + Rate}
      BY <1>2, <1>7, <3>1
    <3> QED
      BY <1>2, <1>7, <2>1, <3>3, <3>4, <3>5, <3>6, <3>7
  <2> QED
    BY <1>2, <2>2, <2>3
<1>12. InStep(c)' /\ NotYetHeard(c)'
  <2>1. now < MaxTime /\ now' = now + 1
    BY DEF Pass
  <2>2. InStep(c)'
    <3> SUFFICES ASSUME inStep[c] # Never PROVE inStep[c] <= now' /\ lastRefillAt'[c] <= Wall'
      BY <1>1 DEF InStep
    <3>1. inStep[c] <= now /\ lastRefillAt[c] <= Wall
      BY <1>5 DEF InStep
    <3>2. Wall \in Int /\ lastRefillAt[c] \in Int /\ skew \in Int
      BY BucketNumbers
    <3> QED
      BY <1>1, <1>2, <3>1, <3>2 DEF Wall
  <2>3. NotYetHeard(c)'
    <3> SUFFICES ASSUME ~heard[c] PROVE recent'[c] = <<>>
      BY <1>1, <1>5 DEF NotYetHeard
    <3>1. n = 0
      BY <1>5 DEF NotYetHeard, Passed
    <3>2. Len(recent'[c]) = 0
      BY <1>8, <3>1 DEF Passed
    <3>3. recent'[c] \in Seq(Time)
      BY DEF TypeOK
    <3> QED
      BY <3>2, <3>3, EmptySeq
  <2> QED
    BY <2>2, <2>3
<1> QED
  BY <1>1, <1>9, <1>10, <1>11, <1>12 DEF BucketOK, RefusedIsEmpty

LEMMA InitBuckets == Init => BucketInv
<1> SUFFICES ASSUME Init, NEW c \in Conn PROVE BucketOK(c)
  BY DEF BucketInv
<1>1. /\ now = 0 /\ recent[c] = <<>> /\ inStep[c] = Never /\ ~refused[c]
  BY DEF Init
<1>2. Passed(c) = 0
  BY <1>1 DEF Passed
<1>3. \A w \in 0..Second : ~(inStep[c] <= now - w)
  BY <1>1, ConstantsTyped
<1> QED
  BY <1>1, <1>2, <1>3
     DEF BucketOK, Chronicle, Spent, Earned, InStep, NotYetHeard, RefusedIsEmpty

LEMMA NextBuckets == TypeOK /\ BucketInv /\ [Next]_vars => BucketInv'
<1> SUFFICES ASSUME TypeOK, TypeOK', [Next]_vars, NEW c \in Conn, BucketOK(c)
             PROVE  BucketOK(c)'
  BY NextTyped DEF BucketInv
<1>1. ASSUME NEW gone, ForgetBuckets(gone), UNCHANGED <<now, skew, heard>>
      PROVE  BucketOK(c)'
  <2>1. CASE c \in gone
    <3>1. refused'[c] = FALSE /\ recent'[c] = <<>> /\ inStep'[c] = Never
      BY <1>1, <2>1 DEF ForgetBuckets
    <3> QED
      BY <1>1, <3>1, BucketForgotten
  <2>2. CASE c \notin gone
    <3>1. /\ tokens'[c] = tokens[c] /\ lastRefillAt'[c] = lastRefillAt[c]
          /\ recent'[c] = recent[c] /\ inStep'[c] = inStep[c]
          /\ refused'[c] = refused[c]
      BY <1>1, <2>2 DEF ForgetBuckets, TypeOK
    <3> QED
      BY <1>1, <3>1, BucketKept
  <2> QED
    BY <2>1, <2>2
<1>2. CASE Tick
  BY <1>1, <1>2 DEF Tick
<1>3. CASE Pass
  BY <1>3, BucketPass
<1>4. CASE ClockSetBack
  BY <1>4, BucketSetBack
<1>5. ASSUME NEW d \in Conn, Upgrade(d) \/ Pong(d) \/ ServerCloses(d) \/ PeerFallsSilent(d)
      PROVE  BucketOK(c)'
  <2>1. UNCHANGED <<now, skew, heard, tokens, lastRefillAt, refused, recent, inStep>>
    BY <1>5 DEF Upgrade, Pong, ServerCloses, PeerFallsSilent, socketVars, bucketVars
  <2> QED
    BY <2>1, BucketKept
<1>6. ASSUME NEW d \in Conn, PeerCloses(d) PROVE BucketOK(c)'
  BY <1>1, <1>6 DEF PeerCloses
<1>7. ASSUME NEW d \in Conn, Register(d) \/ Frame(d) PROVE BucketOK(c)'
  <2>1. CASE d = c
    BY <1>7, <2>1, BucketRegister, BucketFrame
  <2>2. CASE d # c
    <3>1. /\ UNCHANGED <<now, skew>> /\ heard'[c] = heard[c]
          /\ tokens'[c] = tokens[c] /\ lastRefillAt'[c] = lastRefillAt[c]
          /\ recent'[c] = recent[c] /\ inStep'[c] = inStep[c]
          /\ refused'[c] = refused[c]
      BY <1>7, <2>2 DEF Register, Frame, socketVars, TypeOK
    <3> QED
      BY <3>1, BucketKept
  <2> QED
    BY <2>1, <2>2
<1>8. CASE UNCHANGED vars
  BY <1>8, BucketKept DEF vars, socketVars, bucketVars
<1> QED
  BY <1>2, <1>3, <1>4, <1>5, <1>6, <1>7, <1>8 DEF Next

\* Wherever a second begins, and whatever Date.now() is set back by, a full
\* bucket and one second's refill bound the frames that pass within it
\* (rateLimiter.ts:21-30, netiflyServer.ts:261).
THEOREM BurstsBounded == Spec => []BurstBound
<1>1. TypeOK /\ BucketInv => BurstBound
  <2> SUFFICES ASSUME TypeOK, NEW c \in Conn, BucketOK(c)
               PROVE  Passed(c) * Second <= Capacity + Rate * (Second - 1)
    BY DEF BucketInv, BurstBound, Passed
  <2>1. /\ Passed(c) \in Nat /\ now \in Nat /\ Capacity \in Nat /\ Rate \in Nat
        /\ Second \in Nat /\ Second >= 1 /\ Refilled(c) \in Nat
        /\ \A i \in 1..Passed(c) : recent[c][i] \in Nat
    BY BucketNumbers, ConstantsTyped, CapacityNat
  <2>2. Rate * (Second - 1) \in Nat
    BY <2>1
  <2>3. CASE Passed(c) = 0
    BY <2>1, <2>2, <2>3
  <2>4. CASE Passed(c) >= 1
    <3>1. 1 \in 1..Passed(c)
      BY <2>1, <2>4
    <3>2. /\ Second * (Passed(c) - 1 + 1) + Refilled(c) <= Capacity + Rate * (now - recent[c][1])
          /\ now - Second < recent[c][1]
      BY <3>1 DEF BucketOK, Spent, Chronicle
    <3>3. now - recent[c][1] <= Second - 1 /\ now - recent[c][1] \in Int
      BY <2>1, <3>1, <3>2
    <3>4. Rate * (now - recent[c][1]) <= Rate * (Second - 1)
      BY <2>1, <3>3, TimesMonotone
    <3>5. Second * (Passed(c) - 1 + 1) = Passed(c) * Second /\ Passed(c) * Second \in Int
      BY <2>1
    <3>6. Rate * (now - recent[c][1]) \in Int
      BY <2>1, <3>3
    <3> QED
      BY <2>1, <2>2, <3>2, <3>4, <3>5, <3>6
  <2> QED
    BY <2>1, <2>3, <2>4
<1> QED
  BY InitTyped, InitBuckets, NextTyped, NextBuckets, <1>1, PTL DEF Spec

\* A peer that keeps to maxInboundFramesPerSecond is never rate limited, once a
\* second has passed since its first frame in step with the clock
\* (rateLimiter.ts:21-30, netiflyServer.ts:261-265).
THEOREM WithinRateServed == Spec => []WithinRateNeverRefused
<1>1. TypeOK /\ BucketInv => WithinRateNeverRefused
  <2> SUFFICES ASSUME TypeOK, NEW c \in Conn, BucketOK(c),
                      refused[c], inStep[c] + Second <= now
               PROVE  Passed(c) >= Rate
    BY DEF BucketInv, WithinRateNeverRefused, Passed
  <2>1. /\ Passed(c) \in Nat /\ now \in Nat /\ inStep[c] \in Nat /\ Rate \in Nat
        /\ Second \in Nat /\ Second >= 1 /\ Refilled(c) \in Nat
    BY BucketNumbers, ConstantsTyped, CapacityNat
  <2>2. Refilled(c) < Second
    BY DEF BucketOK, RefusedIsEmpty
  <2>3. Rate * Second <= Second * Passed(c) + Refilled(c)
    <3>1. 0 \in 0..Passed(c) /\ Second \in 0..Second /\ inStep[c] <= now - Second
      BY <2>1
    <3>2. Rate * Second <= Second * (Passed(c) - 0) + Refilled(c)
      BY <3>1 DEF BucketOK, Earned
    <3>3. Passed(c) - 0 = Passed(c)
      BY <2>1
    <3> QED
      BY <3>2, <3>3
  <2>4. Second * Rate < Second * (Passed(c) + 1)
    <3>1. Second * (Passed(c) + 1) = Second * Passed(c) + Second
      BY <2>1, OneMore
    <3>2. Second * Rate = Rate * Second /\ Second * Passed(c) \in Int /\ Rate * Second \in Int
      BY <2>1
    <3> QED
      BY <2>1, <2>2, <2>3, <3>1, <3>2
  <2>5. ~(Passed(c) + 1 <= Rate)
    <3> SUFFICES ASSUME Passed(c) + 1 <= Rate PROVE FALSE
      OBVIOUS
    <3>1. Second * (Passed(c) + 1) <= Second * Rate
      BY <2>1, TimesMonotone
    <3>2. Second * (Passed(c) + 1) \in Int /\ Second * Rate \in Int
      BY <2>1
    <3> QED
      BY <2>4, <3>1, <3>2
  <2> QED
    BY <2>1, <2>5
<1> QED
  BY InitTyped, InitBuckets, NextTyped, NextBuckets, <1>1, PTL DEF Spec
=============================================================================
