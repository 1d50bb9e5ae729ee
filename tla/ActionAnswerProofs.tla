-------------------------- MODULE ActionAnswerProofs --------------------------
(***************************************************************************)
(* Proofs about ActionAnswer, for every number of frames and instances,    *)
(* every expiry, every resolution of the clock, and every choice of what   *)
(* Redis may reject and of whether instances crash.                        *)
(***************************************************************************)
EXTENDS ActionAnswer, TLAPS

-----------------------------------------------------------------------------
\* Rounding the time to live up

LEMMA DivMod ==
  ASSUME NEW a \in Int, NEW b \in Nat \ {0}
  PROVE  /\ a \div b \in Int
         /\ a % b \in 0 .. (b - 1)
         /\ a = (b * (a \div b)) + (a % b)
OBVIOUS

LEMMA CeilDivCovers ==
  ASSUME NEW a \in Int, NEW b \in Nat \ {0}
  PROVE  CeilDiv(a, b) \in Int /\ CeilDiv(a, b) * b >= a
<1>1. a + b - 1 \in Int
  OBVIOUS
<1> QED
  BY <1>1, DivMod DEF CeilDiv

\* The seconds asked for reach at least to the expiry, and are never zero,
\* which Redis would refuse.
LEMMA TtlCovers ==
  ASSUME NEW t \in Nat
  PROVE  /\ TtlSeconds(t) \in Nat \ {0}
         /\ t + TtlSeconds(t) * Second >= Exp
<1> DEFINE s == CeilDiv(Exp - t, Second)
<1>1. s \in Int /\ s * Second >= Exp - t
  BY CeilDivCovers, AnswerAssumption
<1>2. TtlSeconds(t) = IF s < 1 THEN 1 ELSE s
  BY DEF TtlSeconds
<1> HIDE DEF s
<1>3. CASE s < 1
  <2>1. 1 * Second >= s * Second
    BY <1>1, <1>3, AnswerAssumption
  <2> QED
    BY <1>1, <1>2, <1>3, <2>1, AnswerAssumption
<1>4. CASE ~(s < 1)
  BY <1>1, <1>2, <1>4, AnswerAssumption
<1> QED
  BY <1>3, <1>4

-----------------------------------------------------------------------------
\* Types

LEMMA InitTyped == Init => TypeOK
BY AnswerAssumption DEF Init, TypeOK, NoKey, Step, Ack

LEMMA FinishTyped ==
  ASSUME TypeOK, NEW f \in Frame, NEW status \in Ack, Finish(f, status)
  PROVE  step' \in [Frame -> Step] /\ ack' \in [Frame -> Ack]
BY DEF Finish, TypeOK, Step

LEMMA SetKeyTyped ==
  ASSUME TypeOK, NEW f \in Frame, SetKey(f)
  PROVE  keyExp' \in Nat /\ granted' \in [Frame -> Nat]
<1>1. ttl[f] * Second \in Nat
  BY AnswerAssumption DEF TypeOK
<1> QED
  BY <1>1 DEF SetKey, TypeOK

LEMMA FrameStepTyped ==
  ASSUME TypeOK, NEW f \in Frame, FrameStep(f)
  PROVE  TypeOK'
<1>1. CASE AnswerInvalid(f) \/ AnswerExpired(f) \/ AlreadyAnswered(f) \/ ClaimError(f)
  <2>1. PICK status \in {"invalid", "expired", "already_answered"} : Finish(f, status)
    BY <1>1 DEF AnswerInvalid, AnswerExpired, AlreadyAnswered, ClaimError
  <2>2. step' \in [Frame -> Step] /\ ack' \in [Frame -> Ack]
    BY <2>1, FinishTyped DEF Ack
  <2> QED
    BY <1>1, <2>2
       DEF TypeOK, AnswerInvalid, AnswerExpired, AlreadyAnswered, ClaimError
<1>2. ASSUME NEW i \in Instance, AskClaim(f, i) PROVE TypeOK'
  <2>1. TtlSeconds(now) \in Nat
    BY TtlCovers DEF TypeOK
  <2> QED
    BY <1>2, <2>1 DEF TypeOK, AskClaim, Step
<1>3. CASE ClaimGranted(f) \/ ClaimResent(f)
  <2>1. keyExp' \in Nat /\ granted' \in [Frame -> Nat]
    BY <1>3, SetKeyTyped DEF ClaimGranted, ClaimResent
  <2> QED
    BY <1>3, <2>1 DEF TypeOK, ClaimGranted, ClaimResent, Step
<1>4. CASE ClaimRefused(f)
  BY <1>4 DEF TypeOK, ClaimRefused, Step
<1>5. CASE ClaimRejected(f)
  <2>1. keyExp' \in Nat /\ granted' \in [Frame -> Nat]
    BY <1>5, SetKeyTyped DEF ClaimRejected, TypeOK
  <2> QED
    BY <1>5, <2>1 DEF TypeOK, ClaimRejected, Step
<1>6. CASE Accept(f)
  <2>1. step' \in [Frame -> Step] /\ ack' \in [Frame -> Ack]
    BY <1>6, FinishTyped DEF Accept, Ack
  <2> QED
    BY <1>6, <2>1 DEF TypeOK, Accept
<1>7. CASE SocketCloses(f)
  BY <1>7 DEF TypeOK, SocketCloses
<1> QED
  BY <1>1, <1>2, <1>3, <1>4, <1>5, <1>6, <1>7 DEF FrameStep

LEMMA NextTyped == TypeOK /\ [Next]_vars => TypeOK'
<1> SUFFICES ASSUME TypeOK, [Next]_vars PROVE TypeOK'
  OBVIOUS
<1>1. ASSUME NEW f \in Frame, FrameStep(f) PROVE TypeOK'
  BY <1>1, FrameStepTyped
<1>2. ASSUME NEW i \in Instance, Crash(i) PROVE TypeOK'
  <2>1. step' \in [Frame -> Step] /\ open' \in [Frame -> BOOLEAN]
    BY <1>2 DEF TypeOK, Crash, Step
  <2> QED
    BY <1>2, <2>1 DEF TypeOK, Crash
<1>3. CASE Tick
  BY <1>3 DEF TypeOK, Tick
<1>4. CASE UNCHANGED vars
  BY <1>4 DEF TypeOK, vars
<1> QED
  BY <1>1, <1>2, <1>3, <1>4 DEF Next

\* Every reachable state is well typed, a claim never asks for a negative time
\* to live however close to the expiry it is made (netiflyServer.ts:338).
THEOREM AnswerTypeCorrect == Spec => []TypeOK
BY InitTyped, NextTyped, PTL DEF Spec

-----------------------------------------------------------------------------
\* The claim outlives the token

\* The clock never shows NoKey.
ClockRuns == now # NoKey

\* A claim on its way to the store carries a time to live that was computed
\* earlier, and that counted from then on reaches the expiry.
ClaimsCover ==
  \A f \in Frame :
    step[f] = "claiming" => asked[f] <= now /\ asked[f] + ttl[f] * Second >= Exp

\* Once anyone has been granted the notification the key does not lapse before
\* the expiry.
KeyCovers ==
  (\E f \in Frame : granted[f] # NoKey) => keyExp # NoKey /\ keyExp >= Exp

\* The application is given only answers that were granted.
EmittedGranted ==
  \A f \in Frame : step[f] = "granted" \/ f \in emitted => granted[f] # NoKey

ClaimInv == ClockRuns /\ ClaimsCover /\ KeyCovers /\ EmittedGranted /\ OnceBeforeExpiry

\* What a SET NX that succeeds does to the invariant, whoever hears of it.
LEMMA SetKeyClaims ==
  ASSUME TypeOK, ClaimInv, NEW f \in Frame,
         step[f] = "claiming", Free, SetKey(f),
         UNCHANGED <<now, emitted, asked, ttl>>
  PROVE  /\ ClockRuns' /\ KeyCovers' /\ OnceBeforeExpiry'
         /\ granted'[f] # NoKey
         /\ \A g \in Frame \ {f} : granted'[g] = granted[g]
<1> USE AnswerAssumption DEF TypeOK, ClaimInv, NoKey
<1>1. granted' = [granted EXCEPT ![f] = now] /\ keyExp' = now + ttl[f] * Second
  BY DEF SetKey
<1>2. ttl[f] * Second \in Nat
  OBVIOUS
<1>3. keyExp' >= Exp
  BY <1>1, <1>2 DEF ClaimsCover
<1>4. KeyCovers'
  BY <1>3 DEF KeyCovers
<1>5. (\E g \in Frame : granted[g] # NoKey) => now >= Exp
  BY DEF Free, KeyCovers
<1>6. OnceBeforeExpiry'
  BY <1>1, <1>5 DEF OnceBeforeExpiry
<1> QED
  BY <1>1, <1>4, <1>6 DEF ClockRuns

LEMMA FrameStepClaims ==
  ASSUME TypeOK, ClaimInv, NEW f \in Frame, FrameStep(f)
  PROVE  ClaimInv'
<1> USE DEF TypeOK, ClaimInv
<1>1. CASE AnswerInvalid(f) \/ AnswerExpired(f) \/ ClaimRefused(f)
           \/ AlreadyAnswered(f) \/ ClaimError(f) \/ SocketCloses(f)
  <2>1. /\ UNCHANGED <<now, keyExp, ttl, asked, granted, emitted>>
        /\ \A g \in Frame : step'[g] \in {"claiming", "granted"} => step'[g] = step[g]
    BY <1>1 DEF AnswerInvalid, AnswerExpired, ClaimRefused, AlreadyAnswered,
       ClaimError, SocketCloses, Finish
  <2> QED
    BY <2>1 DEF ClockRuns, ClaimsCover, KeyCovers, EmittedGranted, OnceBeforeExpiry
<1>2. ASSUME NEW i \in Instance, AskClaim(f, i) PROVE ClaimInv'
  <2>1. now + TtlSeconds(now) * Second >= Exp
    BY TtlCovers
  <2>2. ClaimsCover'
    BY <1>2, <2>1 DEF AskClaim, ClaimsCover
  <2> QED
    BY <1>2, <2>2 DEF AskClaim, ClockRuns, KeyCovers, EmittedGranted, OnceBeforeExpiry
<1>3. CASE ClaimGranted(f) \/ ClaimResent(f) \/ (ClaimRejected(f) /\ Free /\ SetKey(f))
  <2>1. /\ step[f] = "claiming" /\ Free /\ SetKey(f)
        /\ UNCHANGED <<now, emitted, asked, ttl>>
        /\ \A g \in Frame : step'[g] = "claiming" => step[g] = "claiming"
        /\ \A g \in Frame : step'[g] = "granted" => g = f \/ step[g] = "granted"
    BY <1>3 DEF ClaimGranted, ClaimResent, ClaimRejected
  <2>2. /\ ClockRuns' /\ KeyCovers' /\ OnceBeforeExpiry'
        /\ granted'[f] # NoKey
        /\ \A g \in Frame \ {f} : granted'[g] = granted[g]
    BY <2>1, SetKeyClaims
  <2> QED
    BY <2>1, <2>2 DEF ClaimsCover, EmittedGranted
<1>4. CASE ClaimRejected(f) /\ UNCHANGED <<keyExp, granted>>
  BY <1>4 DEF ClaimRejected, ClockRuns, ClaimsCover, KeyCovers, EmittedGranted,
     OnceBeforeExpiry
<1>5. CASE Accept(f)
  BY <1>5 DEF Accept, Finish, ClockRuns, ClaimsCover, KeyCovers, EmittedGranted,
     OnceBeforeExpiry
<1> QED
  BY <1>1, <1>2, <1>3, <1>4, <1>5 DEF FrameStep, ClaimRejected

LEMMA NextClaims == TypeOK /\ ClaimInv /\ [Next]_vars => ClaimInv'
<1> SUFFICES ASSUME TypeOK, ClaimInv, [Next]_vars PROVE ClaimInv'
  OBVIOUS
<1> USE DEF TypeOK, ClaimInv, ClockRuns, ClaimsCover, KeyCovers, EmittedGranted,
        OnceBeforeExpiry
<1>1. ASSUME NEW f \in Frame, FrameStep(f) PROVE ClaimInv'
  BY <1>1, FrameStepClaims
<1>2. ASSUME NEW i \in Instance, Crash(i) PROVE ClaimInv'
  BY <1>2 DEF Crash
<1>3. CASE Tick
  BY <1>3 DEF Tick, NoKey
<1>4. CASE UNCHANGED vars
  BY <1>4 DEF vars
<1> QED
  BY <1>1, <1>2, <1>3, <1>4 DEF Next

LEMMA InitClaims == Init => ClaimInv
BY DEF Init, ClaimInv, ClockRuns, ClaimsCover, KeyCovers, EmittedGranted,
   OnceBeforeExpiry, NoKey

\* However late claims execute, whatever Redis rejects, answers twice or loses,
\* whichever instances crash: a notification is granted to two frames only if
\* the later grant comes no earlier than the token's expiry
\* (netiflyServer.ts:338, redisTransport.ts:96).
THEOREM ClaimOutlivesToken == Spec => []OnceBeforeExpiry
<1>1. ClaimInv => OnceBeforeExpiry
  BY DEF ClaimInv
<1> QED
  BY InitTyped, InitClaims, NextTyped, NextClaims, <1>1, PTL DEF Spec

\* What the application sees: of two answers to the same notification handed to
\* its 'action' listeners (netiflyServer.ts:352), at least one was claimed at or
\* after the expiry.
THEOREM ApplicationAnsweredOnce ==
  Spec => [](\A f, g \in emitted :
               f # g => granted[f] # NoKey /\ granted[g] # NoKey
                        /\ (granted[f] >= Exp \/ granted[g] >= Exp))
<1> DEFINE Once == \A f, g \in emitted :
                     f # g => granted[f] # NoKey /\ granted[g] # NoKey
                              /\ (granted[f] >= Exp \/ granted[g] >= Exp)
<1>1. TypeOK /\ ClaimInv => Once
  BY DEF TypeOK, ClaimInv, EmittedGranted, OnceBeforeExpiry
<1> HIDE DEF Once
<1>2. Spec => []Once
  BY InitTyped, InitClaims, NextTyped, NextClaims, <1>1, PTL DEF Spec
<1> QED
  BY <1>2 DEF Once
=============================================================================
