---------------------------- MODULE ActionAnswer ----------------------------
(***************************************************************************)
(* Answers to one actionable notification: handleActionFrame() of every    *)
(* server instance (netiflyServer.ts) and the claim() they share           *)
(* (redisTransport.ts, memoryTransport.ts).  A frame is one 'action' frame *)
(* sent by one of the user's sockets; several may carry the same token.    *)
(*                                                                         *)
(* Time counts ticks, Second of them to a second: deadlines are in ms in   *)
(* the code while the claim's time to live is in whole seconds.            *)
(***************************************************************************)
EXTENDS Integers, FiniteSets

CONSTANTS Frame, Instance,
          Second,       \* ticks per second of TTL
          Exp,          \* payload.exp, the notification's expiresAt
          MaxTime,      \* bound on the clock
          MaxDelay,     \* how late after the expiry check a claim may execute
          RedisFails,   \* may a claim be rejected, or its reply be lost?
          MayCrash      \* may an instance crash?

ASSUME AnswerAssumption ==
  /\ Second \in Nat \ {0}
  /\ Exp \in Nat \ {0}
  /\ MaxTime \in Nat
  /\ MaxDelay \in Nat
  /\ Instance # {}
  /\ {RedisFails, MayCrash} \subseteq BOOLEAN

NoKey == 0

VARIABLES now,     \* Date.now(), the same for all instances and for Redis
          keyExp,  \* when the `answered:<nid>' key lapses, NoKey if never set
          step,    \* [Frame -> Step], where handleActionFrame() is
          at,      \* [Frame -> Instance], the instance that got the frame
          ttl,     \* [Frame -> Nat], seconds asked of claim()
          asked,   \* [Frame -> Nat], when Date.now() > exp was evaluated
          open,    \* [Frame -> BOOLEAN], the answering socket is OPEN
          ack,     \* [Frame -> Ack], the netifly.actionAck it received
          granted, \* [Frame -> Nat], when the store granted the claim, or NoKey
          emitted  \* the frames for which 'action' was emitted

vars == <<now, keyExp, step, at, ttl, asked, open, ack, granted, emitted>>

Step == {"unsent", "claiming", "granted", "refused", "failed", "finished", "lost"}
Ack == {"none", "accepted", "already_answered", "expired", "invalid"}

TypeOK ==
  /\ now \in Nat
  /\ keyExp \in Nat
  /\ step \in [Frame -> Step]
  /\ at \in [Frame -> Instance]
  /\ ttl \in [Frame -> Nat]
  /\ asked \in [Frame -> Nat]
  /\ open \in [Frame -> BOOLEAN]
  /\ ack \in [Frame -> Ack]
  /\ granted \in [Frame -> Nat]
  /\ emitted \subseteq Frame

Init ==
  /\ now = 1
  /\ keyExp = NoKey
  /\ step = [f \in Frame |-> "unsent"]
  /\ at = [f \in Frame |-> CHOOSE i \in Instance : TRUE]
  /\ ttl = [f \in Frame |-> 0]
  /\ asked = [f \in Frame |-> 0]
  /\ open = [f \in Frame |-> TRUE]
  /\ ack = [f \in Frame |-> "none"]
  /\ granted = [f \in Frame |-> NoKey]
  /\ emitted = {}

-----------------------------------------------------------------------------
\* Helpers

CeilDiv(a, b) == (a + b - 1) \div b

\* Seeded faults: rounding down, and subtracting the wrong way round.
TtlSecondsFloor(t) == LET s == (Exp - t) \div Second IN IF s < 1 THEN 1 ELSE s
TtlSecondsSwapped(t) == CeilDiv(t - Exp, Second)

\* Math.max(1, Math.ceil((exp - now) / 1000)), for an unexpired token.
TtlSeconds(t) == LET s == CeilDiv(Exp - t, Second) IN IF s < 1 THEN 1 ELSE s

\* In the tick in which it lapses Redis still holds a key, memoryTransport does not.
Free == keyExp = NoKey \/ keyExp <= now
Held == keyExp # NoKey /\ keyExp >= now

\* sendActionAck(): only a socket that is still OPEN hears of it.
Finish(f, status) ==
  /\ step' = [step EXCEPT ![f] = "finished"]
  /\ ack' = [ack EXCEPT ![f] = IF open[f] THEN status ELSE @]

-----------------------------------------------------------------------------
\* handleActionFrame() up to its await

\* No secret, a token that does not verify, or one signed for another
\* notification, action or user.
AnswerInvalid(f) ==
  /\ step[f] = "unsent" /\ open[f]
  /\ Finish(f, "invalid")
  /\ UNCHANGED <<now, keyExp, at, ttl, asked, open, granted, emitted>>

AnswerExpired(f) ==
  /\ step[f] = "unsent" /\ open[f]
  /\ now > Exp
  /\ Finish(f, "expired")
  /\ UNCHANGED <<now, keyExp, at, ttl, asked, open, granted, emitted>>

AskClaim(f, i) ==
  /\ step[f] = "unsent" /\ open[f]
  /\ now <= Exp
  /\ at' = [at EXCEPT ![f] = i]
  /\ step' = [step EXCEPT ![f] = "claiming"]
  /\ ttl' = [ttl EXCEPT ![f] = TtlSeconds(now)]
  /\ asked' = [asked EXCEPT ![f] = now]
  /\ UNCHANGED <<now, keyExp, open, ack, granted, emitted>>

-----------------------------------------------------------------------------
\* The claim in the store: SET key 1 EX ttl NX

SetKey(f) ==
  /\ keyExp' = now + ttl[f] * Second
  /\ granted' = [granted EXCEPT ![f] = now]

ClaimGranted(f) ==
  /\ step[f] = "claiming"
  /\ Free
  /\ SetKey(f)
  /\ step' = [step EXCEPT ![f] = "granted"]
  /\ UNCHANGED <<now, at, ttl, asked, open, ack, emitted>>

ClaimRefused(f) ==
  /\ step[f] = "claiming"
  /\ Held
  /\ step' = [step EXCEPT ![f] = "refused"]
  /\ UNCHANGED <<now, keyExp, at, ttl, asked, open, ack, granted, emitted>>

\* claim() rejects, without or after the SET having been carried out.
ClaimRejected(f) ==
  /\ RedisFails
  /\ step[f] = "claiming"
  /\ \/ UNCHANGED <<keyExp, granted>>
     \/ Free /\ SetKey(f)
  /\ step' = [step EXCEPT ![f] = "failed"]
  /\ UNCHANGED <<now, at, ttl, asked, open, ack, emitted>>

\* The connection drops between the SET and its reply; ioredis reconnects and
\* sends the unanswered command again.
ClaimResent(f) ==
  /\ RedisFails
  /\ step[f] = "claiming"
  /\ Free
  /\ SetKey(f)
  /\ UNCHANGED <<now, step, at, ttl, asked, open, ack, emitted>>

-----------------------------------------------------------------------------
\* handleActionFrame() after its await

\* emit('action'), publish netifly.notification.resolved, ack.
Accept(f) ==
  /\ step[f] = "granted"
  /\ emitted' = emitted \cup {f}
  /\ Finish(f, "accepted")
  /\ UNCHANGED <<now, keyExp, at, ttl, asked, open, granted>>

\* Seeded fault: a lost race is not acknowledged.
AlreadyAnsweredSilent(f) ==
  /\ step[f] = "refused"
  /\ step' = [step EXCEPT ![f] = "finished"]
  /\ UNCHANGED <<now, keyExp, at, ttl, asked, open, ack, granted, emitted>>

AlreadyAnswered(f) ==
  /\ step[f] = "refused"
  /\ Finish(f, "already_answered")
  /\ UNCHANGED <<now, keyExp, at, ttl, asked, open, granted, emitted>>

ClaimError(f) ==
  /\ step[f] = "failed"
  /\ Finish(f, "invalid")
  /\ UNCHANGED <<now, keyExp, at, ttl, asked, open, granted, emitted>>

-----------------------------------------------------------------------------
\* The environment

\* Only until the frame is dealt with: nothing looks at its socket later.
SocketCloses(f) ==
  /\ open[f] /\ step[f] # "finished"
  /\ open' = [open EXCEPT ![f] = FALSE]
  /\ UNCHANGED <<now, keyExp, step, at, ttl, asked, ack, granted, emitted>>

InProgress(f) == step[f] \in {"claiming", "granted", "refused", "failed"}

\* The process of instance i dies; Redis keeps the key.
Crash(i) ==
  /\ MayCrash
  /\ \E f \in Frame : at[f] = i /\ InProgress(f)
  /\ step' = [f \in Frame |->
                IF at[f] = i /\ InProgress(f) THEN "lost" ELSE step[f]]
  /\ open' = [f \in Frame |-> open[f] /\ ~(at[f] = i /\ InProgress(f))]
  /\ UNCHANGED <<now, keyExp, at, ttl, asked, ack, granted, emitted>>

Tick ==
  /\ now < MaxTime
  /\ \A f \in Frame : step[f] = "claiming" => now - asked[f] < MaxDelay
  /\ now' = now + 1
  /\ UNCHANGED <<keyExp, step, at, ttl, asked, open, ack, granted, emitted>>

FrameStep(f) ==
  \/ AnswerInvalid(f) \/ AnswerExpired(f) \/ \E i \in Instance : AskClaim(f, i)
  \/ ClaimGranted(f) \/ ClaimRefused(f) \/ ClaimRejected(f) \/ ClaimResent(f)
  \/ Accept(f) \/ AlreadyAnswered(f) \/ ClaimError(f)
  \/ SocketCloses(f)

Next ==
  \/ \E f \in Frame : FrameStep(f)
  \/ \E i \in Instance : Crash(i)
  \/ Tick

Spec == Init /\ [][Next]_vars

\* Redis answers every command it was sent, and Node runs the continuation.
Fairness ==
  \A f \in Frame :
    /\ WF_vars(ClaimGranted(f) \/ ClaimRefused(f) \/ ClaimRejected(f))
    /\ WF_vars(Accept(f) \/ AlreadyAnswered(f) \/ ClaimError(f))

FairSpec == Spec /\ Fairness

-----------------------------------------------------------------------------
\* Properties

\* The lock outlives the token by rounding up: however late a claim executes
\* and whatever fails, two frames are granted the notification only if the
\* later grant comes no earlier than the notification's expiry.
OnceBeforeExpiry ==
  \A f, g \in Frame :
    f # g /\ granted[f] # NoKey /\ granted[g] # NoKey =>
      granted[f] >= Exp \/ granted[g] >= Exp

AtRest == \A f \in Frame : ~InProgress(f)

\* A user is told 'already_answered' only if the application has been, or is
\* about to be, given an answer.
AlreadyAnsweredIsAnswered ==
  AtRest /\ (\E f \in Frame : ack[f] = "already_answered") => emitted # {}

\* netiflyServer.ts:303: a frame "always resolves to exactly one of the four
\* ack statuses on the answering socket".
EveryFrameAnswered ==
  \A f \in Frame : InProgress(f) ~> (ack[f] # "none" \/ ~open[f])
=============================================================================
