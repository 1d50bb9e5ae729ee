----------------------------- MODULE ClusterProofs -----------------------------
(***************************************************************************)
(* Proofs about Cluster: what a cluster of any size does with the messages *)
(* of one user, whichever connections break and whoever is closed.         *)
(***************************************************************************)
EXTENDS Cluster, FiniteSetTheorems, SequenceTheorems, TLAPS

-----------------------------------------------------------------------------
\* The calls of publish()

Status == {"queued", "executed", "settled"}
Record(n) == [by : Caller, of : 0..n]

LEMMA FunctionIsSeq ==
  ASSUME NEW S, NEW n \in Nat, NEW f \in [1..n -> S]
  PROVE  f \in Seq(S) /\ Len(f) = n
OBVIOUS

LEMMA CallsTyped ==
  ASSUME TypeOK
  PROVE  /\ Len(msg) \in Nat /\ DOMAIN msg = 1..Len(msg)
         /\ msg \in Seq(Record(Len(msg)))
         /\ status \in Seq(Status) /\ Len(status) = Len(msg)
         /\ \A m \in DOMAIN msg : msg[m].by \in Caller /\ msg[m].of \in 0..Len(msg)
<1>1. msg \in Seq(Record(Len(msg)))
  BY DEF TypeOK, Record
<1>2. Len(msg) \in Nat /\ DOMAIN msg = 1..Len(msg)
  BY <1>1, LenProperties
<1>3. status \in [1..Len(msg) -> Status]
  BY <1>2 DEF TypeOK, Status
<1>4. status \in Seq(Status) /\ Len(status) = Len(msg)
  BY <1>2, <1>3, FunctionIsSeq
<1>5. ASSUME NEW m \in DOMAIN msg PROVE msg[m].by \in Caller /\ msg[m].of \in 0..Len(msg)
  <2>1. msg[m] \in Record(Len(msg))
    BY <1>1, <1>2, ElementOfSeq
  <2> QED
    BY <2>1 DEF Record
<1> QED
  BY <1>1, <1>2, <1>4, <1>5

\* publish() adds one call, and leaves the others where they are.
LEMMA PublishAdds ==
  ASSUME TypeOK, NEW x \in Caller, NEW about \in 0..Len(msg), Publish(x, about)
  PROVE  /\ DOMAIN msg' = 1..(Len(msg) + 1) /\ Len(msg') = Len(msg) + 1
         /\ msg' \in Seq(Record(Len(msg) + 1))
         /\ status' \in [DOMAIN msg' -> Status]
         /\ \A m \in DOMAIN msg : msg'[m] = msg[m] /\ status'[m] = status[m]
         /\ status'[Len(msg) + 1] = "queued"
         /\ DOMAIN msg \subseteq DOMAIN msg'
         /\ DOMAIN msg' = DOMAIN msg \cup {Len(msg) + 1}
<1> DEFINE n == Len(msg)
<1>1. /\ n \in Nat /\ DOMAIN msg = 1..n /\ msg \in Seq(Record(n))
      /\ status \in Seq(Status) /\ Len(status) = n
  BY CallsTyped
<1>2. Record(n) \subseteq Record(n + 1)
  BY <1>1 DEF Record
<1>3. msg \in Seq(Record(n + 1))
  BY <1>1, <1>2, SeqMonotonic
<1>4. [by |-> x, of |-> about] \in Record(n + 1)
  BY <1>1 DEF Record
<1>5. msg' = Append(msg, [by |-> x, of |-> about]) /\ status' = Append(status, "queued")
  BY DEF Publish
<1>6. /\ msg' \in Seq(Record(n + 1)) /\ Len(msg') = n + 1
      /\ \A m \in 1..n : msg'[m] = msg[m]
  BY <1>3, <1>4, <1>5, AppendProperties
<1>7. DOMAIN msg' = 1..(n + 1)
  BY <1>6, LenProperties
<1>8. /\ status' \in Seq(Status) /\ Len(status') = n + 1
      /\ \A m \in 1..n : status'[m] = status[m]
      /\ status'[n + 1] = "queued"
  <2>1. "queued" \in Status
    BY DEF Status
  <2> QED
    BY <1>1, <1>5, <2>1, AppendProperties
<1>9. status' \in [1..(n + 1) -> Status]
  BY <1>8, LenProperties
<1> QED
  BY <1>1, <1>6, <1>7, <1>8, <1>9

-----------------------------------------------------------------------------
\* Types

LEMMA PublishTyped ==
  ASSUME TypeOK, NEW x \in Caller, NEW about \in 0..Len(msg), Publish(x, about),
         UNCHANGED <<reached, resent, offline, closed, ended, linkVars, tab, heard,
                     push, owed, breaks>>,
         unacked' \in [Instance -> SUBSET DOMAIN msg]
  PROVE  TypeOK'
<1>1. /\ DOMAIN msg \subseteq DOMAIN msg'
      /\ msg' \in Seq(Record(Len(msg'))) /\ status' \in [DOMAIN msg' -> Status]
  BY PublishAdds
<1>2. push' \in [Instance -> Seq(DOMAIN msg')]
  <2>1. \A i \in Instance : push[i] \in Seq(DOMAIN msg')
    BY <1>1, SeqMonotonic DEF TypeOK
  <2> QED
    BY <2>1 DEF TypeOK
<1>3. unacked' \in [Instance -> SUBSET DOMAIN msg'] /\ owed' \in [Instance -> SUBSET DOMAIN msg']
  BY <1>1 DEF TypeOK
<1>4. reached' \cup resent' \cup offline' \cup heard' \subseteq DOMAIN msg'
  BY <1>1 DEF TypeOK
<1> QED
  BY <1>1, <1>2, <1>3, <1>4 DEF TypeOK, Record, Status, linkVars

LEMMA PushTyped ==
  ASSUME TypeOK, NEW i \in Instance
  PROVE  /\ push[i] \in Seq(DOMAIN msg)
         /\ \A m \in DOMAIN msg : Append(push[i], m) \in Seq(DOMAIN msg)
         /\ <<>> \in Seq(DOMAIN msg)
         /\ push[i] # <<>> => /\ Head(push[i]) \in DOMAIN msg
                              /\ Tail(push[i]) \in Seq(DOMAIN msg)
BY AppendProperties, EmptySeq, HeadTailProperties DEF TypeOK

LEMMA RedisTyped ==
  ASSUME TypeOK, NEW m \in DOMAIN msg, Execute(m) \/ Answer(m)
  PROVE  TypeOK'
<1>1. CASE Execute(m)
  <2>1. msg' = msg /\ status' \in [DOMAIN msg -> Status] /\ reached' \subseteq DOMAIN msg
    BY <1>1 DEF Execute, TypeOK, Status
  <2>2. push' \in [Instance -> Seq(DOMAIN msg)]
    BY <1>1, PushTyped DEF Execute
  <2>3. owed' \in [Instance -> SUBSET DOMAIN msg]
    BY <1>1 DEF Execute, TypeOK
  <2> QED
    BY <1>1, <2>1, <2>2, <2>3 DEF Execute, TypeOK, Status, linkVars, tabVars
<1>2. CASE Answer(m)
  BY <1>2 DEF Answer, TypeOK, linkVars, tabVars
<1> QED
  BY <1>1, <1>2

LEMMA CallerTyped ==
  ASSUME TypeOK, NEW x \in Caller, CommandsBreak(x) \/ Close(x) \/ Disconnected(x)
  PROVE  TypeOK'
<1>1. CASE CommandsBreak(x)
  <2>1. msg' = msg /\ status' \in [DOMAIN msg -> Status]
    BY <1>1 DEF CommandsBreak, TypeOK, Status
  <2>2. reached' \cup resent' \subseteq DOMAIN msg
    BY <1>1 DEF CommandsBreak, TypeOK, Outstanding
  <2>3. breaks' \in 0..MaxBreaks
    BY <1>1, ClusterAssumption DEF CommandsBreak, TypeOK
  <2> QED
    BY <1>1, <2>1, <2>2, <2>3 DEF CommandsBreak, TypeOK, Status, linkVars, tabVars
<1>2. CASE Close(x)
  BY <1>2 DEF Close, TypeOK, linkVars, tabVars
<1>3. CASE Disconnected(x)
  <2>1. msg' = msg /\ status' \in [DOMAIN msg -> Status]
    BY <1>3 DEF Disconnected, TypeOK, Status
  <2>2. push' \in [Instance -> Seq(DOMAIN msg)]
    BY <1>3, PushTyped DEF Disconnected
  <2> QED
    BY <1>3, <2>1, <2>2 DEF Disconnected, TypeOK, Status, linkVars, tabVars
<1> QED
  BY <1>1, <1>2, <1>3

LEMMA TabTyped ==
  ASSUME TypeOK, NEW i \in Instance,
         \/ Connect(i) \/ Disconnect(i) \/ Unsubscribed(i) \/ UnsubscribeRejected(i)
         \/ Deliver(i) \/ LinkBreaks(i) \/ RedisNotices(i) \/ LinkReopens(i)
  PROVE  TypeOK'
<1>1. CASE Connect(i)
  BY <1>1 DEF Connect, TypeOK, callVars
<1>2. CASE Disconnect(i)
  BY <1>2 DEF Disconnect, TypeOK, callVars
<1>3. CASE Deliver(i)
  <2>1. Head(push[i]) \in DOMAIN msg /\ push' \in [Instance -> Seq(DOMAIN msg)]
    BY <1>3, PushTyped DEF Deliver, TypeOK
  <2>2. /\ heard' \subseteq DOMAIN msg
        /\ unacked' \in [Instance -> SUBSET DOMAIN msg]
        /\ owed' \in [Instance -> SUBSET DOMAIN msg]
    <3>1. CASE tab[i]
      <4>1. AutoAck(Head(push[i])) \subseteq DOMAIN msg
        BY <2>1 DEF AutoAck
      <4>2. /\ heard' = heard \cup {Head(push[i])}
            /\ unacked' = [unacked EXCEPT ![i] = @ \cup AutoAck(Head(push[i]))]
            /\ owed' = [owed EXCEPT ![i] = @ \ {Head(push[i])}]
        BY <1>3, <3>1 DEF Deliver
      <4> QED
        BY <2>1, <4>1, <4>2 DEF TypeOK
    <3>2. CASE ~tab[i]
      BY <1>3, <3>2 DEF Deliver, TypeOK
    <3> QED
      BY <3>1, <3>2
  <2> QED
    BY <1>3, <2>1, <2>2 DEF Deliver, TypeOK, callVars, linkVars
<1>4. CASE LinkBreaks(i)
  <2>1. push' \in [Instance -> Seq(DOMAIN msg)] /\ owed' \in [Instance -> SUBSET DOMAIN msg]
    BY <1>4, PushTyped DEF LinkBreaks, TypeOK
  <2>2. breaks' \in 0..MaxBreaks
    BY <1>4, ClusterAssumption DEF LinkBreaks, TypeOK
  <2> QED
    BY <1>4, <2>1, <2>2 DEF LinkBreaks, TypeOK, callVars, tabVars
<1>5. CASE RedisNotices(i)
  BY <1>5 DEF RedisNotices, TypeOK, callVars, tabVars
<1>6. CASE LinkReopens(i)
  BY <1>6 DEF LinkReopens, Resubscribes, TypeOK, callVars, tabVars
<1>7. CASE Unsubscribed(i) \/ UnsubscribeRejected(i)
  BY <1>7 DEF Unsubscribed, UnsubscribeRejected, TypeOK, callVars, tabVars
<1> QED
  BY <1>1, <1>2, <1>3, <1>4, <1>5, <1>6, <1>7

\* Whoever publishes: send() of an instance or of the publisher, or the relay
\* of an 'ack' frame.
Publishes ==
  \E x \in Caller, about \in 0..Len(msg) :
    /\ Publish(x, about)
    /\ UNCHANGED <<reached, resent, offline, closed, ended, linkVars, tab, heard,
                   push, owed, breaks>>
    /\ unacked' \in [Instance -> SUBSET DOMAIN msg]

LEMMA PublishesCases ==
  ASSUME TypeOK,
         \/ \E i \in Sender \cap Instance : Send(i)
         \/ PublisherSends
         \/ \E i \in Instance : \E m \in DOMAIN msg : AckFrame(i, m)
  PROVE  Publishes
<1>1. 0 \in 0..Len(msg) /\ DOMAIN msg \subseteq 0..Len(msg)
  BY CallsTyped
<1>2. Publisher \in Caller /\ Instance \subseteq Caller
  BY DEF Caller
<1>3. ASSUME NEW i \in Sender \cap Instance, Send(i) PROVE Publishes
  BY <1>1, <1>2, <1>3 DEF Send, Publishes, tabVars, TypeOK
<1>4. CASE PublisherSends
  BY <1>1, <1>2, <1>4 DEF PublisherSends, Publishes, tabVars, TypeOK
<1>5. ASSUME NEW i \in Instance, NEW m \in DOMAIN msg, AckFrame(i, m) PROVE Publishes
  <2>1. unacked' \in [Instance -> SUBSET DOMAIN msg]
    BY <1>5 DEF AckFrame, TypeOK
  <2> QED
    BY <1>1, <1>2, <1>5, <2>1 DEF AckFrame, Publishes
<1> QED
  BY <1>3, <1>4, <1>5

\* Next, with the kinds of publish() taken together.
LEMMA NextCases ==
  ASSUME TypeOK, Next
  PROVE  \/ \E m \in DOMAIN msg : Execute(m) \/ Answer(m)
         \/ \E x \in Caller : CommandsBreak(x) \/ Close(x) \/ Disconnected(x)
         \/ \E i \in Instance : \/ Connect(i) \/ Disconnect(i)
                                \/ Unsubscribed(i) \/ UnsubscribeRejected(i) \/ Deliver(i)
                                \/ LinkBreaks(i) \/ RedisNotices(i) \/ LinkReopens(i)
         \/ Publishes
<1>1. Sender \subseteq Caller
  BY ClusterAssumption DEF Caller
<1> QED
  BY <1>1, PublishesCases DEF Next, Redis, Repair

LEMMA InitTyped == Init => TypeOK
<1> SUFFICES ASSUME Init PROVE TypeOK
  OBVIOUS
<1>1. DOMAIN msg = {} /\ Len(msg) = 0
  BY EmptySeq DEF Init
<1>2. \A S : <<>> \in Seq(S)
  BY EmptySeq
<1>3. msg \in Seq([by : Caller, of : 0..Len(msg)]) /\ push \in [Instance -> Seq(DOMAIN msg)]
  BY <1>2 DEF Init
<1>4. status \in [DOMAIN msg -> {"queued", "executed", "settled"}]
  BY <1>1 DEF Init
<1> QED
  BY <1>1, <1>3, <1>4, ClusterAssumption DEF Init, TypeOK

LEMMA NextTyped == TypeOK /\ [Next]_vars => TypeOK'
<1> SUFFICES ASSUME TypeOK, [Next]_vars PROVE TypeOK'
  OBVIOUS
<1>1. CASE Publishes
  BY <1>1, PublishTyped DEF Publishes
<1>2. CASE UNCHANGED vars
  BY <1>2 DEF TypeOK, vars, callVars, linkVars, tabVars
<1> QED
  BY <1>1, <1>2, NextCases, RedisTyped, CallerTyped, TabTyped

\* Every reachable state is well typed: no connection is pushed, no tab is sent
\* a message nobody published, and only what close() was called on ends.
THEOREM ClusterTypeCorrect == Spec => []TypeOK
BY InitTyped, NextTyped, PTL DEF Spec
-----------------------------------------------------------------------------
\* The fallback does not duplicate a message

\* No tab was sent m, and none will be by what is under way.
Untouched(m) ==
  /\ m \notin heard
  /\ \A i \in Instance : \A k \in DOMAIN push[i] : push[i][k] # m

\* Of a call that was sent to Redis once at most: until Redis executes it, and
\* after that if Redis found no receiver, it is nowhere.
Unsent(m) ==
  \/ status[m] = "queued"
  \/ status[m] = "executed" /\ m \notin reached
  \/ m \in offline

OnceSent == \A m \in DOMAIN msg \ resent : Unsent(m) => Untouched(m)

\* The fallback runs at the end.
OfflineSettled == \A m \in offline : status[m] = "settled"

FallbackInv == OnceSent /\ OfflineSettled

\* Without a receiver counted, Redis pushes to nobody.
LEMMA NobodyCounted ==
  ASSUME TypeOK, ~(Count > 0)
  PROVE  Subscribed = {}
<1>1. IsFiniteSet(Subscribed) /\ IsFiniteSet(stale)
  BY ClusterAssumption, FS_Subset DEF TypeOK, Subscribed
<1>2. Cardinality(Subscribed) \in Nat /\ Cardinality(stale) \in Nat
  BY <1>1, FS_CardinalityType
<1>3. Cardinality(Subscribed) = 0
  BY <1>2 DEF Count
<1> QED
  BY <1>1, <1>3, FS_EmptySet

\* Messages that go away, or reach a tab from a push queue, touch no new one.
LEMMA UntouchedKept ==
  ASSUME NEW m, Untouched(m),
         m \in heard' => m \in heard \/ \E i \in Instance : \E k \in DOMAIN push[i] : push[i][k] = m,
         \A i \in Instance : \A k \in DOMAIN push'[i] : \E l \in DOMAIN push[i] : push'[i][k] = push[i][l]
  PROVE  Untouched(m)'
BY DEF Untouched

LEMMA ExecuteFallback ==
  ASSUME TypeOK, FallbackInv, NEW m \in DOMAIN msg, Execute(m)
  PROVE  FallbackInv'
<1>1. /\ status[m] = "queued" /\ msg' = msg
      /\ status' = [status EXCEPT ![m] = "executed"]
      /\ reached' = IF Count > 0 THEN reached \cup {m} ELSE reached
      /\ UNCHANGED <<resent, offline, heard>>
      /\ push' = [i \in Instance |-> IF i \in Subscribed THEN Append(push[i], m) ELSE push[i]]
  BY DEF Execute, tabVars
<1>2. OfflineSettled'
  BY <1>1 DEF FallbackInv, OfflineSettled, TypeOK
<1>3. ASSUME NEW n \in DOMAIN msg \ resent, Unsent(n)' PROVE Untouched(n)'
  <2>1. CASE n = m
    <3>1. m \notin offline
      BY <1>1 DEF FallbackInv, OfflineSettled
    <3>2. ~(Count > 0) /\ Unsent(m)
      BY <1>1, <1>3, <2>1, <3>1 DEF Unsent, TypeOK
    <3>3. push' = push
      BY <1>1, <3>2, NobodyCounted DEF TypeOK
    <3> QED
      BY <1>1, <1>3, <2>1, <3>2, <3>3 DEF FallbackInv, OnceSent, Untouched
  <2>2. CASE n # m
    <3>1. Unsent(n)
      BY <1>1, <1>3, <2>2 DEF Unsent, TypeOK
    <3>2. Untouched(n)
      BY <3>1, <1>3 DEF FallbackInv, OnceSent
    <3>3. ASSUME NEW i \in Instance, NEW k \in DOMAIN push'[i] PROVE push'[i][k] # n
      <4>1. CASE i \in Subscribed
        <5>1. push[i] \in Seq(DOMAIN msg) /\ push'[i] = Append(push[i], m)
          BY <1>1, <4>1, PushTyped
        <5>2. k \in 1..(Len(push[i]) + 1) /\ DOMAIN push[i] = 1..Len(push[i])
              /\ Len(push[i]) \in Nat
          BY <3>3, <5>1, LenProperties, AppendProperties
        <5>3. CASE k = Len(push[i]) + 1
          BY <2>2, <5>1, <5>3, AppendProperties
        <5>4. CASE k \in 1..Len(push[i])
          BY <3>2, <5>1, <5>2, <5>4, AppendProperties DEF Untouched
        <5> QED
          BY <5>2, <5>3, <5>4
      <4>2. CASE i \notin Subscribed
        BY <1>1, <3>2, <3>3, <4>2 DEF Untouched
      <4> QED
        BY <4>1, <4>2
    <3> QED
      BY <1>1, <3>2, <3>3 DEF Untouched
  <2> QED
    BY <2>1, <2>2
<1> QED
  BY <1>1, <1>2, <1>3 DEF FallbackInv, OnceSent

LEMMA AnswerFallback ==
  ASSUME TypeOK, FallbackInv, NEW m \in DOMAIN msg, Answer(m)
  PROVE  FallbackInv'
<1>1. /\ status[m] = "executed" /\ msg' = msg
      /\ status' = [status EXCEPT ![m] = "settled"]
      /\ reached' = reached \ {m}
      /\ offline' = offline \/ (offline' = offline \cup {m} /\ m \notin reached)
      /\ UNCHANGED <<resent, heard, push>>
  BY DEF Answer, tabVars, CallsOffline
<1>2. \A n \in DOMAIN msg : Unsent(n)' => Unsent(n)
  BY <1>1 DEF Unsent, TypeOK
<1>3. \A n : Untouched(n)' <=> Untouched(n)
  BY <1>1 DEF Untouched
<1> QED
  BY <1>1, <1>2, <1>3 DEF FallbackInv, OnceSent, OfflineSettled, TypeOK

LEMMA CallerFallback ==
  ASSUME TypeOK, FallbackInv, NEW x \in Caller,
         CommandsBreak(x) \/ Close(x) \/ Disconnected(x)
  PROVE  FallbackInv'
<1>1. CASE CommandsBreak(x)
  <2>1. /\ msg' = msg /\ UNCHANGED <<offline, heard, push>>
        /\ reached' = reached \ Outstanding(x)
        /\ resent \subseteq resent'
        /\ \A m \in DOMAIN msg : m \notin Outstanding(x) => status'[m] = status[m]
        /\ \A m \in Outstanding(x) \ resent' :
             status'[m] = "settled" \/ (status'[m] = "queued" /\ status[m] = "queued")
    BY <1>1 DEF CommandsBreak, tabVars, Outstanding
  <2>2. offline \cap Outstanding(x) = {}
    BY DEF FallbackInv, OfflineSettled, Outstanding
  <2>3. \A m \in DOMAIN msg \ resent' : Unsent(m)' => Unsent(m)
    BY <2>1, <2>2 DEF Unsent, Outstanding
  <2>4. OfflineSettled'
    BY <2>1, <2>2 DEF FallbackInv, OfflineSettled, TypeOK
  <2>5. \A n : Untouched(n)' <=> Untouched(n)
    BY <2>1 DEF Untouched
  <2> QED
    BY <2>1, <2>3, <2>4, <2>5 DEF FallbackInv, OnceSent
<1>2. CASE Close(x)
  BY <1>2 DEF Close, tabVars, FallbackInv, OnceSent, OfflineSettled, Unsent, Untouched
<1>3. CASE Disconnected(x)
  <2>1. /\ msg' = msg /\ UNCHANGED <<offline, heard, resent>>
        /\ reached' = reached \ Outstanding(x)
        /\ \A m \in DOMAIN msg :
             status'[m] = IF m \in Outstanding(x) THEN "settled" ELSE status[m]
        /\ push' = [i \in Instance |-> IF i = x THEN <<>> ELSE push[i]]
    BY <1>3 DEF Disconnected, tabVars, Flushed
  <2>2. \A m \in DOMAIN msg : Unsent(m)' => Unsent(m)
    BY <2>1 DEF Unsent, Outstanding
  <2>3. OfflineSettled'
    BY <2>1 DEF FallbackInv, OfflineSettled, TypeOK
  <2>4. \A i \in Instance : \A k \in DOMAIN push'[i] : \E l \in DOMAIN push[i] : push'[i][k] = push[i][l]
    <3>1. DOMAIN <<>> = {}
      OBVIOUS
    <3> QED
      BY <2>1, <3>1
  <2> QED
    BY <2>1, <2>2, <2>3, <2>4, UntouchedKept DEF FallbackInv, OnceSent
<1> QED
  BY <1>1, <1>2, <1>3

LEMMA TabFallback ==
  ASSUME TypeOK, FallbackInv, NEW i \in Instance,
         \/ Connect(i) \/ Disconnect(i) \/ Unsubscribed(i) \/ UnsubscribeRejected(i)
         \/ Deliver(i) \/ LinkBreaks(i) \/ RedisNotices(i) \/ LinkReopens(i)
  PROVE  FallbackInv'
<1>1. UNCHANGED callVars
  BY DEF Connect, Disconnect, Unsubscribed, UnsubscribeRejected, Deliver, LinkBreaks,
     RedisNotices, LinkReopens
<1>2. ASSUME NEW m PROVE m \in heard' => m \in heard \/ \E k \in DOMAIN push[i] : push[i][k] = m
  <2>1. CASE Deliver(i)
    <3>1. push[i] # <<>> /\ heard' \subseteq heard \cup {Head(push[i])}
      BY <2>1 DEF Deliver
    <3>2. push[i] \in Seq(DOMAIN msg)
      BY PushTyped
    <3>3. 1 \in DOMAIN push[i] /\ Head(push[i]) = push[i][1]
      BY <3>1, <3>2, LenProperties, EmptySeq
    <3> QED
      BY <3>1, <3>3
  <2>2. CASE ~Deliver(i)
    BY <2>2 DEF Connect, Disconnect, Unsubscribed, UnsubscribeRejected, LinkBreaks,
       RedisNotices, LinkReopens, tabVars
  <2> QED
    BY <2>1, <2>2
<1>3. ASSUME NEW j \in Instance, NEW k \in DOMAIN push'[j]
      PROVE  \E l \in DOMAIN push[j] : push'[j][k] = push[j][l]
  <2>1. CASE Deliver(i) /\ j = i
    <3>1. push[i] # <<>> /\ push'[i] = Tail(push[i])
      BY <2>1 DEF Deliver, TypeOK
    <3>2. push[i] \in Seq(DOMAIN msg)
      BY PushTyped
    <3>3. /\ Tail(push[i]) \in Seq(DOMAIN msg)
          /\ Len(Tail(push[i])) = Len(push[i]) - 1
          /\ \A l \in 1..Len(Tail(push[i])) : Tail(push[i])[l] = push[i][l + 1]
      BY <3>1, <3>2, HeadTailProperties
    <3>4. /\ k \in 1..(Len(push[i]) - 1) /\ DOMAIN push[i] = 1..Len(push[i])
          /\ Len(push[i]) \in Nat
      BY <1>3, <2>1, <3>1, <3>2, <3>3, LenProperties
    <3>5. k + 1 \in DOMAIN push[i] /\ push'[i][k] = push[i][k + 1]
      BY <3>1, <3>3, <3>4
    <3> QED
      BY <2>1, <3>5
  <2>2. CASE LinkBreaks(i) /\ j = i
    <3>1. push'[i] = <<>>
      BY <2>2 DEF LinkBreaks, TypeOK
    <3>2. DOMAIN <<>> = {}
      OBVIOUS
    <3> QED
      BY <1>3, <2>2, <3>1, <3>2
  <2>3. CASE (~Deliver(i) /\ ~LinkBreaks(i)) \/ j # i
    <3>1. push'[j] = push[j]
      BY <2>3 DEF Connect, Disconnect, Unsubscribed, UnsubscribeRejected, Deliver, LinkBreaks,
         RedisNotices, LinkReopens, TypeOK
    <3> QED
      BY <1>3, <3>1
  <2> QED
    BY <2>1, <2>2, <2>3
<1>4. \A m : Untouched(m) => Untouched(m)'
  BY <1>2, <1>3, UntouchedKept
<1> QED
  BY <1>1, <1>4 DEF callVars, FallbackInv, OnceSent, OfflineSettled, Unsent

LEMMA PublishFallback ==
  ASSUME TypeOK, FallbackInv, Publishes
  PROVE  FallbackInv'
<1> DEFINE n == Len(msg) + 1
<1>1. /\ DOMAIN msg' = DOMAIN msg \cup {n}
      /\ \A m \in DOMAIN msg : status'[m] = status[m]
      /\ UNCHANGED <<reached, resent, offline, heard, push>>
  BY PublishAdds DEF Publishes
<1>2. n \notin DOMAIN msg
  BY CallsTyped
<1>3. Untouched(n)
  <2>1. n \notin heard
    BY <1>2 DEF TypeOK
  <2>2. ASSUME NEW i \in Instance, NEW k \in DOMAIN push[i] PROVE push[i][k] # n
    <3>1. push[i][k] \in DOMAIN msg
      BY PushTyped, LenProperties, ElementOfSeq
    <3> QED
      BY <1>2, <3>1
  <2> QED
    BY <2>1, <2>2 DEF Untouched
<1>4. \A m : Untouched(m)' <=> Untouched(m)
  BY <1>1 DEF Untouched
<1>5. OnceSent'
  BY <1>1, <1>3, <1>4 DEF FallbackInv, OnceSent, Unsent
<1>6. OfflineSettled'
  BY <1>1 DEF FallbackInv, OfflineSettled, TypeOK
<1> QED
  BY <1>5, <1>6 DEF FallbackInv

LEMMA NextFallback == TypeOK /\ FallbackInv /\ [Next]_vars => FallbackInv'
<1> SUFFICES ASSUME TypeOK, FallbackInv, [Next]_vars PROVE FallbackInv'
  OBVIOUS
<1>1. CASE UNCHANGED vars
  BY <1>1 DEF vars, callVars, tabVars, FallbackInv, OnceSent, OfflineSettled, Unsent, Untouched
<1> QED
  BY <1>1, NextCases, ExecuteFallback, AnswerFallback, CallerFallback, TabFallback,
     PublishFallback

LEMMA InitFallback == Init => FallbackInv
BY EmptySeq DEF Init, FallbackInv, OnceSent, OfflineSettled

\* When sendOr() falls back to offline(), no tab of the cluster was sent the
\* message and none will be, whichever connections broke meanwhile, unless
\* ioredis sent the PUBLISH twice (netiflyServer.ts:475-486).
THEOREM FallbackNeverDuplicates == Spec => []OfflineMeansUnheard
<1>1. TypeOK /\ FallbackInv => OfflineMeansUnheard
  BY DEF TypeOK, FallbackInv, OnceSent, Unsent, Untouched, OfflineMeansUnheard
<1> QED
  BY InitTyped, InitFallback, NextTyped, NextFallback, <1>1, PTL DEF Spec

-----------------------------------------------------------------------------
\* A healthy tab misses nothing

\* ioredis holds the channel for every tab and no UNSUBSCRIBE is under way, and
\* only a tab is owed anything.
LinkServes ==
  \A i \in Instance :
    /\ tab[i] => i \in channel \ leaving
    /\ ~tab[i] => owed[i] = {}

HealthInv == LinkServes /\ HealthyTabMissesNothing

LEMMA LinkServesKept == TypeOK /\ LinkServes /\ [Next]_vars => LinkServes'
<1> SUFFICES ASSUME TypeOK, LinkServes, [Next]_vars PROVE LinkServes'
  OBVIOUS
<1> USE DEF LinkServes, linkVars, tabVars
<1>1. ASSUME NEW m \in DOMAIN msg, Execute(m) \/ Answer(m) PROVE LinkServes'
  BY <1>1 DEF Execute, Answer
<1>2. ASSUME NEW x \in Caller, CommandsBreak(x) \/ Close(x) \/ Disconnected(x)
      PROVE  LinkServes'
  BY <1>2 DEF CommandsBreak, Close, Disconnected
<1>3. ASSUME NEW i \in Instance,
             \/ Connect(i) \/ Disconnect(i) \/ Unsubscribed(i) \/ UnsubscribeRejected(i)
             \/ Deliver(i) \/ LinkBreaks(i) \/ RedisNotices(i) \/ LinkReopens(i)
      PROVE  LinkServes'
  <2> USE DEF TypeOK
  <2>1. CASE Connect(i)
    BY <2>1 DEF Connect
  <2>2. CASE Disconnect(i)
    BY <2>2 DEF Disconnect
  <2>3. CASE Deliver(i)
    BY <2>3 DEF Deliver
  <2>4. CASE LinkBreaks(i)
    BY <2>4 DEF LinkBreaks
  <2>5. CASE RedisNotices(i)
    BY <2>5 DEF RedisNotices
  <2>6. CASE LinkReopens(i)
    BY <2>6 DEF LinkReopens, Resubscribes
  <2>7. CASE Unsubscribed(i) \/ UnsubscribeRejected(i)
    BY <2>7 DEF Unsubscribed, UnsubscribeRejected
  <2> QED
    BY <1>3, <2>1, <2>2, <2>3, <2>4, <2>5, <2>6, <2>7
<1>4. CASE Publishes
  BY <1>4 DEF Publishes
<1>5. CASE UNCHANGED vars
  BY <1>5 DEF vars
<1> QED
  BY <1>1, <1>2, <1>3, <1>4, <1>5, NextCases

LEMMA ExecuteHealthy ==
  ASSUME TypeOK, HealthInv, NEW m \in DOMAIN msg, Execute(m)
  PROVE  HealthyTabMissesNothing'
<1> SUFFICES ASSUME NEW i \in Instance, NEW n \in owed'[i]
             PROVE  \E k \in DOMAIN push'[i] : push'[i][k] = n
  BY DEF HealthyTabMissesNothing
<1>1. push'[i] = IF i \in Subscribed THEN Append(push[i], m) ELSE push[i]
  BY DEF Execute
<1>2. n \in owed[i] \/ (n = m /\ i \in Subscribed)
  BY DEF Execute, HealthInv, LinkServes, Subscribed
<1>3. push[i] \in Seq(DOMAIN msg)
  BY PushTyped
<1>4. CASE i \in Subscribed
  <2>1. /\ DOMAIN push'[i] = 1..(Len(push[i]) + 1) /\ DOMAIN push[i] = 1..Len(push[i])
        /\ Len(push[i]) \in Nat
        /\ push'[i][Len(push[i]) + 1] = m
        /\ \A k \in 1..Len(push[i]) : push'[i][k] = push[i][k]
    BY <1>1, <1>3, <1>4, AppendProperties, LenProperties
  <2>2. CASE n = m
    BY <2>1, <2>2
  <2>3. CASE n \in owed[i]
    <3>1. PICK k \in DOMAIN push[i] : push[i][k] = n
      BY <2>3 DEF HealthInv, HealthyTabMissesNothing
    <3> QED
      BY <2>1, <3>1
  <2> QED
    BY <1>2, <2>2, <2>3
<1>5. CASE i \notin Subscribed
  BY <1>1, <1>2, <1>5 DEF HealthInv, HealthyTabMissesNothing
<1> QED
  BY <1>4, <1>5

LEMMA DeliverHealthy ==
  ASSUME TypeOK, HealthInv, NEW j \in Instance, Deliver(j)
  PROVE  HealthyTabMissesNothing'
<1> SUFFICES ASSUME NEW i \in Instance, NEW n \in owed'[i]
             PROVE  \E k \in DOMAIN push'[i] : push'[i][k] = n
  BY DEF HealthyTabMissesNothing
<1>1. CASE i # j
  <2>1. push'[i] = push[i] /\ owed'[i] = owed[i]
    BY <1>1 DEF Deliver, TypeOK
  <2> QED
    BY <2>1 DEF HealthInv, HealthyTabMissesNothing
<1>2. CASE i = j
  <2>1. push[i] # <<>> /\ push'[i] = Tail(push[i]) /\ push[i] \in Seq(DOMAIN msg)
    BY <1>2, PushTyped DEF Deliver, TypeOK
  <2>2. n \in owed[i] /\ n # Head(push[i])
    BY <1>2 DEF Deliver, TypeOK, HealthInv, LinkServes
  <2>3. PICK k \in DOMAIN push[i] : push[i][k] = n
    BY <2>2 DEF HealthInv, HealthyTabMissesNothing
  <2>4. /\ DOMAIN push[i] = 1..Len(push[i]) /\ Len(push[i]) \in Nat
        /\ DOMAIN Tail(push[i]) = 1..(Len(push[i]) - 1)
        /\ \A l \in 1..(Len(push[i]) - 1) : Tail(push[i])[l] = push[i][l + 1]
        /\ Head(push[i]) = push[i][1]
    BY <2>1, HeadTailProperties, LenProperties
  <2>5. k - 1 \in 1..(Len(push[i]) - 1) /\ (k - 1) + 1 = k
    BY <2>2, <2>3, <2>4
  <2> QED
    BY <2>1, <2>3, <2>4, <2>5
<1> QED
  BY <1>1, <1>2

LEMMA NextHealthy == TypeOK /\ HealthInv /\ [Next]_vars => HealthInv'
<1> SUFFICES ASSUME TypeOK, HealthInv, [Next]_vars PROVE HealthyTabMissesNothing'
  BY LinkServesKept DEF HealthInv
<1> USE DEF linkVars, tabVars
<1>1. ASSUME NEW m \in DOMAIN msg, Answer(m) PROVE HealthyTabMissesNothing'
  BY <1>1 DEF Answer, HealthInv, HealthyTabMissesNothing
<1>2. ASSUME NEW x \in Caller, CommandsBreak(x) \/ Close(x) PROVE HealthyTabMissesNothing'
  BY <1>2 DEF CommandsBreak, Close, HealthInv, HealthyTabMissesNothing
<1>3. ASSUME NEW x \in Caller, Disconnected(x) PROVE HealthyTabMissesNothing'
  <2> SUFFICES ASSUME NEW i \in Instance, NEW n \in owed'[i]
               PROVE  \E k \in DOMAIN push'[i] : push'[i][k] = n
    BY DEF HealthyTabMissesNothing
  <2>1. owed' = owed /\ i # x /\ push'[i] = push[i]
    BY <1>3 DEF Disconnected, HealthInv, LinkServes
  <2> QED
    BY <2>1 DEF HealthInv, HealthyTabMissesNothing
<1>4. ASSUME NEW i \in Instance,
             \/ Connect(i) \/ Disconnect(i) \/ Unsubscribed(i) \/ UnsubscribeRejected(i)
             \/ LinkBreaks(i) \/ RedisNotices(i) \/ LinkReopens(i)
      PROVE  HealthyTabMissesNothing'
  <2>1. \A j \in Instance : \/ push'[j] = push[j] /\ owed'[j] \subseteq owed[j]
                            \/ owed'[j] = {}
    BY <1>4 DEF Connect, Disconnect, Unsubscribed, UnsubscribeRejected, LinkBreaks,
       RedisNotices, LinkReopens, TypeOK
  <2> QED
    BY <2>1 DEF HealthInv, HealthyTabMissesNothing
<1>5. CASE Publishes
  BY <1>5 DEF Publishes, HealthInv, HealthyTabMissesNothing
<1>6. CASE UNCHANGED vars
  BY <1>6 DEF vars, HealthInv, HealthyTabMissesNothing
<1> QED
  BY <1>1, <1>2, <1>3, <1>4, <1>5, <1>6, NextCases, ExecuteHealthy, DeliverHealthy

LEMMA InitHealthy == Init => HealthInv
BY DEF Init, HealthInv, LinkServes, HealthyTabMissesNothing

\* While its instance's link holds, a tab is sent all that is published after it
\* connected or after the link was opened again: what Redis pushed is still on
\* its way (redisTransport.ts:75-80).
THEOREM HealthyTabServed == Spec => []HealthyTabMissesNothing
<1>1. HealthInv => HealthyTabMissesNothing
  BY DEF HealthInv
<1> QED
  BY InitTyped, InitHealthy, NextTyped, NextHealthy, <1>1, PTL DEF Spec
=============================================================================
