------------------------- MODULE NetiflyClientProofs -------------------------
(***************************************************************************)
(* Theorems about NetiflyClient, for any number of reconnect attempts,     *)
(* calls and reentrant calls.                                              *)
(***************************************************************************)
EXTENDS NetiflyClient, FiniteSetTheorems, SequenceTheorems, TLAPS

-----------------------------------------------------------------------------
\* What is left to do

LEMMA PushOne ==
  ASSUME NEW S, NEW x, NEW q \in Seq(S)
  PROVE  /\ <<x>> \o q # <<>> /\ Head(<<x>> \o q) = x /\ Tail(<<x>> \o q) = q
         /\ x \in S => <<x>> \o q \in Seq(S)
<1>1. /\ <<x>> \in Seq({x}) /\ Len(<<x>>) = 1 /\ <<x>>[1] = x
  OBVIOUS
<1>2. /\ Len(<<x>> \o q) = Len(q) + 1 /\ Len(q) \in Nat
      /\ (<<x>> \o q)[1] = x
      /\ \A i \in 1..Len(q) : (<<x>> \o q)[i + 1] = q[i]
      /\ <<x>> \o q \in Seq(S \cup {x})
  BY <1>1
<1>3. <<x>> \o q # <<>>
  BY <1>2
<1>4. Head(<<x>> \o q) = x
  BY <1>2
<1>5. Tail(<<x>> \o q) = q
  BY <1>2, <1>3
<1>6. x \in S => S \cup {x} = S
  OBVIOUS
<1> QED
  BY <1>2, <1>3, <1>4, <1>5, <1>6

LEMMA Single ==
  ASSUME NEW x
  PROVE  /\ <<x>> # <<>> /\ Head(<<x>>) = x /\ Tail(<<x>>) = <<>>
         /\ <<x>> \o <<>> = <<x>>
OBVIOUS

LEMMA Pair ==
  ASSUME NEW x, NEW y
  PROVE  /\ <<x, y>> # <<>> /\ Head(<<x, y>>) = x /\ Tail(<<x, y>>) = <<y>>
         /\ <<x, y>> \o <<>> = <<x, y>> /\ <<x>> \o <<y>> = <<x, y>>
<1> DEFINE T == {x, y}
<1>1. <<x, y>> \in Seq(T) /\ <<x>> \in Seq(T) /\ <<y>> \in Seq(T)
  OBVIOUS
<1>2. /\ <<x, y>> # <<>> /\ Len(<<x, y>>) = 2 /\ <<x, y>>[1] = x /\ <<x, y>>[2] = y
      /\ Len(<<x>>) = 1 /\ Len(<<y>>) = 1 /\ <<x>>[1] = x /\ <<y>>[1] = y
      /\ Head(<<x, y>>) = x
  OBVIOUS
<1>3. <<x>> \o <<y>> = <<x, y>>
  <2> DEFINE s == <<x>> \o <<y>>
  <2>1. s \in Seq(T) /\ Len(s) = 2 /\ s[1] = x /\ s[2] = y
    BY <1>1, <1>2, ConcatProperties
  <2>2. \A i \in 1..Len(s) : s[i] = <<x, y>>[i]
    BY <1>2, <2>1
  <2> HIDE DEF s
  <2>3. s = <<x, y>>
    BY <1>1, <1>2, <2>1, <2>2, SeqEqual
  <2> QED
    BY <2>3 DEF s
<1>4. <<x, y>> \o <<>> = <<x, y>>
  BY <1>1, ConcatEmptySeq
<1>5. Tail(<<x, y>>) = <<y>>
  <2>1. /\ Tail(<<x, y>>) \in Seq(T) /\ Len(Tail(<<x, y>>)) = 1
        /\ \A i \in 1..1 : Tail(<<x, y>>)[i] = <<x, y>>[i + 1]
    BY <1>1, <1>2, HeadTailProperties
  <2>2. Tail(<<x, y>>)[1] = y
    BY <1>2, <2>1
  <2> QED
    BY <1>1, <1>2, <2>1, <2>2, SeqEqual
<1> QED
  BY <1>2, <1>3, <1>4, <1>5

LEMMA PushTwo ==
  ASSUME NEW S, NEW x, NEW y, NEW q \in Seq(S)
  PROVE  <<x, y>> \o q = <<x>> \o (<<y>> \o q)
<1> DEFINE T == S \cup {x, y}
<1>1. <<x>> \in Seq(T) /\ <<y>> \in Seq(T)
  OBVIOUS
<1>2. q \in Seq(T)
  OBVIOUS
<1>3. (<<x>> \o <<y>>) \o q = <<x>> \o (<<y>> \o q)
  BY <1>1, <1>2, ConcatAssociative
<1> QED
  BY <1>3, Pair

-----------------------------------------------------------------------------
\* Type correctness

Calls == {"connect", "close", "openSocket"}
Later == {j \in Job : j.op \notin Calls}

\* A call is made at once: what waits behind the head of todo is not a call.
CallsFirst == ~Idle => Tail(todo) \in Seq(Later)

\* A call that is being made may take one more generation.
Calling == ~Idle /\ Head(todo).op \in Calls
Numbered == generation + (IF Calling THEN 1 ELSE 0) <= MaxGeneration + reentries

TodoOK == todo \in Seq(Job) /\ CallsFirst /\ Numbered

Typed == TypeOK /\ IsFiniteSet(armed) /\ TodoOK

LEMMA JobsAre ==
  /\ \A op \in Calls : Do(op) \in Job
  /\ \A op \in {"emitError", "emitClose", "armTimer"} : Do(op) \in Later
  /\ \A s \in State : SetState(s) \in Later
  /\ \A g \in Generation, op \in {"proceed", "newSocket", "tokenFailed"} : Of(op, g) \in Later
  /\ \A g \in Generation, code \in Code : AfterClose(g, code) \in Later
  /\ \A plan \in Plan : Schedule(plan) \in Later
BY DEF Job, Later, Calls, Do, SetState, Of, AfterClose, Schedule

LEMMA HeadIs ==
  ASSUME Typed, ~Idle
  PROVE  /\ Rest \in Seq(Later) /\ Head(todo) \in Job
         /\ Next1 = "setState" => Head(todo).state \in State
         /\ Next1 \in {"proceed", "newSocket", "tokenFailed", "afterClose"} =>
              Head(todo).gen \in Generation
         /\ Next1 = "afterClose" => Head(todo).code \in Code
         /\ Next1 = "schedule" => Head(todo).plan \in Plan
<1>1. Head(todo) \in Job
  BY DEF Typed, TodoOK, Idle
<1> QED
  BY <1>1 DEF Typed, TodoOK, CallsFirst, Job, Next1, Rest

\* One job is put in front of those that wait.
LEMMA Pushed ==
  ASSUME NEW x \in Job, NEW q \in Seq(Later), todo' = <<x>> \o q
  PROVE  /\ todo' \in Seq(Job) /\ CallsFirst' /\ ~Idle'
         /\ Head(todo') = x /\ Tail(todo') = q
         /\ Calling' <=> x.op \in Calls
<1>1. q \in Seq(Job)
  BY DEF Later
<1> QED
  BY <1>1, PushOne DEF CallsFirst, Calling, Idle

LEMMA PushedTwo ==
  ASSUME NEW x \in Job, NEW y \in Later, NEW q \in Seq(Later), todo' = <<x, y>> \o q
  PROVE  /\ todo' \in Seq(Job) /\ CallsFirst' /\ (Calling' <=> x.op \in Calls)
<1>1. <<y>> \o q \in Seq(Later)
  BY PushOne
<1>2. todo' = <<x>> \o (<<y>> \o q)
  BY PushTwo
<1> QED
  BY <1>1, <1>2, Pushed

LEMMA Popped ==
  ASSUME NEW q \in Seq(Later), todo' = q
  PROVE  todo' \in Seq(Job) /\ CallsFirst' /\ ~Calling'
<1>1. q \in Seq(Job)
  BY DEF Later
<1>2. q # <<>> => Head(q) \in Later /\ Tail(q) \in Seq(Later)
  BY HeadTailProperties
<1> QED
  BY <1>1, <1>2 DEF CallsFirst, Calling, Idle, Later

\* No call is added, and no generation.
LEMMA NotCalling ==
  ASSUME Typed, generation' = generation, reentries' = reentries,
         todo' \in Seq(Job), CallsFirst', Calling' => Calling
  PROVE  TodoOK'
BY ClientAssumption DEF Typed, TypeOK, TodoOK, Numbered, Generation, None

LEMMA NoJob == <<>> \in Seq(Later)
OBVIOUS

LEMMA CallHandlersTyped ==
  ASSUME Typed, ~Idle, NEW h, CallHandlers(h), generation' = generation,
         Next1 \notin Calls
  PROVE  TodoOK' /\ reentries' \in 0..MaxReentries
<1>1. Rest \in Seq(Later)
  BY HeadIs
<1>2. CASE todo' = Rest /\ UNCHANGED reentries
  BY <1>1, <1>2, Popped, NotCalling DEF Typed, TypeOK
<1>3. ASSUME NEW call \in {"connect", "close"}, reentries < MaxReentries,
             reentries' = reentries + 1, todo' = <<Do(call)>> \o Rest
      PROVE  TodoOK' /\ reentries' \in 0..MaxReentries
  <2>1. Do(call) \in Job
    BY JobsAre DEF Calls
  <2>2. todo' \in Seq(Job) /\ CallsFirst'
    BY <1>1, <1>3, <2>1, Pushed
  <2>3. ~Calling
    BY DEF Calling, Next1
  <2> QED
    BY <1>3, <2>2, <2>3, ClientAssumption
       DEF Typed, TypeOK, TodoOK, Numbered, Generation, None
<1> QED
  BY <1>2, <1>3 DEF CallHandlers

\* The new timeout's name is free.
LEMMA FreeTimer ==
  ASSUME IsFiniteSet(armed)
  PROVE  \E t \in 1..(Cardinality(armed) + 1) : t \notin armed
<1> DEFINE n == Cardinality(armed)
<1>1. n \in Nat
  BY FS_CardinalityType
<1>2. IsFiniteSet(1..(n + 1)) /\ Cardinality(1..(n + 1)) = n + 1
  <2>1. 1 \in Int /\ n + 1 \in Int
    BY <1>1
  <2>2. /\ IsFiniteSet(1..(n + 1))
        /\ Cardinality(1..(n + 1)) = IF 1 > n + 1 THEN 0 ELSE (n + 1) - 1 + 1
    BY <2>1, FS_Interval
  <2> QED
    BY <1>1, <2>2
<1>3. SUFFICES ASSUME 1..(n + 1) \subseteq armed PROVE FALSE
  OBVIOUS
<1>4. n + 1 <= n
  BY <1>2, <1>3, FS_Subset
<1> QED
  BY <1>1, <1>4

LEMMA ConnectTyped ==
  ASSUME Typed, NEW rest \in Seq(Later), Connect(rest),
         Calling \/ generation + 1 <= MaxGeneration + reentries
  PROVE  Typed'
<1>1. TodoOK'
  <2>1. CASE todo' = rest
    <3>1. todo' \in Seq(Job) /\ CallsFirst' /\ ~Calling'
      BY <2>1, Popped
    <3> QED
      BY <3>1, NotCalling DEF Connect
  <2>2. CASE todo' = <<Do("openSocket")>> \o rest
    <3>1. Do("openSocket") \in Job
      BY JobsAre DEF Calls
    <3>2. todo' \in Seq(Job) /\ CallsFirst'
      BY <2>2, <3>1, Pushed
    <3> QED
      BY <3>2, ClientAssumption
         DEF Connect, Typed, TypeOK, TodoOK, Numbered, Generation, None
  <2> QED
    BY <2>1, <2>2 DEF Connect
<1>2. todo' \in Seq(Job)
  BY <1>1 DEF TodoOK
<1>3. attempt' \in 0..MaxReconnectAttempts /\ intentional' \in BOOLEAN
  <2>1. \/ attempt' = attempt /\ intentional' = intentional
        \/ attempt' = 0 /\ intentional' = FALSE
    BY DEF Connect
  <2>2. attempt' \in 0..MaxReconnectAttempts
    <3>1. attempt' \in {attempt, 0}
      BY <2>1
    <3> QED
      BY <3>1, ClientAssumption DEF Typed, TypeOK
  <2>3. intentional' \in BOOLEAN
    BY <2>1, Zenon DEF Typed, TypeOK
  <2> QED
    BY <2>2, <2>3
<1>4. UNCHANGED <<state, socket, timer, generation, reentries, withToken, reentry,
                  conn, opened, settled, tokens, armed>>
  BY DEF Connect, world, options
<1> QED
  BY <1>1, <1>2, <1>3, <1>4 DEF Typed, TypeOK

LEMMA CloseTyped ==
  ASSUME Typed, NEW rest \in Seq(Later), Close(rest),
         Calling \/ generation + 1 <= MaxGeneration + reentries
  PROVE  Typed'
<1>1. generation \in Nat /\ generation' \in Generation /\ generation' <= MaxGeneration + reentries
  BY ClientAssumption DEF Close, Typed, TypeOK, TodoOK, Numbered, Generation, None
<1>2. TodoOK'
  <2>1. SetState("closed") \in Job /\ SetState("closed").op \notin Calls
    BY JobsAre DEF State, Later
  <2>2. todo' \in Seq(Job) /\ CallsFirst' /\ ~Calling'
    BY <2>1, Pushed DEF Close
  <2> QED
    BY <1>1, <2>2, ClientAssumption
       DEF Close, Typed, TypeOK, TodoOK, Numbered, Generation, None
<1>3. IsFiniteSet(armed')
  BY FS_Subset DEF Close, Typed
<1>4. conn' \in [Generation -> {"none", "connecting", "open", "closing", "closed"}]
  BY DEF Close, CloseSocket, Typed, TypeOK
<1> QED
  BY <1>1, <1>2, <1>3, <1>4 DEF Close, Typed, TypeOK, TodoOK, options, None

LEMMA RunTyped ==
  ASSUME Typed, Run
  PROVE  Typed'
<1> USE DEF Typed, TypeOK
<1>0. /\ ~Idle /\ Rest \in Seq(Later)
      /\ Next1 \in Calls => Calling
      /\ generation \in Nat /\ reentries \in Nat
      /\ generation # 0 => generation \in Generation
  <2>1. ~Idle
    BY DEF Run, RunConnect, RunClose, RunSetState, RunEmit, RunOpenSocket, RunProceed,
       RunNewSocket, RunNewSocketThrows, RunTokenFailed, RunAfterClose, RunSchedule, RunArmTimer
  <2> QED
    BY <2>1, HeadIs, ClientAssumption DEF Calling, Next1, Generation, None
<1>1. CASE RunConnect
  BY <1>0, <1>1, ConnectTyped DEF RunConnect, Calls
<1>2. CASE RunClose
  BY <1>0, <1>2, CloseTyped DEF RunClose, Calls
<1>3. CASE RunSetState
  <2>1. Head(todo).state \in State
    BY <1>0, <1>3, HeadIs DEF RunSetState
  <2>2. TodoOK' /\ reentries' \in 0..MaxReentries
    <3>1. CASE state' = state
      BY <1>0, <1>3, <3>1, Popped, NotCalling DEF RunSetState
    <3>2. CASE state' # state
      BY <1>0, <1>3, <3>2, CallHandlersTyped DEF RunSetState, Calls
    <3> QED
      BY <3>1, <3>2
  <2> QED
    BY <1>3, <2>1, <2>2 DEF RunSetState, world, options, TodoOK
<1>4. CASE RunEmit
  <2>1. TodoOK' /\ reentries' \in 0..MaxReentries
    BY <1>0, <1>4, CallHandlersTyped DEF RunEmit, fields, Calls
  <2> QED
    BY <1>4, <2>1 DEF RunEmit, fields, world, options, TodoOK
<1>5. CASE RunOpenSocket
  <2>1. /\ generation + 1 \in Generation /\ generation' = generation + 1
        /\ generation' <= MaxGeneration + reentries
    BY <1>0, <1>5, ClientAssumption DEF RunOpenSocket, Calls, TodoOK, Numbered, Generation
  <2>2. /\ SetState("connecting") \in Job /\ SetState("connecting").op \notin Calls
        /\ Of("proceed", generation + 1) \in Later
    BY <2>1, JobsAre DEF State, Later
  <2>3. todo' \in Seq(Job) /\ CallsFirst' /\ ~Calling'
    BY <1>0, <1>5, <2>2, PushedTwo DEF RunOpenSocket
  <2>4. TodoOK'
    BY <1>0, <1>5, <2>1, <2>3, ClientAssumption DEF RunOpenSocket, TodoOK, Numbered
  <2> QED
    BY <1>5, <2>1, <2>4 DEF RunOpenSocket, world, options, TodoOK
<1>6. CASE RunProceed
  <2>1. Head(todo).gen \in Generation
    BY <1>0, <1>6, HeadIs DEF RunProceed
  <2>2. TodoOK'
    <3>1. CASE todo' = Rest
      BY <1>0, <1>6, <3>1, Popped, NotCalling DEF RunProceed, fields
    <3>2. CASE todo' = <<Of("newSocket", Head(todo).gen)>> \o Rest
      <4>1. Of("newSocket", Head(todo).gen) \in Later
        BY <2>1, JobsAre
      <4>2. todo' \in Seq(Job) /\ CallsFirst' /\ ~Calling'
        BY <1>0, <3>2, <4>1, Pushed DEF Later
      <4> QED
        BY <1>6, <4>2, NotCalling DEF RunProceed, fields
    <3> QED
      BY <1>6, <3>1, <3>2 DEF RunProceed
  <2> QED
    BY <1>6, <2>1, <2>2 DEF RunProceed, fields, options, TodoOK
<1>7. CASE RunNewSocket
  <2>1. Head(todo).gen \in Generation
    BY <1>0, <1>7, HeadIs DEF RunNewSocket
  <2>2. TodoOK'
    BY <1>0, <1>7, Popped, NotCalling DEF RunNewSocket
  <2> QED
    BY <1>7, <2>1, <2>2 DEF RunNewSocket, options, TodoOK
<1>8. CASE RunNewSocketThrows
  <2>1. /\ Do("emitError") \in Job /\ Do("emitError").op \notin Calls
        /\ Schedule("backoff") \in Later
    BY JobsAre DEF Later, Plan
  <2>2. todo' \in Seq(Job) /\ CallsFirst' /\ ~Calling'
    BY <1>0, <1>8, <2>1, PushedTwo DEF RunNewSocketThrows
  <2>3. TodoOK'
    BY <1>8, <2>2, NotCalling DEF RunNewSocketThrows, fields
  <2> QED
    BY <1>8, <2>3 DEF RunNewSocketThrows, fields, world, options, TodoOK
<1>9. CASE RunTokenFailed \/ RunAfterClose
  <2>1. \/ todo' = Rest
        \/ \E x \in Later : todo' = <<x>> \o Rest
    <3>1. CASE RunTokenFailed
      BY <3>1, JobsAre DEF RunTokenFailed, Plan
    <3>2. CASE RunAfterClose
      <4>1. \A wasOpen, code : PlanReconnect(wasOpen, code) \in Plan \cup {"none"}
        BY DEF PlanReconnect, Plan
      <4>2. SetState("closed") \in Later
        BY JobsAre DEF State
      <4>3. PlanReconnect(Head(todo).gen \in opened, Head(todo).code) # "none" =>
              Schedule(PlanReconnect(Head(todo).gen \in opened, Head(todo).code)) \in Later
        BY <4>1, JobsAre
      <4> QED
        BY <3>2, <4>2, <4>3 DEF RunAfterClose
    <3> QED
      BY <1>9, <3>1, <3>2
  <2>2. todo' \in Seq(Job) /\ CallsFirst' /\ ~Calling'
    BY <1>0, <2>1, Popped, Pushed DEF Later
  <2>3. UNCHANGED <<fields, world, reentries>>
    BY <1>9 DEF RunTokenFailed, RunAfterClose
  <2>4. TodoOK'
    BY <2>2, <2>3, NotCalling DEF fields
  <2> QED
    BY <2>3, <2>4 DEF fields, world, options, TodoOK
<1>10. CASE RunSchedule
  <2>1. /\ Do("emitError") \in Job /\ SetState("reconnecting") \in Job
        /\ Do("armTimer") \in Later /\ SetState("closed") \in Later
        /\ Do("emitError").op \notin Calls /\ SetState("reconnecting").op \notin Calls
    BY JobsAre DEF Later, State
  <2>2. \/ todo' = Rest
        \/ todo' = <<SetState("reconnecting"), Do("armTimer")>> \o Rest
        \/ todo' = <<Do("emitError"), SetState("closed")>> \o Rest
    BY <1>10 DEF RunSchedule
  <2>3. todo' \in Seq(Job) /\ CallsFirst' /\ ~Calling'
    BY <1>0, <2>1, <2>2, Popped, PushedTwo
  <2>4. TodoOK'
    BY <1>10, <2>3, NotCalling DEF RunSchedule
  <2>5. attempt' \in 0..MaxReconnectAttempts
    BY <1>10, ClientAssumption DEF RunSchedule
  <2> QED
    BY <1>10, <2>4, <2>5 DEF RunSchedule, world, options, TodoOK
<1>11. CASE RunArmTimer
  <2>1. timer' \in Nat
    <3>1. PICK t \in 1..(Cardinality(armed) + 1) : t \notin armed
      BY FreeTimer
    <3>2. timer' \in 1..(Cardinality(armed) + 1)
      BY <1>11, <3>1 DEF RunArmTimer
    <3> QED
      BY <3>2, FS_CardinalityType
  <2>2. IsFiniteSet(armed')
    BY <1>11, FS_AddElement DEF RunArmTimer
  <2>3. TodoOK'
    BY <1>0, <1>11, Popped, NotCalling DEF RunArmTimer
  <2> QED
    BY <1>11, <2>1, <2>2, <2>3 DEF RunArmTimer, options, TodoOK
<1> QED
  BY <1>1, <1>2, <1>3, <1>4, <1>5, <1>6, <1>7, <1>8, <1>9, <1>10, <1>11 DEF Run

LEMMA OutsideTyped ==
  ASSUME Typed,
         \/ AppConnect \/ AppClose
         \/ \E t \in armed : TimerFires(t)
         \/ \E g \in Generation : TokenResolves(g) \/ TokenRejects(g) \/ SocketStep(g)
  PROVE  Typed'
<1> USE DEF Typed, TypeOK
<1>0. /\ Idle => ~Calling
      /\ Bounded => generation + 1 <= MaxGeneration + reentries
  BY ClientAssumption DEF Calling, Bounded, Generation, None
<1>1. CASE AppConnect \/ AppClose
  BY <1>0, <1>1, NoJob, ConnectTyped, CloseTyped DEF AppConnect, AppClose
<1>2. ASSUME NEW t \in armed, TimerFires(t) PROVE Typed'
  <2>1. Do("openSocket") \in Job /\ todo' = <<Do("openSocket")>> \o <<>>
    BY <1>2, JobsAre, Single DEF TimerFires, Calls
  <2>2. todo' \in Seq(Job) /\ CallsFirst'
    BY <2>1, NoJob, Pushed
  <2>3. TodoOK'
    BY <1>0, <1>2, <2>2, ClientAssumption
       DEF TimerFires, TodoOK, Numbered, Generation, None
  <2>4. IsFiniteSet(armed')
    BY <1>2, FS_Subset DEF TimerFires
  <2> QED
    BY <1>2, <2>3, <2>4 DEF TimerFires, options, TodoOK, None
<1>3. ASSUME NEW g \in Generation, TokenResolves(g) \/ TokenRejects(g) PROVE Typed'
  <2>1. todo' \in Seq(Job) /\ CallsFirst' /\ ~Calling'
    <3>1. CASE todo' = <<>>
      BY <3>1, NoJob, Popped
    <3>2. CASE todo' = <<Of("newSocket", g)>>
      <4>1. Of("newSocket", g) \in Later /\ todo' = <<Of("newSocket", g)>> \o <<>>
        BY <3>2, JobsAre, Single
      <4> QED
        BY <4>1, NoJob, Pushed DEF Later
    <3>3. CASE todo' = <<Do("emitError"), Of("tokenFailed", g)>>
      <4>1. /\ Do("emitError") \in Later /\ Of("tokenFailed", g) \in Later
            /\ todo' = <<Do("emitError"), Of("tokenFailed", g)>> \o <<>>
        BY <3>3, JobsAre, Pair
      <4> QED
        BY <4>1, NoJob, PushedTwo DEF Later
    <3> QED
      BY <1>3, <3>1, <3>2, <3>3 DEF TokenResolves, TokenRejects
  <2>2. TodoOK'
    BY <1>3, <2>1, NotCalling DEF TokenResolves, TokenRejects, fields
  <2> QED
    BY <1>3, <2>2 DEF TokenResolves, TokenRejects, fields, options, TodoOK
<1>4. ASSUME NEW g \in Generation, SocketOpens(g) PROVE Typed'
  <2>1. todo' \in Seq(Job) /\ CallsFirst' /\ ~Calling'
    <3>1. CASE todo' = todo
      BY <1>4, <3>1, NoJob, Popped DEF SocketOpens, Idle
    <3>2. CASE todo' = <<SetState("open")>>
      <4>1. SetState("open") \in Later /\ todo' = <<SetState("open")>> \o <<>>
        BY <3>2, JobsAre, Single DEF State
      <4> QED
        BY <4>1, NoJob, Pushed DEF Later
    <3> QED
      BY <1>4, <3>1, <3>2 DEF SocketOpens
  <2>2. TodoOK'
    BY <1>4, <2>1, NotCalling DEF SocketOpens
  <2> QED
    BY <1>4, <2>2, ClientAssumption DEF SocketOpens, options, TodoOK
<1>5. ASSUME NEW g \in Generation, NEW code \in Code,
             SocketErrors(g) \/ SocketCloses(g, code)
      PROVE  Typed'
  <2>1. todo' = todo \/ \E c \in Code : todo' = <<Do("emitClose"), AfterClose(g, c)>>
    BY <1>5 DEF SocketErrors, SocketCloses, Settle, Code
  <2>2. todo' \in Seq(Job) /\ CallsFirst' /\ ~Calling'
    <3>1. CASE todo' = todo
      BY <1>5, <3>1, NoJob, Popped DEF SocketErrors, SocketCloses, Idle
    <3>2. ASSUME NEW c \in Code, todo' = <<Do("emitClose"), AfterClose(g, c)>>
          PROVE  todo' \in Seq(Job) /\ CallsFirst' /\ ~Calling'
      <4>1. /\ Do("emitClose") \in Later /\ AfterClose(g, c) \in Later
            /\ todo' = <<Do("emitClose"), AfterClose(g, c)>> \o <<>>
        BY <3>2, JobsAre, Pair
      <4> QED
        BY <4>1, NoJob, PushedTwo DEF Later
    <3> QED
      BY <2>1, <3>1, <3>2
  <2>3. TodoOK'
    BY <1>5, <2>2, NotCalling DEF SocketErrors, SocketCloses
  <2>4. socket' \in {socket, None} /\ settled' \subseteq settled \cup {g}
    BY <1>5 DEF SocketErrors, SocketCloses, Settle
  <2>5. conn' \in [Generation -> {"none", "connecting", "open", "closing", "closed"}]
    BY <1>5 DEF SocketErrors, SocketCloses
  <2> QED
    BY <1>5, <2>3, <2>4, <2>5 DEF SocketErrors, SocketCloses, options, TodoOK, None
<1> QED
  BY <1>1, <1>2, <1>3, <1>4, <1>5 DEF SocketStep, Code

LEMMA NextTyped == Typed /\ [Next]_vars => Typed'
<1> SUFFICES ASSUME Typed, [Next]_vars PROVE Typed'
  OBVIOUS
<1>1. CASE UNCHANGED vars
  BY <1>1 DEF vars, Typed, TypeOK, TodoOK, CallsFirst, Numbered, Calling, Idle
<1> QED
  BY <1>1, RunTyped, OutsideTyped DEF Next

LEMMA InitTyped == Init => Typed
<1> SUFFICES ASSUME Init PROVE Typed
  OBVIOUS
<1>1. todo \in Seq(Job)
  BY DEF Init
<1>2. IsFiniteSet(armed)
  BY FS_EmptySet DEF Init
<1>3. CallsFirst /\ Numbered
  BY ClientAssumption DEF Init, CallsFirst, Numbered, Calling, Idle
<1> QED
  BY <1>1, <1>2, <1>3, ClientAssumption
     DEF Init, Typed, TypeOK, TodoOK, State, Generation, None

\* Whatever the handlers call: a synchronous piece never queues a call behind
\* other work, attempts are numbered without reuse, and a new timeout is told
\* from those that still run.
THEOREM ClientTypeCorrect == Spec => []TypeOK
<1>1. Typed => TypeOK
  BY DEF Typed
<1> QED
  BY <1>1, InitTyped, NextTyped, PTL DEF Spec

-----------------------------------------------------------------------------
\* Sockets and timeouts

\* At any time a live socket is this.socket, it belongs to the current attempt,
\* and the one timeout that will fire is this.timer.
Mine ==
  /\ \A g \in Generation : conn[g] \in {"connecting", "open"} => g = socket
  /\ armed = IF timer = None THEN {} ELSE {timer}
  /\ socket # None => /\ socket = generation /\ socket \notin settled
                      /\ conn[socket] \in {"connecting", "open"}

\* An attempt has no socket before its generation and while it awaits a token;
\* the current attempt is settled once its socket is on its way out.
Past ==
  \A g \in Generation :
    /\ g > generation \/ g \in tokens => conn[g] = "none"
    /\ g > generation => g \notin tokens
    /\ conn[g] = "none" => g \notin opened \cup settled
    /\ conn[g] = "open" => g \in opened
    /\ g = generation /\ conn[g] \in {"closing", "closed"} => g \in settled

\* The current attempt has come to an end, or was superseded.
Loose == socket = None /\ timer = None /\ generation \notin tokens

Trying == Loose /\ ~intentional
Fresh == Trying /\ generation # 0 /\ conn[generation] = "none"
Opened == /\ ~intentional /\ timer = None
          /\ socket = generation /\ socket # None /\ conn[socket] = "open"

\* What each state stands for when nothing is being run.
AtRest ==
  \/ state = "closed" /\ Loose
  \/ /\ state = "connecting" /\ ~intentional /\ timer = None
     /\ \/ generation \in tokens /\ socket = None
        \/ socket = generation /\ socket # None /\ conn[socket] = "connecting"
  \/ state = "open" /\ Opened
  \/ /\ state = "reconnecting" /\ ~intentional /\ timer # None
     /\ socket = None /\ generation \notin tokens

\* The token of attempt g was refused.
Rejected(g) == IF g = generation THEN Trying ELSE AtRest

CloseOnly == \A h \in Handler : <<h, "connect">> \notin reentry

\* What may wait behind a close() in a handler: nothing, unless the handlers
\* never connect.  A token that waits was asked for no later than n.
Waits(q, n) ==
  \/ q = <<>>
  \/ /\ CloseOnly
     /\ \E x \in Job :
          /\ q = <<x>>
          /\ \/ x.op \in {"schedule", "afterClose"}
             \/ x = SetState("closed")
             \/ x.op = "tokenFailed" /\ x.gen <= n

\* The rest of a synchronous piece, with what its first job may rely on.
Running(h, r) ==
  \/ h.op = "close" /\ Waits(r, generation)
  \/ h.op = "connect" /\ r = <<>> /\ AtRest
  \/ h.op = "openSocket" /\ r = <<>> /\ socket = None /\ timer = None /\ ~intentional
  \/ h = SetState("connecting") /\ r = <<Of("proceed", generation)>> /\ Fresh
  \/ h = Of("proceed", generation) /\ r = <<>> /\ Fresh /\ state = "connecting"
  \/ h = Of("newSocket", generation) /\ r = <<>> /\ Fresh /\ state = "connecting"
  \/ h = Do("emitError") /\ r = <<Schedule("backoff")>> /\ Trying
  \/ h.op = "schedule" /\ r = <<>> /\ Loose /\ (intentional => state = "closed")
  \/ h = SetState("reconnecting") /\ r = <<Do("armTimer")>> /\ Trying
  \/ h = Do("armTimer") /\ r = <<>> /\ Trying /\ state = "reconnecting"
  \/ h = Do("emitError") /\ r = <<SetState("closed")>> /\ Loose
  \/ h = SetState("closed") /\ Waits(r, generation - 1) /\ Loose
  \/ h = SetState("open") /\ r = <<>> /\ Opened
  \/ h = Do("emitError") /\ \E g \in 1..generation : r = <<Of("tokenFailed", g)>> /\ Rejected(g)
  \/ h.op = "tokenFailed" /\ r = <<>> /\ Rejected(h.gen)
  \/ h = Do("emitClose") /\ (\E x \in Job : x.op = "afterClose" /\ r = <<x>>) /\ Loose
  \/ h.op = "afterClose" /\ r = <<>> /\ Loose

Control == IF Idle THEN AtRest ELSE Running(Head(todo), Rest)

ClientInv == Mine /\ Past /\ Control

\* A handler may close the client, or only the last handlers of a synchronous
\* piece may close and restart it: what MCClient's handlers do.
HandlersStandBack ==
  \A R \in Reentries :
    \/ R \subseteq {"closed", "open", "onClose", "onError"} \X {"close"}
    \/ R \subseteq {"closed", "open"} \X {"connect", "close"}

\* What the job at the head of todo may rely on.
LEMMA HeadMeans ==
  ASSUME Control, ~Idle
  PROVE  /\ Next1 = "close" => Waits(Rest, generation)
         /\ Next1 = "connect" => Rest = <<>> /\ AtRest
         /\ Next1 = "openSocket" =>
              Rest = <<>> /\ socket = None /\ timer = None /\ ~intentional
         /\ Next1 = "setState" =>
              \/ /\ Head(todo).state = "connecting"
                 /\ Rest = <<Of("proceed", generation)>> /\ Fresh
              \/ /\ Head(todo).state = "reconnecting"
                 /\ Rest = <<Do("armTimer")>> /\ Trying
              \/ Head(todo).state = "closed" /\ Waits(Rest, generation - 1) /\ Loose
              \/ Head(todo).state = "open" /\ Rest = <<>> /\ Opened
         /\ Next1 \in {"proceed", "newSocket"} =>
              /\ Head(todo).gen = generation /\ Rest = <<>>
              /\ Fresh /\ state = "connecting"
         /\ Next1 = "emitError" =>
              \/ Rest = <<Schedule("backoff")>> /\ Trying
              \/ Rest = <<SetState("closed")>> /\ Loose
              \/ \E g \in 1..generation : Rest = <<Of("tokenFailed", g)>> /\ Rejected(g)
         /\ Next1 = "emitClose" =>
              (\E x \in Job : x.op = "afterClose" /\ Rest = <<x>>) /\ Loose
         /\ Next1 = "schedule" => Rest = <<>> /\ Loose /\ (intentional => state = "closed")
         /\ Next1 = "armTimer" => Rest = <<>> /\ Trying /\ state = "reconnecting"
         /\ Next1 = "tokenFailed" => Rest = <<>> /\ Rejected(Head(todo).gen)
         /\ Next1 = "afterClose" => Rest = <<>> /\ Loose
BY DEF Control, Running, Next1, Do, SetState, Of

LEMMA SameWorld ==
  ASSUME UNCHANGED <<socket, timer, generation, conn, opened, settled, tokens, armed>>
  PROVE  /\ Mine => Mine'
         /\ Past => Past'
         /\ Loose' <=> Loose
BY DEF Mine, Past, Loose

LEMMA SameClient ==
  ASSUME UNCHANGED <<socket, timer, generation, conn, opened, settled, tokens, armed>>,
         UNCHANGED intentional
  PROVE  /\ Loose' <=> Loose
         /\ Trying' <=> Trying
         /\ Fresh' <=> Fresh
         /\ Opened' <=> Opened
         /\ state' = state => (AtRest' <=> AtRest) /\ \A g : Rejected(g)' <=> Rejected(g)
BY DEF Loose, Trying, Fresh, Opened, AtRest, Rejected

LEMMA HandlerCalls ==
  ASSUME HandlersStandBack, Typed, NEW h, CallHandlers(h)
  PROVE  \/ todo' = Rest
         \/ /\ todo' = <<Do("close")>> \o Rest
            /\ h \in {"closed", "open"} \/ CloseOnly
            /\ h \in {"closed", "open", "onClose", "onError"}
         \/ todo' = <<Do("connect")>> \o Rest /\ h \in {"closed", "open"} /\ ~CloseOnly
<1>1. reentry \in Reentries
  BY DEF Typed, TypeOK
<1>2. \/ reentry \subseteq {"closed", "open", "onClose", "onError"} \X {"close"}
      \/ reentry \subseteq {"closed", "open"} \X {"connect", "close"}
  BY <1>1 DEF HandlersStandBack
<1>3. ASSUME NEW call \in {"connect", "close"}, <<h, call>> \in reentry
      PROVE  /\ h \in {"closed", "open", "onClose", "onError"}
             /\ call = "close" => h \in {"closed", "open"} \/ CloseOnly
             /\ call = "connect" => h \in {"closed", "open"} /\ ~CloseOnly
  <2>1. CASE reentry \subseteq {"closed", "open", "onClose", "onError"} \X {"close"}
    BY <1>3, <2>1 DEF CloseOnly
  <2>2. CASE reentry \subseteq {"closed", "open"} \X {"connect", "close"}
    BY <1>3, <2>2 DEF CloseOnly, Handler, State
  <2> QED
    BY <1>2, <2>1, <2>2
<1> QED
  BY <1>3 DEF CallHandlers

\* What a new head of todo must be able to rely on.
LEMMA Starts ==
  ASSUME Typed, NEW x \in Job, ~Idle, todo' = <<x>> \o Rest
  PROVE  ~Idle' /\ Head(todo') = x /\ Rest' = Rest
BY HeadIs, Pushed DEF Rest

LEMMA StartsAlone ==
  ASSUME NEW x, todo' = <<x>> \/ todo' = <<x>> \o <<>>
  PROVE  ~Idle' /\ Head(todo') = x /\ Rest' = <<>>
BY Single DEF Rest, Idle

LEMMA StartsTwo ==
  ASSUME NEW x, NEW y, todo' = <<x, y>> \/ todo' = <<x, y>> \o <<>>
  PROVE  ~Idle' /\ Head(todo') = x /\ Rest' = <<y>>
BY Pair DEF Rest, Idle

\* Who may wait for whom depends on the handlers and the generation alone.
LEMMA WaitsLonger ==
  ASSUME Typed, NEW q, Waits(q, generation - 1)
  PROVE  Waits(q, generation)
<1>1. CASE q = <<>>
  BY <1>1 DEF Waits
<1>2. ASSUME NEW x \in Job, x.op = "tokenFailed", x.gen <= generation - 1
      PROVE  x.gen <= generation
  <2>1. x.gen \in Int /\ generation \in Int
    BY <1>2, ClientAssumption DEF Job, Typed, TypeOK, Generation, None
  <2> QED
    BY <1>2, <2>1
<1> QED
  BY <1>1, <1>2 DEF Waits

\* close() supersedes whatever was going on.
LEMMA CloseKeepsInv ==
  ASSUME ClientInv, Typed, NEW rest, Close(rest)
  PROVE  Mine' /\ Past' /\ Loose'
<1>0. /\ generation \in Nat /\ generation' = generation + 1 /\ None = 0
      /\ \A g \in Generation : g \in Nat /\ g # None
      /\ conn \in [Generation -> {"none", "connecting", "open", "closing", "closed"}]
      /\ \A g \in Generation : g > generation' => g > generation
  BY ClientAssumption DEF Typed, TypeOK, Generation, None, Close
<1>1. \A g \in Generation :
        /\ conn'[g] \notin {"connecting", "open"}
        /\ conn'[g] = conn[g] \/ (g = socket /\ conn'[g] = "closing")
  BY <1>0 DEF ClientInv, Mine, Close, CloseSocket
<1>2. Mine'
  BY <1>1 DEF ClientInv, Mine, Close
<1>3. generation' \in Generation => conn[generation'] = "none" /\ generation' \notin tokens
  BY <1>0 DEF ClientInv, Past
<1>4. generation' \in Generation => generation' # socket
  BY <1>0 DEF ClientInv, Mine
<1>5. Past'
  <2> SUFFICES ASSUME NEW g \in Generation
               PROVE  /\ g > generation' \/ g \in tokens => conn'[g] = "none"
                      /\ g > generation' => g \notin tokens
                      /\ conn'[g] = "none" => g \notin opened \cup settled
                      /\ conn'[g] = "open" => g \in opened
                      /\ g = generation' /\ conn'[g] \in {"closing", "closed"} => g \in settled
    BY DEF Past, Close
  <2>1. conn'[g] = conn[g] \/ (g = socket /\ conn'[g] = "closing" /\ g = generation)
    BY <1>0, <1>1 DEF ClientInv, Mine
  <2>2. CASE conn'[g] = conn[g]
    BY <1>0, <1>3, <2>2 DEF ClientInv, Past
  <2>3. CASE g = socket /\ conn'[g] = "closing" /\ g = generation
    BY <1>0, <2>3 DEF ClientInv, Past, Mine
  <2> QED
    BY <2>1, <2>2, <2>3
<1>6. Loose'
  <2>1. generation' \notin tokens
    BY <1>3 DEF Typed, TypeOK
  <2> QED
    BY <2>1 DEF Loose, Close
<1> QED
  BY <1>2, <1>5, <1>6

\* connect() when the client is at rest.
LEMMA ConnectKeepsInv ==
  ASSUME Mine, Past, AtRest, Typed, Connect(<<>>)
  PROVE  ClientInv'
<1>1. Mine' /\ Past'
  BY SameWorld DEF Connect, world
<1>2. CASE socket # None \/ timer # None
  <2>1. /\ UNCHANGED <<socket, timer, generation, conn, opened, settled, tokens, armed>>
        /\ UNCHANGED <<intentional, state>> /\ todo' = <<>>
    BY <1>2 DEF Connect, world
  <2>2. AtRest'
    BY <2>1, SameClient
  <2> QED
    BY <1>1, <2>1, <2>2 DEF ClientInv, Control, Idle
<1>3. CASE ~(socket # None \/ timer # None)
  <2>1. todo' = <<Do("openSocket")>> \o <<>>
    BY <1>3 DEF Connect
  <2>2. /\ Head(todo') = Do("openSocket") /\ Rest' = <<>> /\ ~Idle'
        /\ socket' = None /\ timer' = None /\ ~intentional'
    BY <1>3, <2>1, StartsAlone DEF Connect
  <2>3. Head(todo').op = "openSocket"
    BY <2>2 DEF Do
  <2> QED
    BY <1>1, <2>2, <2>3 DEF ClientInv, Control, Running
<1> QED
  BY <1>2, <1>3

-----------------------------------------------------------------------------
\* The steps of a synchronous piece

\* A handler is called: what it may call, and what goes on if it does not.
LEMMA CalledBack ==
  ASSUME HandlersStandBack, ClientInv, Typed, ~Idle, NEW h, CallHandlers(h),
         h \in {"onClose", "onError"} => Waits(Rest, generation),
         h \in {"closed", "open"} => Waits(Rest, generation) /\ (~CloseOnly => Rest = <<>>),
         h \in {"closed", "open"} => AtRest' \/ CloseOnly,
         UNCHANGED <<socket, timer, attempt, generation, intentional, world>>
  PROVE  /\ Mine' /\ Past'
         /\ todo' = Rest \/ Control'
<1>1. Mine' /\ Past'
  BY SameWorld DEF ClientInv, world
<1>2. generation' = generation /\ reentry' = reentry
  BY DEF world, options
<1>3. CASE /\ todo' = <<Do("close")>> \o Rest
           /\ h \in {"closed", "open", "onClose", "onError"}
  <2>1. Head(todo') = Do("close") /\ Rest' = Rest /\ ~Idle'
    <3>1. Do("close") \in Job
      BY JobsAre DEF Calls
    <3> QED
      BY <1>3, <3>1, Starts
  <2>2. Waits(Rest, generation)'
    <3>1. Waits(Rest, generation)
      BY <1>3
    <3> QED
      BY <1>2, <2>1, <3>1 DEF Waits, CloseOnly
  <2>3. Head(todo').op = "close"
    BY <2>1 DEF Do
  <2> QED
    BY <1>1, <2>1, <2>2, <2>3 DEF Control, Running
<1>4. CASE todo' = <<Do("connect")>> \o Rest /\ h \in {"closed", "open"} /\ ~CloseOnly
  <2>1. Head(todo') = Do("connect") /\ Rest' = Rest /\ ~Idle'
    <3>1. Do("connect") \in Job
      BY JobsAre DEF Calls
    <3> QED
      BY <1>4, <3>1, Starts
  <2>2. Rest' = <<>> /\ AtRest'
    BY <1>4, <2>1
  <2>3. Head(todo').op = "connect"
    BY <2>1 DEF Do
  <2> QED
    BY <1>1, <2>1, <2>2, <2>3 DEF Control, Running
<1> QED
  BY <1>1, <1>3, <1>4, HandlerCalls

LEMMA RunCallsInv ==
  ASSUME ClientInv, Typed, RunConnect \/ RunClose
  PROVE  ClientInv'
<1> USE DEF ClientInv
<1>1. CASE RunConnect
  BY <1>1, HeadMeans, ConnectKeepsInv DEF RunConnect
<1>2. CASE RunClose
  <2>1. Waits(Rest, generation) /\ Rest \in Seq(Later)
    BY <1>2, HeadMeans, HeadIs DEF RunClose
  <2>2. Mine' /\ Past' /\ Loose'
    BY <1>2, CloseKeepsInv DEF RunClose
  <2>3. Head(todo') = SetState("closed") /\ Rest' = Rest /\ ~Idle'
    <3>1. SetState("closed") \in Job
      BY JobsAre DEF State, Later
    <3> QED
      BY <1>2, <3>1, Starts DEF RunClose, Close
  <2>4. generation' - 1 = generation /\ reentry' = reentry
    BY <1>2, ClientAssumption DEF RunClose, Close, options, Typed, TypeOK, Generation, None
  <2>5. Waits(Rest, generation - 1)'
    BY <2>1, <2>3, <2>4 DEF Waits, CloseOnly
  <2> QED
    BY <2>2, <2>3, <2>5 DEF Control, Running
<1> QED
  BY <1>1, <1>2

\* The state is set, the handlers are called, and the piece goes on.
LEMMA RunSetStateInv ==
  ASSUME HandlersStandBack, ClientInv, Typed, RunSetState
  PROVE  ClientInv'
<1> USE DEF ClientInv
<1>1. /\ ~Idle /\ Next1 = "setState" /\ state' = Head(todo).state
      /\ UNCHANGED <<socket, timer, attempt, generation, intentional, world>>
      /\ UNCHANGED <<socket, timer, generation, conn, opened, settled, tokens, armed>>
      /\ UNCHANGED reentry
  BY DEF RunSetState, world, options
<1>2. todo' = Rest \/ CallHandlers(state')
  BY DEF RunSetState
<1>3. Mine' /\ Past'
  BY <1>1, SameWorld
<1>4. CASE state' = "connecting" /\ Rest = <<Of("proceed", generation)>> /\ Fresh
  <2>1. todo' = Rest
    BY <1>2, <1>4, HandlerCalls
  <2>2. Head(todo') = Of("proceed", generation') /\ Rest' = <<>> /\ ~Idle'
    BY <1>1, <1>4, <2>1, StartsAlone
  <2>3. Fresh'
    BY <1>1, <1>4, SameClient
  <2> QED
    BY <1>3, <1>4, <2>2, <2>3 DEF Control, Running
<1>5. CASE state' = "reconnecting" /\ Rest = <<Do("armTimer")>> /\ Trying
  <2>1. todo' = Rest
    BY <1>2, <1>5, HandlerCalls
  <2>2. Head(todo') = Do("armTimer") /\ Rest' = <<>> /\ ~Idle'
    BY <1>5, <2>1, StartsAlone
  <2>3. Trying'
    BY <1>1, <1>5, SameClient
  <2> QED
    BY <1>3, <1>5, <2>2, <2>3 DEF Control, Running
<1>6. CASE state' = "closed" /\ Waits(Rest, generation - 1) /\ Loose
  <2>1. Loose' /\ AtRest'
    BY <1>1, <1>6, SameWorld DEF AtRest
  <2>2. Waits(Rest, generation) /\ (~CloseOnly => Rest = <<>>)
    BY <1>6, WaitsLonger DEF Waits
  <2>3. todo' = Rest \/ Control'
    BY <1>1, <1>2, <1>6, <2>1, <2>2, CalledBack
  <2>4. CASE todo' = Rest
    <3>1. ASSUME Rest = <<>> PROVE Control'
      BY <2>1, <2>4, <3>1 DEF Control, Idle
    <3>2. ASSUME NEW x \in Job, Rest = <<x>>,
                 \/ x.op \in {"schedule", "afterClose"}
                 \/ x = SetState("closed")
                 \/ x.op = "tokenFailed" /\ x.gen <= generation - 1
          PROVE  Control'
      <4>1. Head(todo') = x /\ Rest' = <<>> /\ ~Idle'
        BY <2>4, <3>2, StartsAlone
      <4>2. CASE x.op \in {"schedule", "afterClose"}
        BY <1>6, <2>1, <4>1, <4>2 DEF Control, Running
      <4>3. CASE x = SetState("closed")
        <5>1. Waits(<<>>, generation - 1)'
          BY DEF Waits
        <5>2. Waits(Rest, generation - 1)'
          BY <4>1 DEF Waits
        <5> QED
          BY <2>1, <4>1, <4>3, <5>2 DEF Control, Running
      <4>4. CASE x.op = "tokenFailed" /\ x.gen <= generation - 1
        <5>1. x.gen # generation'
          BY <1>1, <4>4, ClientAssumption DEF Job, Typed, TypeOK, Generation, None
        <5>2. Rejected(Head(todo).gen)'
          BY <2>1, <4>1, <5>1 DEF Rejected
        <5> QED
          BY <4>1, <4>4, <5>2 DEF Control, Running
      <4> QED
        BY <3>2, <4>2, <4>3, <4>4
    <3>3. \/ Rest = <<>>
          \/ \E x \in Job :
               /\ Rest = <<x>>
               /\ \/ x.op \in {"schedule", "afterClose"}
                  \/ x = SetState("closed")
                  \/ x.op = "tokenFailed" /\ x.gen <= generation - 1
      BY <1>6 DEF Waits
    <3>4. Control'
      BY <3>1, <3>2, <3>3, Zenon
    <3> QED
      BY <1>3, <3>4
  <2> QED
    BY <1>3, <2>3, <2>4
<1>7. CASE state' = "open" /\ Rest = <<>> /\ Opened
  <2>1. AtRest'
    BY <1>1, <1>7, SameClient DEF AtRest
  <2>2. Waits(Rest, generation)
    BY <1>7 DEF Waits
  <2>3. todo' = Rest \/ Control'
    BY <1>1, <1>2, <1>7, <2>1, <2>2, CalledBack
  <2>4. CASE todo' = Rest
    BY <1>3, <1>7, <2>1, <2>4 DEF Control, Idle
  <2> QED
    BY <1>3, <2>3, <2>4
<1> QED
  BY <1>1, <1>4, <1>5, <1>6, <1>7, HeadMeans

LEMMA RunEmitInv ==
  ASSUME HandlersStandBack, ClientInv, Typed, RunEmit
  PROVE  ClientInv'
<1> USE DEF ClientInv
<1>1. PICK h \in {"onClose", "onError"} : CallHandlers(h)
  BY DEF RunEmit
<1>2. /\ ~Idle /\ Next1 \in {"emitError", "emitClose"}
      /\ UNCHANGED <<socket, timer, attempt, generation, intentional, world>>
      /\ UNCHANGED <<socket, timer, generation, conn, opened, settled, tokens, armed>>
      /\ UNCHANGED <<intentional, state, reentry>>
  BY DEF RunEmit, fields, world, options
<1>3. Mine' /\ Past'
  BY <1>2, SameWorld
<1>4. generation \in Nat /\ \A g \in 1..generation : g \in Generation /\ g <= generation
  BY ClientAssumption DEF Typed, TypeOK, Generation, None
<1>5. CASE \/ Rest = <<Schedule("backoff")>> /\ Trying
           \/ Rest = <<SetState("closed")>> /\ Loose
           \/ \E g \in 1..generation : Rest = <<Of("tokenFailed", g)>> /\ Rejected(g)
  <2>1. \E x \in Job :
          /\ Rest = <<x>>
          /\ \/ x.op \in {"schedule", "afterClose"} \/ x = SetState("closed")
             \/ x.op = "tokenFailed" /\ x.gen <= generation
    <3>1. CASE Rest = <<Schedule("backoff")>>
      <4>1. Schedule("backoff") \in Job /\ Schedule("backoff").op = "schedule"
        BY DEF Schedule, Job, Plan
      <4> QED
        BY <3>1, <4>1
    <3>2. CASE Rest = <<SetState("closed")>>
      <4>1. SetState("closed") \in Job
        BY DEF SetState, Job, State
      <4> QED
        BY <3>2, <4>1
    <3>3. ASSUME NEW g \in 1..generation, Rest = <<Of("tokenFailed", g)>>
          PROVE  \E x \in Job : /\ Rest = <<x>>
                                /\ x.op = "tokenFailed" /\ x.gen <= generation
      <4>1. /\ Of("tokenFailed", g) \in Job /\ Of("tokenFailed", g).op = "tokenFailed"
            /\ Of("tokenFailed", g).gen <= generation
        BY <1>4 DEF Of, Job
      <4> QED
        BY <3>3, <4>1
    <3> QED
      BY <1>5, <3>1, <3>2, <3>3
  <2>2. CASE todo' = Rest
    <3>1. CASE Rest = <<Schedule("backoff")>> /\ Trying
      <4>1. Head(todo') = Schedule("backoff") /\ Rest' = <<>> /\ ~Idle'
        BY <2>2, <3>1, StartsAlone
      <4>2. Head(todo').op = "schedule" /\ Loose' /\ ~intentional'
        BY <1>2, <3>1, <4>1, SameClient DEF Trying, Schedule
      <4> QED
        BY <1>3, <4>1, <4>2 DEF Control, Running
    <3>2. CASE Rest = <<SetState("closed")>> /\ Loose
      <4>1. Head(todo') = SetState("closed") /\ Rest' = <<>> /\ ~Idle'
        BY <2>2, <3>2, StartsAlone
      <4>2. Waits(Rest, generation - 1)' /\ Loose'
        BY <1>2, <3>2, <4>1, SameClient DEF Waits
      <4> QED
        BY <1>3, <4>1, <4>2 DEF Control, Running
    <3>3. ASSUME NEW g \in 1..generation, Rest = <<Of("tokenFailed", g)>>, Rejected(g)
          PROVE  ClientInv'
      <4>1. Head(todo') = Of("tokenFailed", g) /\ Rest' = <<>> /\ ~Idle'
        BY <2>2, <3>3, StartsAlone
      <4>2. Head(todo').op = "tokenFailed" /\ Head(todo').gen = g
        BY <4>1 DEF Of
      <4>3. Rejected(Head(todo).gen)'
        BY <1>2, <3>3, <4>2, SameClient DEF Rejected
      <4> QED
        BY <1>3, <4>1, <4>2, <4>3 DEF Control, Running
    <3> QED
      BY <1>5, <3>1, <3>2, <3>3
  <2>3. CASE todo' # Rest
    <3>1. CloseOnly
      BY <1>1, <2>3, HandlerCalls
    <3>2. Waits(Rest, generation)
      BY <2>1, <3>1 DEF Waits
    <3> QED
      BY <1>1, <1>2, <2>3, <3>2, CalledBack
  <2> QED
    BY <2>2, <2>3
<1>6. CASE (\E x \in Job : x.op = "afterClose" /\ Rest = <<x>>) /\ Loose
  <2>1. PICK x \in Job : x.op = "afterClose" /\ Rest = <<x>>
    BY <1>6
  <2>2. CASE todo' = Rest
    <3>1. Head(todo') = x /\ Rest' = <<>> /\ ~Idle'
      BY <2>1, <2>2, StartsAlone
    <3>2. Loose'
      BY <1>2, <1>6, SameClient
    <3> QED
      BY <1>3, <2>1, <3>1, <3>2 DEF Control, Running
  <2>3. CASE todo' # Rest
    <3>1. CloseOnly
      BY <1>1, <2>3, HandlerCalls
    <3>2. Waits(Rest, generation)
      BY <2>1, <3>1 DEF Waits
    <3> QED
      BY <1>1, <1>2, <2>3, <3>2, CalledBack
  <2> QED
    BY <2>2, <2>3
<1> QED
  BY <1>2, <1>5, <1>6, HeadMeans

\* openSocket() supersedes the attempt before it, which has no live socket.
LEMMA RunOpenSocketInv ==
  ASSUME ClientInv, Typed, RunOpenSocket
  PROVE  ClientInv'
<1> USE DEF ClientInv
<1>0. /\ generation \in Nat /\ generation' = generation + 1 /\ None = 0
      /\ \A g \in Generation : g \in Nat
      /\ generation' \in Nat /\ generation' # 0
      /\ \A g \in Generation : g >= generation' => g > generation
  BY ClientAssumption DEF Typed, TypeOK, Generation, None, RunOpenSocket
<1>1. /\ Rest = <<>> /\ socket = None /\ timer = None /\ ~intentional
      /\ UNCHANGED <<socket, timer, intentional, conn, opened, settled, tokens, armed>>
      /\ todo' = <<SetState("connecting"), Of("proceed", generation')>> \o Rest
  BY <1>0, HeadMeans DEF RunOpenSocket, world
<1>2. generation' \in Generation
  BY <1>0, ClientAssumption
     DEF Typed, TypeOK, TodoOK, Numbered, Calling, Calls, Next1, RunOpenSocket, Generation
<1>3. conn[generation'] = "none" /\ generation' \notin tokens
  BY <1>0, <1>2 DEF Past
<1>4. Mine'
  BY <1>1 DEF Mine
<1>5. Past'
  <2> SUFFICES ASSUME NEW g \in Generation
               PROVE  /\ g > generation' \/ g \in tokens => conn[g] = "none"
                      /\ g > generation' => g \notin tokens
                      /\ conn[g] = "none" => g \notin opened \cup settled
                      /\ conn[g] = "open" => g \in opened
                      /\ g = generation' /\ conn[g] \in {"closing", "closed"} => g \in settled
    BY <1>1 DEF Past
  <2>1. g > generation' => g > generation
    BY <1>0
  <2> QED
    BY <1>3, <2>1 DEF Past
<1>6. Fresh'
  BY <1>0, <1>1, <1>3 DEF Fresh, Trying, Loose
<1>7. /\ Head(todo') = SetState("connecting") /\ ~Idle'
      /\ Rest' = <<Of("proceed", generation')>>
  BY <1>1, StartsTwo
<1> QED
  BY <1>4, <1>5, <1>6, <1>7 DEF Control, Running

\* ... and asks for a token or for the socket.
LEMMA RunProceedInv ==
  ASSUME ClientInv, Typed, RunProceed
  PROVE  ClientInv'
<1> USE DEF ClientInv
<1>1. /\ Head(todo).gen = generation /\ Rest = <<>> /\ Fresh /\ state = "connecting"
      /\ UNCHANGED <<state, socket, timer, intentional, generation, conn, opened, settled, armed>>
  BY HeadMeans DEF RunProceed, fields
<1>2. generation \in Nat /\ generation \in Generation
  BY <1>1, ClientAssumption DEF Typed, TypeOK, Generation, None, Fresh
<1>3. CASE tokens' = tokens \cup {generation} /\ todo' = <<>>
  <2>1. Mine' /\ Past'
    BY <1>1, <1>2, <1>3 DEF Mine, Past, Fresh
  <2>2. AtRest'
    BY <1>1, <1>3 DEF AtRest, Fresh, Trying, Loose
  <2> QED
    BY <1>3, <2>1, <2>2 DEF Control, Idle
<1>4. CASE todo' = <<Of("newSocket", generation)>> \o <<>> /\ UNCHANGED tokens
  <2>1. Mine' /\ Past' /\ Fresh'
    BY <1>1, <1>4, SameWorld, SameClient
  <2>2. Head(todo') = Of("newSocket", generation') /\ Rest' = <<>> /\ ~Idle'
    BY <1>1, <1>4, StartsAlone
  <2> QED
    BY <1>1, <2>1, <2>2 DEF Control, Running
<1> QED
  BY <1>1, <1>3, <1>4 DEF RunProceed

\* The attempt's only socket.
LEMMA RunNewSocketInv ==
  ASSUME ClientInv, Typed, RunNewSocket \/ RunNewSocketThrows
  PROVE  ClientInv'
<1> USE DEF ClientInv
<1>1. Head(todo).gen = generation /\ Rest = <<>> /\ Fresh /\ state = "connecting"
  BY HeadMeans DEF RunNewSocket, RunNewSocketThrows
<1>2. generation \in Nat /\ generation \in Generation /\ None = 0
  BY <1>1, ClientAssumption DEF Typed, TypeOK, Generation, None, Fresh
<1>3. CASE RunNewSocket
  <2>1. /\ UNCHANGED <<state, timer, intentional, generation, opened, settled, tokens, armed>>
        /\ conn' = [conn EXCEPT ![generation] = "connecting"]
        /\ socket' = generation /\ todo' = <<>>
    BY <1>1, <1>3 DEF RunNewSocket
  <2>2. socket = None /\ timer = None /\ generation \notin tokens /\ ~intentional
        /\ conn[generation] = "none" /\ generation # None
    BY <1>1 DEF Fresh, Trying, Loose, None
  <2>3. /\ conn'[generation] = "connecting"
        /\ \A g \in Generation : g # generation => conn'[g] = conn[g]
    BY <1>2, <2>1 DEF Typed, TypeOK
  <2>4. generation \notin opened \cup settled
    BY <1>2, <2>2 DEF Past
  <2>5. Mine'
    <3>1. \A g \in Generation : conn[g] \notin {"connecting", "open"}
      <4>1. \A g \in Generation : g # None
        BY DEF Generation, None
      <4> QED
        BY <2>2, <4>1 DEF Mine
    <3> QED
      BY <2>1, <2>2, <2>3, <2>4, <3>1 DEF Mine
  <2>6. Past'
    <3> SUFFICES ASSUME NEW g \in Generation
                 PROVE  /\ g > generation \/ g \in tokens => conn'[g] = "none"
                        /\ g > generation => g \notin tokens
                        /\ conn'[g] = "none" => g \notin opened \cup settled
                        /\ conn'[g] = "open" => g \in opened
                        /\ g = generation /\ conn'[g] \in {"closing", "closed"} => g \in settled
      BY <2>1 DEF Past
    <3>1. CASE g = generation
      BY <1>2, <2>2, <2>3, <3>1
    <3>2. CASE g # generation
      BY <2>3, <3>2 DEF Past
    <3> QED
      BY <3>1, <3>2
  <2>7. AtRest'
    BY <1>1, <2>1, <2>2, <2>3 DEF AtRest
  <2> QED
    BY <2>1, <2>5, <2>6, <2>7 DEF Control, Idle
<1>4. CASE RunNewSocketThrows
  <2>1. /\ UNCHANGED <<socket, timer, generation, conn, opened, settled, tokens, armed>>
        /\ UNCHANGED intentional
        /\ todo' = <<Do("emitError"), Schedule("backoff")>> \o <<>>
    BY <1>1, <1>4 DEF RunNewSocketThrows, fields, world
  <2>2. Mine' /\ Past' /\ Trying'
    BY <1>1, <2>1, SameWorld, SameClient DEF Fresh
  <2>3. Head(todo') = Do("emitError") /\ Rest' = <<Schedule("backoff")>> /\ ~Idle'
    BY <2>1, StartsTwo
  <2> QED
    BY <2>2, <2>3 DEF Control, Running
<1> QED
  BY <1>3, <1>4

\* What became of an attempt, and whether there will be another.
LEMMA RunEndsInv ==
  ASSUME ClientInv, Typed, RunTokenFailed \/ RunAfterClose
  PROVE  ClientInv'
<1> USE DEF ClientInv
<1>1. /\ UNCHANGED <<socket, timer, generation, conn, opened, settled, tokens, armed>>
      /\ UNCHANGED <<intentional, state>> /\ ~Idle
      /\ Mine' /\ Past' /\ (Loose' <=> Loose) /\ (AtRest' <=> AtRest)
  <2>1. /\ UNCHANGED <<socket, timer, generation, conn, opened, settled, tokens, armed>>
        /\ UNCHANGED <<intentional, state>> /\ ~Idle
    BY DEF RunTokenFailed, RunAfterClose, fields, world
  <2> QED
    BY <2>1, SameWorld, SameClient
<1>2. ASSUME NEW plan, todo' = <<Schedule(plan)>> \o <<>>, Loose, ~intentional
      PROVE  ClientInv'
  <2>1. Head(todo') = Schedule(plan) /\ Rest' = <<>> /\ ~Idle'
    BY <1>2, StartsAlone
  <2>2. Head(todo').op = "schedule"
    BY <2>1 DEF Schedule
  <2> QED
    BY <1>1, <1>2, <2>1, <2>2 DEF Control, Running
<1>3. CASE RunTokenFailed
  <2>1. Rest = <<>> /\ Rejected(Head(todo).gen)
    BY <1>3, HeadMeans DEF RunTokenFailed
  <2>2. CASE Head(todo).gen = generation
    BY <1>2, <1>3, <2>1, <2>2 DEF RunTokenFailed, Rejected, Trying
  <2>3. CASE Head(todo).gen # generation
    <3>1. todo' = <<>> /\ AtRest
      BY <1>3, <2>1, <2>3 DEF RunTokenFailed, Rejected
    <3> QED
      BY <1>1, <3>1 DEF Control, Idle
  <2> QED
    BY <2>2, <2>3
<1>4. CASE RunAfterClose
  <2>1. Rest = <<>> /\ Loose
    BY <1>4, HeadMeans DEF RunAfterClose
  <2>2. CASE todo' = <<SetState("closed")>> \o <<>>
    <3>1. Head(todo') = SetState("closed") /\ Rest' = <<>> /\ ~Idle'
      BY <2>2, StartsAlone
    <3>2. Waits(Rest, generation - 1)'
      BY <3>1 DEF Waits
    <3> QED
      BY <1>1, <2>1, <3>1, <3>2 DEF Control, Running
  <2>3. CASE ~intentional /\ \E plan : todo' = <<Schedule(plan)>> \o <<>>
    BY <1>2, <2>1, <2>3
  <2> QED
    BY <1>4, <2>1, <2>2, <2>3 DEF RunAfterClose
<1> QED
  BY <1>3, <1>4

LEMMA RunScheduleInv ==
  ASSUME ClientInv, Typed, RunSchedule
  PROVE  ClientInv'
<1> USE DEF ClientInv
<1>1. /\ UNCHANGED <<socket, timer, generation, conn, opened, settled, tokens, armed>>
      /\ UNCHANGED <<intentional, state>>
      /\ Rest = <<>> /\ Loose /\ (intentional => state = "closed")
  BY HeadMeans DEF RunSchedule, world
<1>2. /\ Mine' /\ Past' /\ Loose'
      /\ ~intentional => Trying'
  BY <1>1, SameWorld, SameClient DEF Trying
<1>3. CASE intentional /\ todo' = <<>>
  BY <1>1, <1>2, <1>3 DEF Control, Idle, AtRest
<1>4. CASE ~intentional /\ todo' = <<SetState("reconnecting"), Do("armTimer")>> \o <<>>
  <2>1. /\ Head(todo') = SetState("reconnecting") /\ ~Idle'
        /\ Rest' = <<Do("armTimer")>>
    BY <1>4, StartsTwo
  <2> QED
    BY <1>2, <1>4, <2>1 DEF Control, Running
<1>5. CASE todo' = <<Do("emitError"), SetState("closed")>> \o <<>>
  <2>1. Head(todo') = Do("emitError") /\ Rest' = <<SetState("closed")>> /\ ~Idle'
    BY <1>5, StartsTwo
  <2> QED
    BY <1>2, <2>1 DEF Control, Running
<1> QED
  BY <1>1, <1>3, <1>4, <1>5 DEF RunSchedule

\* The field held no timeout before: none is forgotten.
LEMMA RunArmTimerInv ==
  ASSUME ClientInv, Typed, RunArmTimer
  PROVE  ClientInv'
<1> USE DEF ClientInv
<1>1. /\ UNCHANGED <<state, socket, intentional, generation, conn, opened, settled, tokens>>
      /\ armed' = armed \cup {timer'} /\ todo' = <<>>
      /\ Trying /\ state = "reconnecting"
  BY HeadMeans DEF RunArmTimer
<1>2. timer' # None
  <2>1. PICK t \in 1..(Cardinality(armed) + 1) : t \notin armed
    BY FreeTimer DEF Typed
  <2>2. timer' \in 1..(Cardinality(armed) + 1)
    BY <2>1 DEF RunArmTimer
  <2> QED
    BY <2>2 DEF None
<1>3. armed = {}
  BY <1>1 DEF Mine, Trying, Loose
<1>4. Mine' /\ Past'
  BY <1>1, <1>2, <1>3 DEF Mine, Past
<1>5. AtRest'
  BY <1>1, <1>2 DEF AtRest, Trying, Loose
<1> QED
  BY <1>1, <1>4, <1>5 DEF Control, Idle

-----------------------------------------------------------------------------
\* What comes from outside

\* A timeout only fires in 'reconnecting', with nothing else under way.
LEMMA TimerFiresInv ==
  ASSUME ClientInv, Typed, NEW t \in armed, TimerFires(t)
  PROVE  ClientInv'
<1> USE DEF ClientInv
<1>1. /\ UNCHANGED <<state, socket, intentional, generation, conn, opened, settled, tokens>>
      /\ armed' = armed \ {t} /\ timer' = None /\ Idle
      /\ todo' = <<Do("openSocket")>>
  BY DEF TimerFires, options
<1>2. timer = t /\ timer # None /\ armed = {t}
  BY DEF Mine
<1>3. socket = None /\ ~intentional
  BY <1>1, <1>2 DEF Control, AtRest, Loose, Opened
<1>4. Mine' /\ Past'
  BY <1>1, <1>2 DEF Mine, Past
<1>5. Head(todo') = Do("openSocket") /\ Rest' = <<>> /\ ~Idle'
  BY <1>1, StartsAlone
<1>6. Head(todo').op = "openSocket"
  BY <1>5 DEF Do
<1> QED
  BY <1>1, <1>3, <1>4, <1>5, <1>6 DEF Control, Running

\* A token is used for the attempt that asked for it, or for none.
LEMMA TokenInv ==
  ASSUME ClientInv, Typed, NEW g \in Generation, TokenResolves(g) \/ TokenRejects(g)
  PROVE  ClientInv'
<1> USE DEF ClientInv
<1>1. /\ UNCHANGED <<state, socket, timer, intentional, generation,
                     conn, opened, settled, armed>>
      /\ tokens' = tokens \ {g} /\ g \in tokens /\ Idle
  BY DEF TokenResolves, TokenRejects, options, fields
<1>2. /\ generation \in Nat /\ g \in 1..generation /\ g # 0
      /\ conn[g] = "none"
  BY <1>1, ClientAssumption DEF Typed, TypeOK, Generation, None, Past
<1>3. Mine' /\ Past' /\ AtRest
  BY <1>1 DEF Mine, Past, Control
<1>4. ASSUME g = generation PROVE Fresh' /\ state' = "connecting"
  BY <1>1, <1>2, <1>3, <1>4 DEF AtRest, Loose, Opened, Fresh, Trying, None
<1>5. ASSUME g # generation PROVE AtRest'
  BY <1>1, <1>3, <1>5 DEF AtRest, Loose, Opened
<1>6. CASE TokenResolves(g) /\ g = generation
  <2>1. todo' = <<Of("newSocket", generation')>>
    BY <1>1, <1>6 DEF TokenResolves
  <2>2. Head(todo') = Of("newSocket", generation') /\ Rest' = <<>> /\ ~Idle'
    BY <2>1, StartsAlone
  <2> QED
    BY <1>3, <1>4, <1>6, <2>2 DEF Control, Running
<1>7. CASE TokenResolves(g) /\ g # generation
  BY <1>3, <1>5, <1>7 DEF TokenResolves, Control, Idle
<1>8. CASE TokenRejects(g)
  <2>1. todo' = <<Do("emitError"), Of("tokenFailed", g)>>
    BY <1>8 DEF TokenRejects
  <2>2. /\ Head(todo') = Do("emitError") /\ ~Idle'
        /\ Rest' = <<Of("tokenFailed", g)>>
    BY <2>1, StartsTwo
  <2>3. Rejected(g)'
    BY <1>1, <1>4, <1>5 DEF Rejected, Fresh
  <2>4. g \in 1..generation'
    BY <1>1, <1>2
  <2> QED
    BY <1>3, <2>2, <2>3, <2>4 DEF Control, Running
<1> QED
  BY <1>6, <1>7, <1>8

\* A live socket is the current attempt's.
LEMMA LiveSocket ==
  ASSUME ClientInv, Typed, Idle, NEW g \in Generation, conn[g] \in {"connecting", "open"}
  PROVE  /\ g = generation /\ g = socket /\ socket # None /\ g \notin settled
         /\ g \notin tokens /\ timer = None /\ ~intentional
         /\ conn[g] = "connecting" => state = "connecting"
<1>1. g # None
  BY DEF Generation, None
<1>2. g = socket /\ socket # None /\ g = generation /\ g \notin settled
  BY <1>1 DEF ClientInv, Mine
<1>3. g \notin tokens
  BY DEF ClientInv, Past
<1> QED
  BY <1>2, <1>3 DEF ClientInv, Control, AtRest, Loose, Opened

LEMMA SocketOpensInv ==
  ASSUME ClientInv, Typed, NEW g \in Generation, SocketOpens(g)
  PROVE  ClientInv'
<1> USE DEF ClientInv
<1>1. /\ g = generation /\ g = socket /\ socket # None /\ g \notin settled
      /\ g \notin tokens /\ timer = None /\ ~intentional
  BY LiveSocket DEF SocketOpens
<1>2. /\ UNCHANGED <<socket, timer, generation, settled, tokens, armed, intentional>>
      /\ conn' = [conn EXCEPT ![g] = "open"] /\ opened' = opened \cup {g}
      /\ todo' = <<SetState("open")>>
  BY <1>1 DEF SocketOpens
<1>3. conn'[g] = "open" /\ \A e \in Generation : e # g => conn'[e] = conn[e]
  BY <1>2 DEF Typed, TypeOK
<1>4. Mine'
  BY <1>1, <1>2, <1>3 DEF Mine
<1>5. Past'
  <2>1. ~(g > generation)
    BY <1>1, ClientAssumption DEF Generation
  <2> QED
    BY <1>1, <1>2, <1>3, <2>1 DEF Past
<1>6. Opened'
  BY <1>1, <1>2, <1>3 DEF Opened
<1>7. Head(todo') = SetState("open") /\ Rest' = <<>> /\ ~Idle'
  BY <1>2, StartsAlone
<1> QED
  BY <1>4, <1>5, <1>6, <1>7 DEF Control, Running

\* The end of a live socket settles its attempt ...
LEMMA SettlesInv ==
  ASSUME ClientInv, Typed, Idle, NEW g \in Generation, NEW code \in Code,
         conn[g] \in {"connecting", "open"}, NEW after \in {"closed", "closing"},
         conn' = [conn EXCEPT ![g] = after], Settle(g, code),
         UNCHANGED <<state, timer, generation, intentional, opened, tokens, armed>>
  PROVE  ClientInv'
<1> USE DEF ClientInv
<1>1. /\ g = generation /\ g = socket /\ socket # None /\ g \notin settled
      /\ g \notin tokens /\ timer = None /\ ~intentional
  BY LiveSocket
<1>2. /\ settled' = settled \cup {g} /\ socket' = None
      /\ todo' = <<Do("emitClose"), AfterClose(g, code)>>
  BY <1>1 DEF Settle
<1>3. conn'[g] = after /\ \A e \in Generation : e # g => conn'[e] = conn[e]
  BY DEF Typed, TypeOK
<1>4. Mine'
  BY <1>1, <1>2, <1>3 DEF Mine
<1>5. Past'
  <2>1. ~(g > generation)
    BY <1>1, ClientAssumption DEF Generation
  <2> QED
    BY <1>1, <1>2, <1>3, <2>1 DEF Past
<1>6. Loose'
  BY <1>1, <1>2 DEF Loose
<1>7. Head(todo') = Do("emitClose") /\ Rest' = <<AfterClose(g, code)>> /\ ~Idle'
  BY <1>2, StartsTwo
<1>8. AfterClose(g, code) \in Job /\ AfterClose(g, code).op = "afterClose"
  BY DEF AfterClose, Job
<1> QED
  BY <1>4, <1>5, <1>6, <1>7, <1>8 DEF Control, Running

\* ... and that of one that was given up settles nothing.
LEMMA LateCloseInv ==
  ASSUME ClientInv, Typed, NEW g \in Generation, NEW code \in Code,
         conn[g] = "closing", SocketCloses(g, code)
  PROVE  ClientInv'
<1> USE DEF ClientInv
<1>1. /\ UNCHANGED <<state, timer, generation, intentional, opened, tokens, armed>>
      /\ conn' = [conn EXCEPT ![g] = "closed"] /\ Idle
  BY DEF SocketCloses, options
<1>2. UNCHANGED <<settled, socket, todo>>
  BY DEF SocketCloses, Settle, Past
<1>3. conn'[g] = "closed" /\ \A e \in Generation : e # g => conn'[e] = conn[e]
  BY <1>1 DEF Typed, TypeOK
<1>4. socket # None => socket # g
  BY DEF Mine
<1>5. Mine'
  <2>1. socket # None => socket \in Generation
    BY DEF Typed, TypeOK
  <2> QED
    BY <1>1, <1>2, <1>3, <1>4, <2>1 DEF Mine
<1>6. Past'
  BY <1>1, <1>2, <1>3 DEF Past
<1>7. AtRest'
  <2>1. socket # None => conn'[socket] = conn[socket]
    BY <1>3, <1>4 DEF Typed, TypeOK
  <2> QED
    BY <1>1, <1>2, <2>1 DEF Control, AtRest, Loose, Opened
<1> QED
  BY <1>1, <1>2, <1>5, <1>6, <1>7 DEF Control, Idle

LEMMA NextClientInv ==
  ASSUME HandlersStandBack, ClientInv, Typed, [Next]_vars
  PROVE  ClientInv'
<1>1. CASE UNCHANGED vars
  <2>1. /\ UNCHANGED <<socket, timer, generation, conn, opened, settled, tokens, armed>>
        /\ UNCHANGED <<intentional, state, todo, reentry>>
    BY <1>1 DEF vars
  <2> QED
    BY <2>1 DEF ClientInv, Mine, Past, Control, Running, Idle, Rest, Waits, CloseOnly,
       AtRest, Rejected, Loose, Trying, Fresh, Opened
<1>2. CASE Run
  BY <1>2, RunCallsInv, RunSetStateInv, RunEmitInv, RunOpenSocketInv, RunProceedInv,
     RunNewSocketInv, RunEndsInv, RunScheduleInv, RunArmTimerInv DEF Run
<1>3. CASE AppConnect
  <2>1. Mine /\ Past /\ AtRest
    BY <1>3 DEF AppConnect, ClientInv, Control
  <2> QED
    BY <1>3, <2>1, ConnectKeepsInv DEF AppConnect
<1>4. CASE AppClose
  <2>1. Mine' /\ Past' /\ Loose'
    BY <1>4, CloseKeepsInv DEF AppClose
  <2>2. todo' = <<SetState("closed")>> \o <<>>
    BY <1>4 DEF AppClose, Close
  <2>3. Head(todo') = SetState("closed") /\ Rest' = <<>> /\ ~Idle'
    BY <2>2, StartsAlone
  <2>4. Waits(Rest, generation - 1)'
    BY <2>3 DEF Waits
  <2> QED
    BY <2>1, <2>3, <2>4 DEF ClientInv, Control, Running
<1>5. ASSUME NEW g \in Generation, SocketStep(g) PROVE ClientInv'
  <2>1. CASE SocketErrors(g)
    <3>1. 1006 \in Code
      BY DEF Code
    <3>2. PICK after \in {"closed", "closing"} : conn' = [conn EXCEPT ![g] = after]
      BY <2>1 DEF SocketErrors
    <3>3. PICK code \in Code : Settle(g, code)
      BY <2>1, <3>1 DEF SocketErrors
    <3>4. /\ Idle /\ conn[g] \in {"connecting", "open"}
          /\ UNCHANGED <<state, timer, generation, intentional, opened, tokens, armed>>
      BY <2>1 DEF SocketErrors
    <3> QED
      BY <3>2, <3>3, <3>4, SettlesInv
  <2>2. ASSUME NEW code \in Code, SocketCloses(g, code), conn[g] = "open" PROVE ClientInv'
    BY <2>2, SettlesInv DEF SocketCloses
  <2>3. ASSUME NEW code \in Code, SocketCloses(g, code), conn[g] = "closing"
        PROVE  ClientInv'
    BY <2>3, LateCloseInv
  <2>4. \A code \in Code : SocketCloses(g, code) => conn[g] \in {"open", "closing"}
    BY DEF SocketCloses
  <2> QED
    BY <1>5, <2>1, <2>2, <2>3, <2>4, SocketOpensInv DEF SocketStep
<1> QED
  BY <1>1, <1>2, <1>3, <1>4, <1>5, TimerFiresInv, TokenInv DEF Next

LEMMA InitClientInv == Init => ClientInv
<1> SUFFICES ASSUME Init PROVE ClientInv
  OBVIOUS
<1>1. /\ state = "closed" /\ socket = None /\ timer = None /\ generation = 0
      /\ conn = [g \in Generation |-> "none"] /\ todo = <<>>
      /\ opened = {} /\ settled = {} /\ tokens = {} /\ armed = {}
  BY DEF Init
<1>2. Mine /\ Past
  BY <1>1 DEF Mine, Past
<1>3. AtRest
  BY <1>1 DEF AtRest, Loose
<1> QED
  BY <1>1, <1>2, <1>3 DEF ClientInv, Control, Idle

LEMMA ClientInvariant ==
  ASSUME HandlersStandBack
  PROVE  Spec => [](Typed /\ ClientInv)
<1>1. Init => Typed /\ ClientInv
  BY InitTyped, InitClientInv
<1>2. Typed /\ ClientInv /\ [Next]_vars => (Typed /\ ClientInv)'
  BY NextTyped, NextClientInv
<1> QED
  BY <1>1, <1>2, PTL DEF Spec

-----------------------------------------------------------------------------
\* Results

\* client.ts:81, client.ts:129: however connect() and close() interleave with tokens, sockets
\* and timeouts, no socket and no timeout is left that the client cannot close.
THEOREM ClientOwnsAll ==
  ASSUME HandlersStandBack
  PROVE  Spec => []NothingOrphaned
<1>1. ClientInv => NothingOrphaned
  BY DEF ClientInv, Mine, NothingOrphaned
<1> QED
  BY <1>1, ClientInvariant, PTL

\* client.ts:139: close() is for good, if no handler calls it just before the
\* client makes a timer or a socket; MCClientCloseInHandler shows that this
\* assumption is needed.
THEOREM CloseIsForGood ==
  ASSUME HandlersStandBack
  PROVE  Spec => []ClosedForGood
<1>1. ClientInv => ClosedForGood
  BY DEF ClientInv, Mine, Control, AtRest, Loose, Opened, ClosedForGood
<1> QED
  BY <1>1, ClientInvariant, PTL

\* client.ts:104: each state the application sees has behind it what will end
\* it: a token or a handshake, a socket, a timeout, or nothing at all.
THEOREM ClientStateTrue ==
  ASSUME HandlersStandBack
  PROVE  Spec => []StateTellsTruth
<1>1. Typed /\ ClientInv => StateTellsTruth
  <2> SUFFICES ASSUME Typed, ClientInv, Idle PROVE StateTellsTruth
    BY DEF StateTellsTruth
  <2>1. AtRest /\ Mine
    BY DEF ClientInv, Control
  <2>2. CASE state = "open"
    <3>1. socket \in Generation
      BY <2>1, <2>2 DEF AtRest, Opened, Typed, TypeOK
    <3> QED
      BY <2>1, <2>2, <3>1 DEF AtRest, Opened, Mine, ClientInv, Past, StateTellsTruth
  <2>3. CASE state = "connecting"
    BY <2>1, <2>3 DEF AtRest, StateTellsTruth
  <2>4. CASE state = "reconnecting"
    BY <2>1, <2>4 DEF AtRest, Mine, StateTellsTruth
  <2>5. CASE state = "closed"
    BY <2>1, <2>5 DEF AtRest, Loose, StateTellsTruth
  <2> QED
    BY <2>1, <2>2, <2>3, <2>4, <2>5 DEF AtRest
<1> QED
  BY <1>1, ClientInvariant, PTL
=============================================================================
