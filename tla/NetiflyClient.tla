--------------------------- MODULE NetiflyClient ---------------------------
(***************************************************************************)
(* The browser and Node client (client.ts, reconnect.ts): connect(),       *)
(* close(), the token, the socket of each attempt, reconnection.           *)
(*                                                                         *)
(* JavaScript runs one synchronous piece at a time, but the client calls   *)
(* the application's handlers in the middle of its own functions, and a    *)
(* handler may call connect() or close() before they go on.  `todo' is the *)
(* rest of the synchronous piece being run, the innermost call first;      *)
(* timers, sockets, tokens and the application get a turn when it is empty. *)
(*                                                                         *)
(* An attempt creates at most one socket: it is named by its generation,   *)
(* the value its listeners compare with this.generation.                   *)
(***************************************************************************)
EXTENDS Integers, Sequences, FiniteSets

CONSTANTS MayThrow,             \* may `new WebSocket' throw?
          MaxReconnectAttempts,
          Reentries,            \* the sets of calls handlers may make
          MaxReentries,         \* bound on how many of them
          MaxGeneration         \* bound on attempts and close() calls

State == {"closed", "connecting", "open", "reconnecting"}
Handler == State \cup {"onClose", "onError"}

ASSUME ClientAssumption ==
  /\ MayThrow \in BOOLEAN
  /\ MaxReconnectAttempts \in Nat
  /\ Reentries \subseteq SUBSET (Handler \X {"connect", "close"})
  /\ MaxReentries \in Nat
  /\ MaxGeneration \in Nat \ {0}

VARIABLES withToken, \* was getToken given?
          reentry,   \* the calls handlers make, <<handler, call>>
          state, socket, timer, attempt, generation, intentional, \* the fields
          conn,      \* [Generation -> what became of the attempt's WebSocket]
          opened,    \* the attempts whose `opened' is true
          settled,   \* the attempts whose `settled' is true
          tokens,    \* the attempts awaiting getToken()
          armed,     \* the timeouts that will fire
          todo,      \* what is left of the synchronous piece being run
          reentries  \* how many reentrant calls were made

options == <<withToken, reentry>>
fields == <<state, socket, timer, attempt, generation, intentional>>
world == <<options, conn, opened, settled, tokens, armed>>
vars == <<withToken, reentry, state, socket, timer, attempt, generation, intentional,
          conn, opened, settled, tokens, armed, todo, reentries>>

Generation == 1..(MaxGeneration + MaxReentries)
None == 0

Plan == {"immediate-jitter", "backoff"}
Code == {1000, 1006, 1012}

Job == [op : {"connect", "close", "openSocket", "emitError", "emitClose", "armTimer"}]
       \cup [op : {"setState"}, state : State]
       \cup [op : {"proceed", "newSocket", "tokenFailed"}, gen : Generation]
       \cup [op : {"afterClose"}, gen : Generation, code : Code]
       \cup [op : {"schedule"}, plan : Plan]

Do(op) == [op |-> op]
SetState(s) == [op |-> "setState", state |-> s]
Of(op, g) == [op |-> op, gen |-> g]
AfterClose(g, code) == [op |-> "afterClose", gen |-> g, code |-> code]
Schedule(plan) == [op |-> "schedule", plan |-> plan]

TypeOK ==
  /\ withToken \in BOOLEAN /\ reentry \in Reentries
  /\ state \in State
  /\ {socket, generation} \subseteq Generation \cup {None}
  /\ timer \in Nat /\ armed \subseteq Nat
  /\ attempt \in 0..MaxReconnectAttempts
  /\ intentional \in BOOLEAN
  /\ conn \in [Generation -> {"none", "connecting", "open", "closing", "closed"}]
  /\ {opened, settled, tokens} \subseteq SUBSET Generation
  /\ todo \in Seq(Job)
  /\ reentries \in 0..MaxReentries

Init ==
  /\ withToken \in BOOLEAN /\ reentry \in Reentries
  /\ state = "closed" /\ socket = None /\ timer = None
  /\ attempt = 0 /\ generation = 0 /\ intentional = TRUE
  /\ conn = [g \in Generation |-> "none"]
  /\ opened = {} /\ settled = {} /\ tokens = {} /\ armed = {}
  /\ todo = <<>> /\ reentries = 0

-----------------------------------------------------------------------------
\* connect() and close()

\* Seeded fault: a pending reconnect does not make connect() a no-op.
ConnectIgnoresTimer(rest) ==
  /\ IF socket # None
     THEN todo' = rest /\ UNCHANGED <<intentional, attempt>>
     ELSE /\ intentional' = FALSE /\ attempt' = 0
          /\ todo' = <<Do("openSocket")>> \o rest
  /\ UNCHANGED <<state, socket, timer, generation, world, reentries>>

\* A timer or a socket makes connect() a no-op; a pending token does not.
Connect(rest) ==
  /\ IF socket # None \/ timer # None
     THEN /\ todo' = rest
          /\ UNCHANGED <<intentional, attempt>>
     ELSE /\ intentional' = FALSE
          /\ attempt' = 0
          /\ todo' = <<Do("openSocket")>> \o rest
  /\ UNCHANGED <<state, socket, timer, generation, world, reentries>>

CloseSocket ==
  conn' = [g \in Generation |->
             IF g = socket /\ conn[g] \in {"connecting", "open"}
             THEN "closing" ELSE conn[g]]

\* Seeded fault: close() does not supersede the attempt under way.
CloseKeepsGeneration(rest) ==
  /\ intentional' = TRUE
  /\ armed' = armed \ {timer}
  /\ timer' = None
  /\ CloseSocket
  /\ socket' = None
  /\ todo' = <<SetState("closed")>> \o rest
  /\ UNCHANGED <<options, state, generation, attempt, opened, settled, tokens, reentries>>

Close(rest) ==
  /\ intentional' = TRUE
  /\ generation' = generation + 1
  /\ armed' = armed \ {timer}
  /\ timer' = None
  /\ CloseSocket
  /\ socket' = None
  /\ todo' = <<SetState("closed")>> \o rest
  /\ UNCHANGED <<options, state, attempt, opened, settled, tokens, reentries>>

-----------------------------------------------------------------------------
\* The synchronous piece being run

Idle == todo = <<>>
Next1 == Head(todo).op
Rest == Tail(todo)

\* The handlers of h run; one of them may call the client.
CallHandlers(h) ==
  \/ todo' = Rest /\ UNCHANGED reentries
  \/ \E call \in {"connect", "close"} :
       /\ <<h, call>> \in reentry
       /\ reentries < MaxReentries
       /\ reentries' = reentries + 1
       /\ todo' = <<Do(call)>> \o Rest

RunConnect == ~Idle /\ Next1 = "connect" /\ Connect(Rest)

RunClose == ~Idle /\ Next1 = "close" /\ Close(Rest)

RunSetState ==
  /\ ~Idle /\ Next1 = "setState"
  /\ state' = Head(todo).state
  /\ IF state' = state THEN todo' = Rest /\ UNCHANGED reentries
                       ELSE CallHandlers(state')
  /\ UNCHANGED <<socket, timer, attempt, generation, intentional, world>>

RunEmit ==
  /\ ~Idle /\ Next1 \in {"emitError", "emitClose"}
  /\ CallHandlers(IF Next1 = "emitError" THEN "onError" ELSE "onClose")
  /\ UNCHANGED <<fields, world>>

\* openSocket() up to setState('connecting') ...
RunOpenSocket ==
  /\ ~Idle /\ Next1 = "openSocket"
  /\ generation' = generation + 1
  /\ todo' = <<SetState("connecting"), Of("proceed", generation + 1)>> \o Rest
  /\ UNCHANGED <<state, socket, timer, attempt, intentional, world, reentries>>

\* ... on to its await, if it has one ...
RunProceed ==
  /\ ~Idle /\ Next1 = "proceed"
  /\ IF withToken
     THEN tokens' = tokens \cup {Head(todo).gen} /\ todo' = Rest
     ELSE todo' = <<Of("newSocket", Head(todo).gen)>> \o Rest /\ UNCHANGED tokens
  /\ UNCHANGED <<options, fields, conn, opened, settled, armed, reentries>>

\* ... and the WebSocket, whose constructor may throw.
RunNewSocket ==
  LET g == Head(todo).gen IN
  /\ ~Idle /\ Next1 = "newSocket"
  /\ conn' = [conn EXCEPT ![g] = "connecting"]
  /\ socket' = g
  /\ todo' = Rest
  /\ UNCHANGED <<options, state, timer, attempt, generation, intentional,
                 opened, settled, tokens, armed, reentries>>

RunNewSocketThrows ==
  /\ MayThrow
  /\ ~Idle /\ Next1 = "newSocket"
  /\ todo' = <<Do("emitError"), Schedule("backoff")>> \o Rest
  /\ UNCHANGED <<fields, world, reentries>>

\* After emitError(): only the current attempt's own failure is retried.
RunTokenFailed ==
  /\ ~Idle /\ Next1 = "tokenFailed"
  /\ todo' = IF Head(todo).gen = generation
             THEN <<Schedule("backoff")>> \o Rest ELSE Rest
  /\ UNCHANGED <<fields, world, reentries>>

\* planReconnect().  1005 is treated like 1000, any other code like 1006.
PlanReconnect(wasOpen, code) ==
  IF ~wasOpen THEN "backoff"
  ELSE IF code = 1000 THEN "none"
  ELSE IF code = 1012 THEN "immediate-jitter" ELSE "backoff"

\* settle() after emitClose().
RunAfterClose ==
  LET plan == PlanReconnect(Head(todo).gen \in opened, Head(todo).code) IN
  /\ ~Idle /\ Next1 = "afterClose"
  /\ todo' = IF intentional \/ plan = "none"
             THEN <<SetState("closed")>> \o Rest
             ELSE <<Schedule(plan)>> \o Rest
  /\ UNCHANGED <<fields, world, reentries>>

\* Seeded fault: one attempt too many.
RunScheduleOnceMore ==
  /\ ~Idle /\ Next1 = "schedule"
  /\ IF intentional \/ attempt > MaxReconnectAttempts
     THEN todo' = Rest /\ UNCHANGED attempt
     ELSE /\ attempt' = attempt + 1
          /\ todo' = <<SetState("reconnecting"), Do("armTimer")>> \o Rest
  /\ UNCHANGED <<state, socket, timer, generation, intentional, world, reentries>>

\* scheduleReconnect() up to setState('reconnecting'), or giving up.
RunSchedule ==
  LET backoff == Head(todo).plan = "backoff"
      again == <<SetState("reconnecting"), Do("armTimer")>> IN
  /\ ~Idle /\ Next1 = "schedule"
  /\ \/ /\ intentional
        /\ todo' = Rest
        /\ UNCHANGED attempt
     \/ /\ ~intentional /\ ~backoff
        /\ attempt' = 0
        /\ todo' = again \o Rest
     \/ /\ ~intentional /\ backoff /\ attempt < MaxReconnectAttempts
        /\ attempt' = attempt + 1
        /\ todo' = again \o Rest
     \/ /\ ~intentional /\ backoff /\ attempt >= MaxReconnectAttempts
        /\ todo' = <<Do("emitError"), SetState("closed")>> \o Rest
        /\ UNCHANGED attempt
  /\ UNCHANGED <<state, socket, timer, generation, intentional, world, reentries>>

\* Seeded fault: the timeout is cleared as soon as it is set.
RunArmTimerCleared ==
  /\ ~Idle /\ Next1 = "armTimer"
  /\ todo' = Rest
  /\ UNCHANGED <<fields, world, reentries>>

\* this.timer = setTimeout(...): what the field held before is forgotten, not
\* cleared.
RunArmTimer ==
  /\ ~Idle /\ Next1 = "armTimer"
  /\ timer' = CHOOSE t \in 1..(Cardinality(armed) + 1) : t \notin armed
  /\ armed' = armed \cup {timer'}
  /\ todo' = Rest
  /\ UNCHANGED <<options, state, socket, attempt, generation, intentional,
                 conn, opened, settled, tokens, reentries>>

Run ==
  \/ RunConnect \/ RunClose \/ RunSetState \/ RunEmit \/ RunOpenSocket
  \/ RunProceed \/ RunNewSocket \/ RunNewSocketThrows \/ RunTokenFailed
  \/ RunAfterClose \/ RunSchedule \/ RunArmTimer

-----------------------------------------------------------------------------
\* What comes from outside

Bounded == generation < MaxGeneration

AppConnect == Idle /\ Bounded /\ Connect(<<>>)

AppClose == Idle /\ Bounded /\ Close(<<>>)

TimerFires(t) ==
  /\ Idle /\ Bounded /\ t \in armed
  /\ armed' = armed \ {t}
  /\ timer' = None
  /\ todo' = <<Do("openSocket")>>
  /\ UNCHANGED <<options, state, socket, attempt, generation, intentional,
                 conn, opened, settled, tokens, reentries>>

TokenResolves(g) ==
  /\ Idle /\ g \in tokens
  /\ tokens' = tokens \ {g}
  /\ todo' = IF g = generation THEN <<Of("newSocket", g)>> ELSE <<>>
  /\ UNCHANGED <<options, fields, conn, opened, settled, armed, reentries>>

TokenRejects(g) ==
  /\ Idle /\ g \in tokens
  /\ tokens' = tokens \ {g}
  /\ todo' = <<Do("emitError"), Of("tokenFailed", g)>>
  /\ UNCHANGED <<options, fields, conn, opened, settled, armed, reentries>>

SocketOpens(g) ==
  /\ Idle /\ conn[g] = "connecting"
  /\ conn' = [conn EXCEPT ![g] = "open"]
  /\ IF g = generation
     THEN /\ opened' = opened \cup {g}
          /\ attempt' = 0
          /\ todo' = <<SetState("open")>>
     ELSE UNCHANGED <<opened, attempt, todo>>
  /\ UNCHANGED <<options, state, socket, timer, generation, intentional,
                 settled, tokens, armed, reentries>>

\* settle() up to emitClose(), once per socket.
Settle(g, code) ==
  IF g = generation /\ g \notin settled
  THEN /\ settled' = settled \cup {g}
       /\ socket' = None
       /\ todo' = <<Do("emitClose"), AfterClose(g, code)>>
  ELSE UNCHANGED <<settled, socket, todo>>

\* Seeded fault: only 'close' settles a socket.
SocketErrorsIgnored(g) ==
  /\ Idle /\ conn[g] = "connecting"
  /\ \E after \in {"closed", "closing"} : conn' = [conn EXCEPT ![g] = after]
  /\ UNCHANGED <<options, fields, opened, settled, tokens, armed, todo, reentries>>

\* 'error' before the handshake completed: Node 22 never fires 'close' after
\* it, other runtimes do.
SocketErrors(g) ==
  /\ Idle /\ conn[g] = "connecting"
  /\ \E after \in {"closed", "closing"} : conn' = [conn EXCEPT ![g] = after]
  /\ Settle(g, 1006)
  /\ UNCHANGED <<options, state, timer, attempt, generation, intentional,
                 opened, tokens, armed, reentries>>

SocketCloses(g, code) ==
  /\ Idle /\ conn[g] \in {"open", "closing"}
  /\ conn' = [conn EXCEPT ![g] = "closed"]
  /\ Settle(g, code)
  /\ UNCHANGED <<options, state, timer, attempt, generation, intentional,
                 opened, tokens, armed, reentries>>

SocketStep(g) ==
  SocketOpens(g) \/ SocketErrors(g) \/ \E code \in Code : SocketCloses(g, code)

Next ==
  \/ Run
  \/ AppConnect \/ AppClose
  \/ \E t \in armed : TimerFires(t)
  \/ \E g \in Generation : TokenResolves(g) \/ TokenRejects(g) \/ SocketStep(g)

Spec == Init /\ [][Next]_vars

\* JavaScript finishes what it started, a handshake ends one way or the other,
\* getToken() settles, timeouts fire.  An open socket may stay open for ever
\* and the application need not call anything.
Fairness ==
  /\ WF_vars(Run)
  /\ WF_vars(\E t \in armed : TimerFires(t))
  /\ \A g \in Generation :
       /\ WF_vars(TokenResolves(g) \/ TokenRejects(g))
       /\ WF_vars(conn[g] = "connecting" /\ SocketStep(g))

FairSpec == Spec /\ Fairness

-----------------------------------------------------------------------------
\* Properties

\* Nothing the client started escapes it: every socket that is opening or open
\* is this.socket, every timeout that will fire is this.timer.
NothingOrphaned ==
  Idle => /\ \A g \in Generation : conn[g] \in {"connecting", "open"} => g = socket
          /\ armed \subseteq {timer}

\* client.ts:139: close() "never triggers a reconnect".  Until connect() is
\* called again there is no socket, no timer, and the state says so.
ClosedForGood ==
  Idle /\ intentional => socket = None /\ armed = {} /\ state = "closed"

\* The state observed by the application is what is going on: no state can be
\* left with nothing under way that would ever leave it.
StateTellsTruth ==
  Idle =>
    CASE state = "open"         -> socket = generation /\ socket \in opened \ settled
      [] state = "connecting"   -> \/ generation \in tokens
                                   \/ socket = generation /\ conn[socket] = "connecting"
      [] state = "reconnecting" -> timer \in armed /\ socket = None
      [] state = "closed"       -> timer = None /\ socket = None

\* An attempt never hangs: it opens, is retried, or the client gives up.
ConnectingEnds == state = "connecting" ~> state # "connecting"

\* A scheduled reconnect happens, unless close() comes first.
ReconnectHappens ==
  (state = "reconnecting" /\ Bounded) ~> (state # "reconnecting" \/ ~Bounded)
=============================================================================
