------------------------- MODULE SharedSubscription -------------------------
(***************************************************************************)
(* What RefCountedTransport promises (refCountedTransport.ts:3-12): a      *)
(* user's channel is shared by any number of callers, is opened by the     *)
(* first one in and closed by the last one out.                            *)
(***************************************************************************)
CONSTANTS User, Caller

VARIABLES holders, \* [User -> SUBSET Caller]
          open     \* the users whose channel is open

Init ==
  /\ holders = [u \in User |-> {}]
  /\ open = {}

Acquire(u, c) ==
  /\ c \notin holders[u]
  /\ holders' = [holders EXCEPT ![u] = @ \cup {c}]
  /\ open' = open \cup {u}

Release(u, c) ==
  /\ c \in holders[u]
  /\ holders' = [holders EXCEPT ![u] = @ \ {c}]
  /\ open' = IF holders[u] = {c} THEN open \ {u} ELSE open

CloseAll ==
  /\ holders' = [u \in User |-> {}]
  /\ open' = {}

Next ==
  \/ \E u \in User, c \in Caller : Acquire(u, c) \/ Release(u, c)
  \/ CloseAll

Spec == Init /\ [][Next]_<<holders, open>>

\* A channel is open exactly while somebody holds it.
OpenIffHeld == open = {u \in User : holders[u] # {}}
=============================================================================
