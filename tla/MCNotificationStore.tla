------------------------ MODULE MCNotificationStore ------------------------
\* NotificationStore with a question that expires soon and, where the run has
\* them among its Id, news that expire later than a timer can count.
EXTENDS NotificationStore, TLC

CONSTANTS question, news, ExpiresAt, LaterOn

JustAQuestion == {question}
QuestionAndNews == {question, news}
Questions == {question}
Expiries == [i \in Id |-> IF i = question THEN ExpiresAt ELSE LaterOn]
\* Nothing tells two actions apart.
ActionSymmetry == Permutations(Action)
=============================================================================
