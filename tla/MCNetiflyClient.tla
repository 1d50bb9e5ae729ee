-------------------------- MODULE MCNetiflyClient --------------------------
\* NetiflyClient on a small instance: which calls the handlers make.
EXTENDS NetiflyClient

\* close() from the handlers that are not called just before a timer or a
\* socket is made ...
CloseFromHandlers == {"closed", "open", "onClose", "onError"} \X {"close"}

\* ... or both calls from the last thing a synchronous piece does.
RestartFromHandlers == {"closed", "open"} \X {"connect", "close"}

Harmless == {CloseFromHandlers, RestartFromHandlers}

\* close() just before.
Harmful == {{"connecting", "reconnecting"} \X {"close"}}
=============================================================================
