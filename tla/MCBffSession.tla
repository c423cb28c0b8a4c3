---------------------------- MODULE MCBffSession ----------------------------
\* One login, one logout, one proxied request and one session query.
EXTENDS BffSession
CONSTANTS callback, logout, proxy, query

MCRequests == {callback, logout, proxy, query}
MCCallbacks == {callback}
MCLogouts == {logout}
MCProxies == {proxy}
=============================================================================
