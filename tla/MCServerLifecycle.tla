------------------------- MODULE MCServerLifecycle -------------------------
\* TLC instance of ServerLifecycle: two daemons given one address.
EXTENDS ServerLifecycle

CONSTANTS d1, d2

MCProcs == {d1, d2}
MCAlone == {d1}
=============================================================================
