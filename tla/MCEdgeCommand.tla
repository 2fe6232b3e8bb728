--------------------------- MODULE MCEdgeCommand ---------------------------
EXTENDS EdgeCommand, TLC
CONSTANTS c1, c2, c3

MCActionOf == (c1 :> "on") @@ (c2 :> "heartbeat") @@ (c3 :> "toggle")
===========================================================================
