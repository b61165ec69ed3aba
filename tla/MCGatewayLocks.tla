--------------------------- MODULE MCGatewayLocks ---------------------------
(* Small instances of GatewayLocks for TLC.                                *)
EXTENDS GatewayLocks

CONSTANTS chat, proxy, mutation, reload

HandlerOf ==
  [t \in Tasks |-> CASE t = chat -> "chat"
                     [] t = proxy -> "proxy"
                     [] t = mutation -> "mutation"
                     [] t = reload -> "reload"]
=============================================================================
