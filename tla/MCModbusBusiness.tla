------------------------- MODULE MCModbusBusiness -------------------------
(* Instances of ModbusBusiness for TLC: WebSocket requests with ids of their *)
(* own, the first of which is 0, and an HTTP request (7777, no callback).     *)
EXTENDS ModbusBusiness

XZ(x, z) == [a \in Axes |-> IF a = "X" THEN x ELSE z]

MCTaskId ==
  [r \in Requests |-> CASE r = "ws0" -> 0 [] r = "ws1" -> 1 [] r = "ws2" -> 2
                       [] OTHER -> 7777]
MCHasCallback == [r \in Requests |-> r # "http"]

\* Both axes, one axis, the position 0 a dead link also reads, a value that does
\* not fit a register, and nothing at all.
MCTarget ==
  [r \in Requests |-> CASE r = "ws0" -> XZ(1, Skip) [] r = "ws1" -> XZ(1, 1)
                       [] r = "ws2" -> XZ(0, Skip) [] r = "http" -> XZ(Skip, 65536)
                       [] OTHER -> XZ(Skip, Skip)]
============================================================================
