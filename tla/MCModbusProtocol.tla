------------------------- MODULE MCModbusProtocol -------------------------
(* An instance of ModbusProtocol for TLC: the movement thread, which moves    *)
(* and polls, a WebSocket command that sets a speed, and an HTTP client that  *)
(* writes the speed register directly.                                        *)
EXTENDS ModbusProtocol

Set(kind, a, v) == [kind |-> kind, axis |-> a, value |-> v]

MCCallers == {"mover", "ws", "http"}
MCCalls ==
  [t \in MCCallers |->
     CASE t = "mover" -> {Set("length", "X", 5), Command("coordinate", "X")}
       [] t = "ws"    -> {Set("axisSpeed", "X", 400), Set("axisSpeed", "X", NotANumber),
                          Set("axisSpeed", "X", 65536)}
       [] t = "http"  -> {ModelWith("X", 7, 1600)}]
============================================================================
