-------------------------- MODULE MCCNCController --------------------------
(* Instances of CNCController for TLC.  "ws" and "http" are calls of         *)
(* moveAbsolute2, with and without a callback; "raw" is HTTP mode 1.         *)
EXTENDS CNCController

Right == [axis |-> "X", dir |-> 1]
MCChunks == {Right}

Power == [a \in Axes |-> 0]
PowerC == [a \in Axes |-> 12]
MCTarget ==
  [m \in Moves |-> CASE m = "ws" -> [X |-> 1, Y |-> 0, Z |-> Skip, C |-> Skip]
                     [] m = "http" -> [X |-> Skip, Y |-> 0, Z |-> Skip, C |-> 1]
                     [] OTHER -> [X |-> 1, Y |-> 0, Z |-> 0, C |-> 0]]
MCHasCallback == [m \in Moves |-> m = "ws"]
============================================================================
