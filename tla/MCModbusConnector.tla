------------------------- MODULE MCModbusConnector -------------------------
(* A small instance of ModbusConnector for TLC. *)
EXTENDS ModbusConnector, TLC

CONSTANTS g1, g2, s1, s2, c1, c2

(* The groups belong to different slaves, the commands to the first one. *)
TwoSlaves == g1 :> s1 @@ g2 :> s2
CommandSlaves == [c \in Commands |-> s1]

MoreOfFirst == [p \in Pollers |-> IF p = <<g1, 1>> THEN 3 ELSE 1]

=============================================================================
