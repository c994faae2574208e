--------------------------- MODULE MCMqttPipeline ---------------------------
(* A small instance of MqttPipeline for TLC. *)
EXTENDS MqttPipeline, TLC

CONSTANTS m1, m2, m3, m4, bad

Symmetry == Permutations(Messages \ Undecodable)

=============================================================================
