--------------------------- MODULE MCSignalKStream ---------------------------
(* Small instances of SignalKStream for TLC. *)
EXTENDS SignalKStream

CONSTANTS c1, c2, c3, d1, d2

=============================================================================
