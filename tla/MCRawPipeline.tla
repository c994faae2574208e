--------------------------- MODULE MCRawPipeline ---------------------------
EXTENDS RawPipeline

(* The talkers of the table, on a connector of NMEA 0183 sentences: what   *)
(* remains of the long line has none.                                      *)
MCTalkers(m) == m.connector = "line" /\ m.line # 1

=============================================================================
