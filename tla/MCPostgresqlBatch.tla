------------------------- MODULE MCPostgresqlBatch -------------------------
(* Small instances of PostgresqlBatch for TLC. *)
EXTENDS PostgresqlBatch, TLC

CONSTANTS w1, w2, r1, r2, r3, f1, f2

Symmetry == Permutations(Workers) \cup Permutations(Rows) \cup Permutations(Flushers)

=============================================================================
