------------------------------ MODULE Replica ------------------------------
(***************************************************************************)
(* What the transfer between the databases of vessels and server promises, *)
(* without messages, clocks, caches and goroutines: the server has a copy  *)
(* of rows the vessels have produced, and for some periods of an origin    *)
(* the number of rows the vessel has.  Once a number is recorded, nothing  *)
(* is produced for or stored in its period any more, so it stays exact.    *)
(***************************************************************************)
EXTENDS Integers, FiniteSets

CONSTANTS
  Origins, Periods,  \* a number is recorded per vessel and period
  Rows,              \* rows, with the fields origin and bucket
  NoCount            \* no number has been recorded

VARIABLES
  produced,  \* what the vessels have measured
  source,    \* what their own databases hold
  copy,      \* what the server holds
  count      \* the numbers recorded

vars == <<produced, source, copy, count>>

RowsOf(db, o, p) == {r \in db : r.origin = o /\ r.bucket = p}

Open(r) == count[r.origin][r.bucket] = NoCount

Init ==
  /\ produced = {} /\ source = {} /\ copy = {}
  /\ count = [o \in Origins |-> [p \in Periods |-> NoCount]]

Produce(r) ==
  /\ Open(r)
  /\ produced' = produced \cup {r}
  /\ UNCHANGED <<source, copy, count>>

Store(S) ==
  /\ S \subseteq produced /\ \A r \in S : Open(r)
  /\ source' = source \cup S
  /\ UNCHANGED <<produced, copy, count>>

Copy(r) ==
  /\ r \in produced
  /\ copy' = copy \cup {r}
  /\ UNCHANGED <<produced, source, count>>

Record(o, p) ==
  /\ count[o][p] = NoCount
  /\ count' = [count EXCEPT ![o][p] = Cardinality(RowsOf(source, o, p))]
  /\ UNCHANGED <<produced, source, copy>>

Next ==
  \/ \E r \in Rows : Produce(r) \/ Copy(r)
  \/ \E S \in SUBSET Rows : Store(S)
  \/ \E o \in Origins, p \in Periods : Record(o, p)

Spec == Init /\ [][Next]_vars

=============================================================================
