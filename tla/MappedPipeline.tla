--------------------------- MODULE MappedPipeline ---------------------------
(***************************************************************************)
(* Mappers, the aggregate mapper, the expression filter and the rate limit *)
(* filter in a row, as processes that nanomsg sockets connect.             *)
(***************************************************************************)
EXTENDS ExpressionMappers, RateLimitFilter

CONSTANTS
  Deltas,       \* what the mappers before the aggregate mapper publish
  MaxDeltas     \* bound: how many

ASSUME DeltasAssumption == MaxDeltas \in Nat /\ Deltas \subseteq Seq(Samples)

VARIABLE measured    \* deltas published so far

vars == <<processVars, expressionVars, rateLimitVars, measured>>

Init ==
  /\ ProcessInit /\ ExpressionInit /\ RateLimitInit
  /\ measured = 0

Measure(delta) ==
  /\ measured < MaxDeltas /\ Len(socket[Aggregator]) < MaxSent
  /\ measured' = measured + 1
  /\ socket' = [socket EXCEPT ![Aggregator] = Append(@, delta)]
  /\ UNCHANGED <<busy, todo, result, heard, looked, told, expressionVars, rateLimitVars>>

Transport ==
  /\ \E s \in Processes : Lose(s) \/ Receive(s)
  /\ UNCHANGED <<expressionVars, rateLimitVars, measured>>

Next ==
  \/ \E delta \in Deltas : Measure(delta)
  \/ Transport
  \/ ExpressionNext /\ UNCHANGED <<rateLimitVars, measured>>
  \/ RateLimitNext /\ UNCHANGED <<expressionVars, measured>>

Spec == Init /\ [][Next]_vars

=============================================================================
