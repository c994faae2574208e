------------------------- MODULE ExpressionMappers -------------------------
(***************************************************************************)
(* AggregateMapper and ExpressionFilter: expressions over the values last  *)
(* looked at of a set of paths, of whatever vessel they are.  The mapper   *)
(* adds what they compute to the delta, the filter takes a value away when *)
(* one of them is true.                                                    *)
(*                                                                         *)
(* A mapping has a path, which only the aggregate mapper uses, the paths   *)
(* that trigger it, which are those it reads, the configured               *)
(* ExpressionEnvironment (static), and what expr computes from the         *)
(* contents of the paths it reads.  Keys are paths with "_" for "."; paths *)
(* that differ in nothing else are left out.                               *)
(***************************************************************************)
EXTENDS MappedProcess, Functions

CONSTANTS
  AggregateMappings,   \* sequence of mappings, in the order configured
  FilterMappings

Outcomes == Computed \cup {"error"}

IsMapping(m) ==
  /\ m.path \in Paths
  /\ m.sources \subseteq Paths
  /\ m.static \in UNION {[d -> Contents] : d \in SUBSET Paths}
  /\ m.eval \in [[m.sources -> Contents \cup Computed] -> Outcomes]

ASSUME MappingAssumption ==
  /\ AggregateMappings \in Seq(Range(AggregateMappings))
  /\ \A m \in Range(AggregateMappings) \cup Range(FilterMappings) : IsMapping(m)

VARIABLES
  env,      \* per process: the values its expressions can read, by path
  pending,  \* mappings the mapper has yet to run for the value it looks at
  added,    \* u.Values: what the mapper has computed for this delta
  newest    \* u.Timestamp

expressionVars == <<env, pending, added, newest>>

Aggregator == 1
Filter == 2

ExpressionInit ==
  /\ env = [s \in {Aggregator, Filter} |-> <<>>]
  /\ pending = {}
  /\ added = <<>>
  /\ newest = 0

(* aggregateMappings[path], filterMappings[path], by their numbers. *)
Triggered(mappings, p) == {i \in DOMAIN mappings : p \in mappings[i].sources}

(* mergeEnvironments, expr.Compile and vm.Run.  A path that has not been   *)
(* heard does not compile.                                                 *)
runExpr(m, e) ==
  IF \/ DOMAIN m.static \cap DOMAIN e # {}
     \/ ~(m.sources \subseteq DOMAIN m.static \cup DOMAIN e)
  THEN "error"
  ELSE m.eval[[p \in m.sources |->
                 IF p \in DOMAIN e THEN e[p].content ELSE m.static[p]]]

(* Mutant: the first value of a path stays. *)
Learn_First(s, v) ==
  [p \in DOMAIN env[s] \cup {v.path} |-> IF p \in DOMAIN env[s] THEN env[s][p] ELSE v]

(* m.env[path] = svm *)
Learn(s, v) ==
  [p \in DOMAIN env[s] \cup {v.path} |-> IF p = v.path THEN v ELSE env[s][p]]

(* What the mapper has read; of static contents there is nothing to say.   *)
ReadBy(m, e) == {e[p] : p \in m.sources \cap DOMAIN e}

Larger(a, b) == IF a < b THEN b ELSE a

(* The loop of DoMap gets to the next value; one that triggers a mapping   *)
(* is learnt.                                                              *)
AggregateValue ==
  LET v == Head(todo[Aggregator])
  IN  /\ pending = {}
      /\ NextValue(Aggregator, <<v>>)
      /\ pending' = Triggered(AggregateMappings, v.path)
      /\ IF pending' = {}
         THEN UNCHANGED <<env, newest>>
         ELSE /\ env' = [env EXCEPT ![Aggregator] = Learn(Aggregator, v)]
              /\ newest' = Larger(newest, v.time)
      /\ UNCHANGED added

(* Its inner loop runs the mappings the value triggers in the order they   *)
(* are configured.  GetValueByPath returns a copy: the first output for a  *)
(* path stays.                                                             *)
RunMapping(i) ==
  LET m == AggregateMappings[i]
      e == env[Aggregator]
  IN  /\ i \in pending /\ \A k \in pending : i <= k
      /\ pending' = pending \ {i}
      /\ added' = IF \/ runExpr(m, e) = "error"
                     \/ \E a \in Range(added) : a.path = m.path
                  THEN added
                  ELSE Append(added, [path |-> m.path, content |-> runExpr(m, e),
                                      from |-> ReadBy(m, e)])
      /\ UNCHANGED <<processVars, env, newest>>

(* input.AddUpdate(u): values of the delta's context, all with one time. *)
Aggregates ==
  [i \in 1 .. Len(added) |->
     [context |-> result[Aggregator][1].context, path |-> added[i].path,
      time |-> newest, content |-> added[i].content, from |-> added[i].from]]

(* Mutant: only the new update is returned. *)
PublishAggregated_OnlyNew ==
  /\ Publish(Aggregator, IF added = <<>> THEN result[Aggregator] ELSE Aggregates)
  /\ pending = {} /\ added' = <<>> /\ newest' = 0
  /\ UNCHANGED <<env, pending>>

PublishAggregated ==
  /\ Publish(Aggregator, result[Aggregator] \o Aggregates)
  /\ pending = {} /\ added' = <<>> /\ newest' = 0
  /\ UNCHANGED <<env, pending>>

(* The outcomes of all filters on the path. *)
Verdicts(p, e) ==
  {runExpr(FilterMappings[i], e) : i \in Triggered(FilterMappings, p)}

(* Mutant: the last filter decides. *)
FilterSkips_Last(p, e) ==
  LET filters == Triggered(FilterMappings, p)
  IN  \E i \in filters :
        /\ \A k \in filters : k <= i
        /\ runExpr(FilterMappings[i], e) = "true"

FilterFails(p, e) == ~(Verdicts(p, e) \subseteq {"true", "false"})

(* shouldSkip *)
FilterSkips(p, e) == "true" \in Verdicts(p, e)

(* f.env[path] = svm, if the value has a filter. *)
FilterEnv(v) ==
  IF Triggered(FilterMappings, v.path) = {} THEN env[Filter] ELSE Learn(Filter, v)

(* Mutant: one value to skip drops the delta. *)
FilterValue_SkipsDelta ==
  LET v == Head(todo[Filter])
      e == FilterEnv(v)
  IN  /\ todo[Filter] # <<>>
      /\ IF FilterFails(v.path, e) \/ FilterSkips(v.path, e)
         THEN Fail(Filter)
         ELSE NextValue(Filter, <<v>>)
      /\ env' = [env EXCEPT ![Filter] = e]
      /\ UNCHANGED <<pending, added, newest>>

(* The whole delta fails with the first value an expression fails on. *)
FilterValue ==
  LET v == Head(todo[Filter])
      e == FilterEnv(v)
  IN  /\ todo[Filter] # <<>>
      /\ IF FilterFails(v.path, e)
         THEN Fail(Filter)
         ELSE NextValue(Filter, IF FilterSkips(v.path, e) THEN <<>> ELSE <<v>>)
      /\ env' = [env EXCEPT ![Filter] = e]
      /\ UNCHANGED <<pending, added, newest>>

PublishFiltered ==
  /\ Publish(Filter, result[Filter])
  /\ UNCHANGED expressionVars

ExpressionNext ==
  \/ AggregateValue \/ PublishAggregated
  \/ \E i \in DOMAIN AggregateMappings : RunMapping(i)
  \/ FilterValue \/ PublishFiltered

-----------------------------------------------------------------------------
(* Properties. *)

Triggers(s) ==
  UNION {m.sources : m \in Range(IF s = Filter THEN FilterMappings
                                               ELSE AggregateMappings)}

(* The turns, of the first j, at which a value of p was looked at. *)
TurnsOf(turns, j, p) == {i \in 1 .. j : turns[i].value.path = p}

(* The last value of each of the paths in the first j turns. *)
LastOf(turns, j, paths) ==
  [p \in {q \in paths : TurnsOf(turns, j, q) # {}} |->
     turns[Max(TurnsOf(turns, j, p))].value]

(* What the expressions of the process can read when it looks at its j-th  *)
(* value: the last one of each path that triggers any of them.             *)
LookedAt(s, j) == LastOf(looked[s], j, Triggers(s))

(* The j-th value was one of the k-th delta and triggered m. *)
TurnOf(s, j, k, m) ==
  looked[s][j].delta = k /\ looked[s][j].value.path \in m.sources

(* The turns of the mapper at which it looked at values of its k-th delta. *)
TurnsFor(k) == {j \in DOMAIN looked[Aggregator] : looked[Aggregator][j].delta = k}

(* At the j-th turn it ran its x-th mapping, for path p. *)
RanFor(j, x, p) ==
  /\ looked[Aggregator][j].value.path \in AggregateMappings[x].sources
  /\ AggregateMappings[x].path = p

OutputAt(j, x) == runExpr(AggregateMappings[x], LookedAt(Aggregator, j))

(* v is the first thing the mapper has computed for its path in the k-th   *)
(* delta: it has run that mapping, and those before it failed.             *)
ComputedFor(k, v) ==
  \E j \in TurnsFor(k) : \E x \in DOMAIN AggregateMappings :
    /\ RanFor(j, x, v.path)
    /\ v.content = OutputAt(j, x)
    /\ v.from = ReadBy(AggregateMappings[x], LookedAt(Aggregator, j))
    /\ \A i \in TurnsFor(k) : \A y \in DOMAIN AggregateMappings :
         (i < j \/ (i = j /\ y < x)) /\ RanFor(i, y, v.path) => OutputAt(i, y) = "error"

(* All values of the k-th delta are looked at in turn. *)
LookedThrough(k, delta) ==
  \E n \in 0 .. Len(looked[Aggregator]) - Len(delta) :
    \A i \in DOMAIN delta :
      looked[Aggregator][n + i] = [delta |-> k, value |-> delta[i]]

(* The mapper looks at all values of a delta.  What it adds for a path is  *)
(* the first output of the mappings for it that the values trigger, each   *)
(* run on the value last looked at of every path it reads: a value later   *)
(* in the delta comes too late for an output that is already there.  It    *)
(* is as new as the newest value in the delta that triggers any mapping,   *)
(* and nothing that was computed is missing, unless all was lost.          *)
AggregateFresh ==
  \A k \in DOMAIN told[Aggregator] :
    LET delta == heard[Aggregator][k]
        sent == told[Aggregator][k]
    IN  /\ LookedThrough(k, delta)
        /\ \A i \in Len(delta) + 1 .. Len(sent) :
             /\ ComputedFor(k, sent[i])
             /\ \E w \in Range(delta) :
                  w.path \in Triggers(Aggregator) /\ w.time = sent[i].time
             /\ \A w \in Range(delta) :
                  w.path \in Triggers(Aggregator) => w.time <= sent[i].time
        /\ sent # <<>> =>
             \A j \in TurnsFor(k) : \A x \in DOMAIN AggregateMappings :
               RanFor(j, x, AggregateMappings[x].path) =>
                 \/ \E i \in Len(delta) + 1 .. Len(sent) :
                      sent[i].path = AggregateMappings[x].path
                 \/ OutputAt(j, x) = "error"

(* The mapper passes on all it hears, unless an expression has computed    *)
(* an infinity from values of the delta and of those before it: then the   *)
(* measured values go down with it.                                        *)
MeasuredPassed ==
  \A k \in DOMAIN told[Aggregator] :
    \/ IsPrefix(heard[Aggregator][k], told[Aggregator][k])
    \/ \E j \in DOMAIN looked[Aggregator] : \E m \in Range(AggregateMappings) :
         /\ TurnOf(Aggregator, j, k, m)
         /\ runExpr(m, LookedAt(Aggregator, j)) = "infinity"

(* Every expression on its path was false when the turn of v came. *)
Allowed(k, v) ==
  \E j \in DOMAIN looked[Filter] :
    /\ looked[Filter][j] = [delta |-> k, value |-> v]
    /\ \A m \in Range(FilterMappings) :
         v.path \in m.sources => runExpr(m, LookedAt(Filter, j)) = "false"

(* An expression took v away, or failed for a value of the same delta. *)
Refused(k, v) ==
  \E j \in DOMAIN looked[Filter] : \E m \in Range(FilterMappings) :
    LET output == runExpr(m, LookedAt(Filter, j))
    IN  /\ TurnOf(Filter, j, k, m)
        /\ \/ looked[Filter][j].value = v /\ output = "true"
           \/ output \notin {"true", "false"}

(* No value leaves the filter unless every expression on its path was      *)
(* false, of the values looked at when its turn came.                      *)
FilterSafe ==
  \A k \in DOMAIN told[Filter] :
    \A v \in Range(told[Filter][k]) : Allowed(k, v)

(* The filter takes only those values away whose path triggers an          *)
(* expression that was then true, unless one could not be evaluated for a  *)
(* value of the same delta: one path not heard yet, or one text where a    *)
(* number was expected, and all values of the delta are gone.  The path of *)
(* a mapping has no part in it: mapper/expression_filter_test.yaml:3-6     *)
(* says that it is the path of what is filtered and the source paths only  *)
(* trigger it, but NewExpressionFilter and DoMap look at source paths      *)
(* alone.  So a filter of p that s triggers takes away values of s, and    *)
(* none of p unless p is a source path too.                                *)
FilterLossless ==
  \A k \in DOMAIN told[Filter] : \A v \in Range(heard[Filter][k]) :
    v \in Range(told[Filter][k]) \/ Refused(k, v)

=============================================================================
