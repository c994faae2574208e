-------------------------- MODULE MCMappedPipeline --------------------------
EXTENDS MappedPipeline

(* r is the quotient of p and q, or an estimate from p until q is heard.   *)
Quotient(f) ==
  IF "text" \in {f["p"], f["q"]} THEN "error"
  ELSE IF f["q"] = "zero" THEN "infinity" ELSE "number"

Estimate(f) ==
  CASE f["p"] = "text" -> "error" [] f["p"] = "zero" -> "false" [] OTHER -> "number"

(* p is of no use while s is zero, nor at zero itself. *)
Idle(f) ==
  CASE f["s"] = "text" -> "error" [] f["s"] = "zero" -> "true" [] OTHER -> "false"

Zero(f) ==
  CASE f["p"] = "text" -> "error" [] f["p"] = "zero" -> "true" [] OTHER -> "false"

Mapping(path, sources, static, F(_)) ==
  [path |-> path, sources |-> sources, static |-> static,
   eval |-> [f \in [sources -> Contents \cup Computed] |-> F(f)]]

MCAggregateMappings ==
  <<Mapping("r", {"p", "q"}, <<>>, Quotient),
    Mapping("r", {"p"}, "q" :> "one", Estimate)>>

MCFilterMappings ==
  <<Mapping("p", {"p", "s"}, <<>>, Idle), Mapping("p", {"p"}, <<>>, Zero)>>

MCRateLimits == "p" :> 0

Sample(context, path, time, content) ==
  [context |-> context, path |-> path, time |-> time, content |-> content, from |-> {}]

MCDeltas ==
  {<<Sample("self", "q", 1, "zero"), Sample("self", "p", 0, "text")>>,
   <<Sample("self", "q", 2, "one"), Sample("self", "p", 1, "one"), Sample("self", "s", 3, "one")>>,
   <<Sample("self", "q", 3, "text"), Sample("self", "s", 2, "one")>>,
   <<Sample("self", "s", 1, "one"), Sample("self", "p", 2, "zero")>>,
   <<Sample("ais", "s", 0, "zero"), Sample("ais", "p", 3, "one")>>}

=============================================================================
