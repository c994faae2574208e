SPECIFICATION Spec
CONSTANTS
  Contexts = {"self", "ais"}
  Paths = {"p", "q", "r", "s"}
  Contents = {"one", "zero", "text"}
  MaxTime = 3
  MaxSent = 2
  RateLimits <- MCRateLimits
  DefaultInterval = 1
  AggregateMappings <- MCAggregateMappings
  FilterMappings <- MCFilterMappings
  Deltas <- MCDeltas
  MaxDeltas = 4
INVARIANTS AggregateFresh MeasuredPassed FilterSafe FilterLossless Spaced Represented
CHECK_DEADLOCK FALSE
