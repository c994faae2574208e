SPECIFICATION Spec
CHECK_DEADLOCK FALSE
CONSTANTS
  w1 = w1
  w2 = w2
  r1 = r1
  r2 = r2
  r3 = r3
  f1 = f1
  f2 = f2
  Workers = {w1, w2}
  Rows = {r1, r2, r3}
  Flushers = {f1}
  Ticker = Ticker
  NoOne = NoOne
  BatchSize = 1
  MaxBatches = 3
  MaxTicks = 5
SYMMETRY Symmetry
INVARIANTS SentOnce FlushWithin
