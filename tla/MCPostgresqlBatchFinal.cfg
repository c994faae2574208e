SPECIFICATION Spec
CHECK_DEADLOCK FALSE
CONSTANTS
  w1 = w1
  w2 = w2
  r1 = r1
  r2 = r2
  r3 = r3
  f1 = f1
  f2 = f2
  Workers = {w1}
  Rows = {r1, r2}
  Flushers = {f1}
  Ticker = Ticker
  NoOne = NoOne
  BatchSize = 0
  MaxBatches = 3
  MaxTicks = 2
SYMMETRY Symmetry
PROPERTY SentBatchIsFinal
