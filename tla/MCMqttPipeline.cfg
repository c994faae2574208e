SPECIFICATION Spec
CHECK_DEADLOCK FALSE
CONSTANTS
  m1 = m1
  m2 = m2
  m3 = m3
  m4 = m4
  bad = bad
  Messages = {m1, m2, m3, m4, bad}
  Undecodable = {bad}
  BufferSize = 1
  MaxReconnects = 1
SYMMETRY Symmetry
INVARIANTS TypeOK FlushOrder Conserved CacheBound DuplicatesBounded
