SPECIFICATION FairSpec
CHECK_DEADLOCK FALSE
CONSTANTS
  c1 = c1
  c2 = c2
  c3 = c3
  d1 = d1
  d2 = d2
  Clients = {c1, c2, c3}
  Deltas = {d1, d2}
  Nobody = Nobody
  Nothing = Nothing
INVARIANTS TypeOK Accounted RegisteredAlive
PROPERTY DeliversUnlessStuck
