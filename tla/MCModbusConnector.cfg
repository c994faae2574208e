SPECIFICATION Spec
CHECK_DEADLOCK FALSE
CONSTANTS
  g1 = g1
  g2 = g2
  s1 = s1
  s2 = s2
  c1 = c1
  c2 = c2
  Groups = {g1, g2}
  Slaves = {s1, s2}
  Slave <- TwoSlaves
  Commands = {c1, c2}
  CommandSlave <- CommandSlaves
  Bare = {c2}
  MaxReceives = 2
  MaxReadings <- MoreOfFirst
  Nobody = Nobody
INVARIANTS SkewBound GroupsArePolled PanicCauses SlaveAnswers
