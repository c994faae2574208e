SPECIFICATION Spec
CONSTANTS
  MaxSent = 1
  MaxLines = 4
  LongLines = {1}
  BufferLines = 3
  Groups = {g1, g2}
  Flaky = {g1}
  IncludeLineCount = TRUE
  LineNumbers = 2
  Talkers <- MCTalkers
INVARIANTS TornBound LinesInOrder NumbersInTurn
PROPERTIES LinesPublished HealthyPolled
