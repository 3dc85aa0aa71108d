CONSTANTS
  c1 = c1
  c2 = c2
  t1 = t1
  Conns = {c1, c2}
  Terminals = {t1}
  TermOf <- OneTerminal
  Rules = {1, 2}
  Absent = Absent
  Nothing = Nothing
  Epochs = {1, 2}
  UserDrafts <- TwoDrafts
  Files <- TwoFiles
  Messages = {{1, 2}}
  MaxRetries = 1
  MaxMessages = 3
  MaxWrites = 1
  MaxFaults = 1
  Overrun = FALSE
SPECIFICATION Spec
SYMMETRY Symmetry
INVARIANTS FiresOnce EditsKept RunStartsClean
PROPERTIES NeverStale
