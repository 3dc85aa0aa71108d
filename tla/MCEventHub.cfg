CONSTANTS
  s1 = s1
  s2 = s2
  Subs = {s1, s2}
  MaxSubscribers = 2
  ReplayCapacity = 2
  QueueCapacity = 1
  FailureCapacity = 1
  BatchSize = 2
  Payloads = {0, 1}
  Rooms = {3, 5}
  MaxId = 2
  None = None
SPECIFICATION Spec
SYMMETRY Symmetry
CHECK_DEADLOCK FALSE
INVARIANTS LedgerExact NothingMissed
PROPERTIES LastWord
