CONSTANTS
  a = a
  e1 = e1
  e2 = e2
  u1 = u1
  u2 = u2
  Conns = {a}
  Epochs = {e1, e2}
  Users = {u1, u2}
  None = None
  MaxTombstones = 1
SPECIFICATION FairSpec
INVARIANTS NoLostWakeup EveryoneAgrees
PROPERTIES StopEndsPauses
