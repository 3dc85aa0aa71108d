CONSTANTS
  s1 = s1
  s2 = s2
  s3 = s3
  Sessions = {s1, s2, s3}
  Sizes = {1, 2}
  Counts = {1, 2}
  Limits = {2, 4}
  Settings = Settings
  None = None
SPECIFICATION Spec
SYMMETRY Symmetry
INVARIANTS StoreIsSound
PROPERTIES OldestFinishedLeave
