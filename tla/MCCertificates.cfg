SPECIFICATION Spec
CONSTANTS
  Procs = {p1, p2}
  Addresses = {a1}
  Null = Null
  MaxRevision = 3
  MaxLosses = 1
SYMMETRY Symmetry
INVARIANTS OneSet
PROPERTIES NothingReverted ReplacesWhatWasShown
CHECK_DEADLOCK FALSE
