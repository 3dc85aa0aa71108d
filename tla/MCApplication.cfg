SPECIFICATION Spec
CONSTANTS
  Callers = {c1, c2}
  Values = {v0, v1}
  Default = v0
  Null = Null
  MaxSaves = 2
SYMMETRY Symmetry
INVARIANTS OneConfiguration
PROPERTIES RepliesAreTrue NoLostUpdate
