CONSTANTS
  o1 = o1
  o2 = o2
  e1 = e1
  e2 = e2
  c1 = c1
  Ops = {o1, o2}
  Epochs = {e1, e2}
  Channels = {c1}
  None = None
  Gated = FALSE
  MayPanic = TRUE
SPECIFICATION FairSpec
PROPERTIES CallsReturn FailureSurfaces
