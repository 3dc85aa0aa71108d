CONSTANTS
  o1 = o1
  o2 = o2
  o3 = o3
  e1 = e1
  e2 = e2
  e3 = e3
  c1 = c1
  c2 = c2
  Ops = {o1, o2, o3}
  Epochs = {e1, e2, e3}
  Channels = {c1, c2}
  None = None
  Gated = FALSE
  MayPanic = FALSE
SPECIFICATION Spec
SYMMETRY Symmetry
INVARIANTS TransactionsApart RunningIsBacked NoTaskOutlives CalledOnce
PROPERTIES AcceptsOnlyWhenPublished ImplementsLifecycle
