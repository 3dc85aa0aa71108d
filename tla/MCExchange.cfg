SPECIFICATION FairSpec
CONSTANTS
  MaxBody = 2
  MaxInfo = 1
  None = None
INVARIANTS ClientIsServed FaultsAct
PROPERTIES StagesEnd
