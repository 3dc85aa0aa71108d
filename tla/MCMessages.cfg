SPECIFICATION MessagesSpec
CONSTANTS
  Null = Null
  Lossy = Lossy
  v1 = v1
  b1 = b1
  b2 = b2
  UpstreamHost = UpstreamHost
  Close = Close
  app = app
  chunked = chunked
  RuleActions <- Editor
  Given <- FormNumbers
  Bodies <- Arriving
  Decisions <- UserChoices
  MaxRules = 2
  MaxActions = 2
INVARIANTS AcceptedRulesRun DecisionTakesEffect NothingLost EditsAreExact SentAsDeclared
CHECK_DEADLOCK FALSE
