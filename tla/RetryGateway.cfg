SPECIFICATION GatewaySpec
CONSTANTS
  c1 = c1
  Callers <- MCCallers
  MaxRetries = 2
  Providers = {"openai", "deepseek"}
INVARIANTS
  AnswerIsFinal
  SpendBounded
  IndInv
  NoClientLost
  RaisedWhenSpent
PROPERTIES
  EveryCallEnds
CHECK_DEADLOCK FALSE
