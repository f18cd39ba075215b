SPECIFICATION GatewaySpec
CONSTANTS
  Requests = {r1}
  Ids = {id1}
  IdOf <- DistinctIds
  MaxCrashes = 1
  Forms <- EveryForm
  LimitTable <- MCLimits
  RailTerms <- MCTerms
  SentinelReplies <- MCSentinelReplies
  StrategistReplies <- MCStrategistReplies
INVARIANT TerminalStatesAudited
CHECK_DEADLOCK FALSE
