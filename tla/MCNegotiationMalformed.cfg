SPECIFICATION NegotiationSpec
CONSTANTS
  Requests = {r1}
  Ids = {id1}
  IdOf <- MCIdOf
  RailTerms <- MCTerms
  SentinelReplies <- MCSentinelReplies
  StrategistReplies <- MCStrategistReplies
INVARIANT SecondFailureEscalates
CHECK_DEADLOCK FALSE
