SPECIFICATION NegotiationSpec
CONSTANTS
  Requests = {r1}
  Ids = {id1}
  IdOf <- MCIdOf
  RailTerms <- MCTerms
  SentinelReplies <- MCSentinelReplies
  StrategistReplies <- MCStrategistReplies
INVARIANTS
  FailClosed
  ResultMatchesTheLog
PROPERTIES
  EscalationIsFinal
  NegotiationEnds
CHECK_DEADLOCK FALSE
