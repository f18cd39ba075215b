SPECIFICATION RouterSpec
CONSTANTS
  Requests = {r1, r2}
  Ids = {id1}
  IdOf <- MCIdOf
INVARIANTS
  RouterTypeInvariant
  NeverSubmittedTwice
  DeliveredByTheLastTold
  AttemptsInOrder
  ExhaustedMeansExhausted
  RetriesAreCounted
PROPERTIES
  RoutingEnds
CHECK_DEADLOCK FALSE
