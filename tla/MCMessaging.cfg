SPECIFICATION MessagingSpec
CONSTANTS
  m1 = m1
  m2 = m2
  Messages <- MCMessages
  CallsOf <- MCCallsOf
  Statements <- MCStatements
  MaxStatements = 2
INVARIANTS
  MessagingTypeInvariant
  LateReuseRejected
  SeenIsAccepted
  DeliveredIsBooked
  ReturnsAreMatched
  AmountsAreExact
CHECK_DEADLOCK FALSE
