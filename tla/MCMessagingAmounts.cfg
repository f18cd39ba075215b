SPECIFICATION MessagingSpec
CONSTANTS
  m1 = m1
  m2 = m2
  Messages <- MCMessages
  CallsOf <- MCCallsOf
  Statements <- MCStatements
  MaxStatements = 2
INVARIANTS
  MismatchIsRefused
CHECK_DEADLOCK FALSE
