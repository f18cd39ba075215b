SPECIFICATION RouterSpec
CONSTANTS
  Requests = {r1}
  Ids = {id1}
  IdOf <- MCIdOf
INVARIANT FailedOnlyOnRefusal
CHECK_DEADLOCK FALSE
