SPECIFICATION PipelineSpec
CONSTANTS
  rejected = rejected
  escalated = escalated
  Transfers <- MCTransfers
  Trails <- MCTrails
  Outcomes <- MCOutcomes
  Consumers = {c1, c2}
  MaxFaults = 1
INVARIANTS
  PipelineTypeInvariant
  ReturnedIsRecorded
  CommittedIsStored
PROPERTIES
  LedgerImplemented
  SinkProvided
  FinishedBecomesVerifiable
CHECK_DEADLOCK FALSE
