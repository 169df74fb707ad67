CONSTANTS
  Weight <- MCWeight
  Threshold = 2
  Target = 1
  Tasks = {t1, t2}
  Caller = caller
  None = none
  MaxTurns = 2
  MaxCalls = 2

SPECIFICATION Spec
CHECK_DEADLOCK FALSE

INVARIANT ReportedMessagesArePersisted
