SPECIFICATION Spec
CONSTANTS
  Requests <- OffSequence
  MaxInputs = 1
  MaxConcurrentFetchInputs = 2
INVARIANTS NoDanglingAlarm
CHECK_DEADLOCK FALSE
