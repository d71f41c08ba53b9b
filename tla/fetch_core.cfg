SPECIFICATION FairSpec
CONSTANTS
  Requests <- OnSequence
  MaxInputs = 3
  MaxConcurrentFetchInputs = 2
INVARIANTS AnsweredOnce DriverOutlivesFetch NoDanglingAlarm NoFetchCheckFails
PROPERTIES AnsweredByDeadline EveryDriverReleased
CHECK_DEADLOCK FALSE
