SPECIFICATION LookupSpec
CONSTANTS
  Documents <- Pages
  MaxDocument = 5
  NumWindows = 2
  MaxContexts = 4
  MaxLoads = 1
  MaxBytes = 1
  MaxEntries = 1
INVARIANTS TypeOK QuickAccounted RefsAccounted NoLostWakeup NoWaiterForgotten DeletedUnreferenced ReleasedLast NoneLeftBehind NoCircularWait
PROPERTIES RendersInItsWindow PageNeedsLookupsOnly DriverReleased
