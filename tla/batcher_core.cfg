SPECIFICATION FairSpec
CONSTANTS
  Keys = {k1, k2}
  Callbacks = {c1, c2, c3, c4}
  MaxParallel = 1
  MaxPending = 3
INVARIANTS NoCheckFails Accounted AnsweredTruly
PROPERTIES EveryGetAnswered
CHECK_DEADLOCK FALSE
