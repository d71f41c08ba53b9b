SPECIFICATION FairSpec
CONSTANTS
  o1 = o1
  o2 = o2
  o3 = o3
  Locks = {o1, o2, o3}
  Hash <- TwoNames
  NumSlots = 2
  Steals = {2}
  Waits = {0, 2}
  Never = Never
  MaxSpin = 3
  MaxTime = 3
INVARIANT OneHolder
CHECK_DEADLOCK FALSE
PROPERTIES KeptUntilStolen EveryRequestAnswered
