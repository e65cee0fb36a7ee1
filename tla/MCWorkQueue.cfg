SPECIFICATION Spec
CONSTANTS
  Priorities = {5, 6}
  Times = {0, 1}
  IdSpace = 8
  Multiplier <- LowBits
  MaxPushes = 4
  MaxOthers = 6
INVARIANTS Ordered SameIdOnlyAfterWrap
PROPERTIES ImplementsBag PopTakesMostUrgent
CHECK_DEADLOCK FALSE
