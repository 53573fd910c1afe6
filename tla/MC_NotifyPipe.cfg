CONSTANTS
  w1 = w1
  Writers <- MCWriters
  MaxChanges = 3
  MaxTick = 2
SPECIFICATION Spec
INVARIANT NoStrandedChange
CHECK_DEADLOCK FALSE
