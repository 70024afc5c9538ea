SPECIFICATION FairSpec
CONSTANTS
  o1 = o1
  o2 = o2
  o3 = o3
  k1 = k1
  k2 = k2
  Op <- TwoOps
  Key <- OneKey
  None = None
  MaxFails = 1
  MaxCommands = 2
  MaxStops = 1
CHECK_DEADLOCK FALSE
INVARIANTS StatesAgree LockIsReleased
PROPERTIES ImplementsStore Opens
