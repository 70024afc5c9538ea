SPECIFICATION Spec
CONSTANTS
  c1 = c1
  c2 = c2
  c3 = c3
  p1 = p1
  p2 = p2
  k1 = k1
  k2 = k2
  Caller <- ThreeCallers
  Asker <- TwoAskers
  Listener <- TwoAskers
  Item <- TwoItems
  Buckets <- TwoBuckets
  Timeouts <- SomeTimeouts
  MaxTime = 5
  MaxTurns = 4
  Times <- SomeTimes
  MaxLen = 3
  Now = 3
  Ahead = 1
  MaxLogins = 3
  MaxAsks = 2
  Starts = 4
  MaxStatus = 3
CHECK_DEADLOCK FALSE
INVARIANTS TypeOK RightName PostDoneOnce ComparesWithPrevious RightService
INVARIANTS ClientOfItsSource ListsAreSnapshots OneTicker StatusReaches
