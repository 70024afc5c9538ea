SPECIFICATION FairSpec
CONSTANTS
  v1 = v1
  w1 = w1
  w2 = w2
  Service = {v1}
  Stream <- TwoStreams
  Histories = {1, 2, 4}
  MaxLog = 4
  MaxBatch = 1
  MaxFaults = 1
  MaxTimers = 3
CHECK_DEADLOCK FALSE
INVARIANTS NoGhostService OnlyReAddedMissing NothingLost
PROPERTIES ViewConverges ImplementsFeed
