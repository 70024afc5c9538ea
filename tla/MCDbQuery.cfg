SPECIFICATION FairSpec
CONSTANTS
  Records = 4
CHECK_DEADLOCK FALSE
INVARIANTS InOrder CompleteOrCut
PROPERTIES NoLateCall Released
